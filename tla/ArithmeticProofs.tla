------------------------------ MODULE ArithmeticProofs ------------------------------
(***************************************************************************)
(* Proofs about the demos that count and calculate.  Time: delays, readings *)
(* of the timer and the clock of the USB link keep their promises for every *)
(* Period, every wrap of the counters and every delay.  RSA: the limbs of   *)
(* bn_mul and bn_reduce are the product and the remainder for every width,  *)
(* every number of limbs and every key, and bn_powmod is the power.         *)
(***************************************************************************)
EXTENDS DemosProofs, FiniteSetTheorems

(* Cycles since the counter last reached zero.                              *)
Phase(v) == IF v = 0 THEN 0 ELSE Period - v

(* Cycles of n ticks, and of one more that was raised and not yet counted.  *)
Turned(n, up) == (IF up THEN n + 1 ELSE n) * Period + Phase(val)

(* n ticks were handled since the snapshot was taken.                       *)
Handled(n) == ticks = (start + n) % TickMod

TimeTypeOK ==
  /\ val \in 0 .. Period - 1 /\ ticks \in 0 .. TickMod - 1 /\ start \in 0 .. TickMod - 1
  /\ spent \in Nat /\ i \in Nat
  /\ tpc \in {"idle", "usb", "starting", "begin", "beginIrq", "poll", "wait", "reading"}
  /\ tpc \in {"begin", "beginIrq", "poll", "wait"} => ms \in Delays /\ ~timed
  /\ tpc = "begin" => i = 0
  /\ tpc \in {"usb", "starting"} => ~timed
  /\ tpc = "reading" => timed

(* The timer runs and start_tick is not yet taken: no tick has come.        *)
StartingInv ==
  tpc = "starting" => ~pending /\ spent = Phase(val) /\ spent <= Horizon

(* Before the delay restarts the counter: a tick of the counter that was    *)
(* running is at most one, since the counter turns once in Period cycles.   *)
BeginInv ==
  /\ tpc \in {"begin", "beginIrq"} => spent <= Period - 1
  /\ tpc = "beginIrq" => \E n \in 0 .. 1 :
       /\ Handled(n) /\ (pending => n = 0)
       /\ n = 1 \/ pending => spent >= 1 + Phase(val)

(* Cycles since the restart are those of the flags taken; those before it,  *)
(* less than a Period, count for the delay as well.                         *)
PollInv ==
  tpc = "poll" => /\ i < ms
                  /\ spent >= Turned(i, flag) /\ spent <= Turned(i, flag) + Period - 1

(* The same for ticks, one of which may be of before the restart.           *)
WaitInv ==
  tpc = "wait" => \E n \in 0 .. ms :
       /\ Handled(n) /\ (pending => n < ms)
       /\ spent >= Turned(n - 1, pending) /\ spent <= Turned(n, pending) + Period - 1

(* The timer's cycles are its ticks and what VAL has counted since; so were  *)
(* they when VAL was read.                                                  *)
TimerInv ==
  timed => \E n \in Nat :
       /\ Handled(n) /\ spent = Turned(n, pending) /\ spent <= Horizon
       /\ tpc = "reading" => /\ seen.val \in 0 .. Period - 1
                             /\ \E m \in 0 .. n : seen.at = m * Period + Phase(seen.val)

(* The USB clock: last is CYCCNT at the last call.                          *)
ClockInv ==
  /\ cycles \in Nat /\ since \in Nat /\ millis \in 0 .. TickMod - 1 /\ rem \in 0 .. Period - 1
  /\ cycles <= Horizon /\ since <= cycles
  /\ last = (cycles - since) % CycleMod
  /\ T!MillisExact

CtrlInv == (tpc \in {"wait", "starting"} \/ timed) => ctrl = "irq"

TimeInv == /\ TimeTypeOK /\ CtrlInv /\ StartingInv /\ BeginInv /\ PollInv /\ WaitInv
           /\ TimerInv /\ ClockInv
----------------------------------------------------------------------------
(* Arithmetic of counters that wrap                                         *)

LEMMA TimeSizes ==
  /\ Period \in Nat \ {0} /\ Period >= 2 /\ TickMod \in Nat \ {0} /\ CycleMod \in Nat \ {0}
  /\ CycleMod > Period /\ MicroMod \in Nat \ {0}
  /\ Horizon \in Nat /\ Horizon < TickMod * Period
  /\ \A d \in Delays : d \in 1 .. TickMod - 1
<1>1. T!TicksBounds
  BY DemoBounds
<1> QED
  BY <1>1 DEF T!TicksBounds

LEMMA Divided ==
  ASSUME NEW x \in Int, NEW m \in Nat \ {0}
  PROVE  /\ x \div m \in Int /\ x % m \in 0 .. m - 1
         /\ x = m * (x \div m) + (x % m)
  BY SMT

LEMMA OneQuotient ==
  ASSUME NEW m \in Nat \ {0}, NEW q \in Int, NEW s \in 0 .. m - 1
  PROVE  (m * q + s) % m = s
  BY SMT

(* Whole turns make no difference.                                          *)
LEMMA Turns ==
  ASSUME NEW m \in Nat \ {0}, NEW q \in Int, NEW x \in Int
  PROVE  (m * q + x) % m = x % m
<1> DEFINE p == x \div m
           s == x % m
<1>1. p \in Int /\ s \in 0 .. m - 1 /\ x = m * p + s
  BY Divided
<1> HIDE DEF p, s
<1>2. m * q + x = m * (q + p) + s
  BY <1>1
<1>3. (m * (q + p) + s) % m = s
  BY <1>1, OneQuotient
<1> QED
  BY <1>2, <1>3 DEF s

(* A difference is counted whether the counter wrapped or not.              *)
LEMMA Difference ==
  ASSUME NEW m \in Nat \ {0}, NEW a \in Int, NEW n \in 0 .. m - 1
  PROVE  /\ (a - ((a - n) % m)) % m = n
         /\ (((a + n) % m) - a) % m = n
<1>1. (a - ((a - n) % m)) % m = n
  <2> DEFINE q == (a - n) \div m
             r == (a - n) % m
  <2>1. q \in Int /\ r \in 0 .. m - 1 /\ a - n = m * q + r
    <3>1. a - n \in Int
      OBVIOUS
    <3> QED
      BY <3>1, Divided
  <2> HIDE DEF q, r
  <2>2. a - r = m * q + n
    BY <2>1
  <2> QED
    BY <2>1, <2>2, OneQuotient DEF r
<1>2. (((a + n) % m) - a) % m = n
  <2> DEFINE q == (a + n) \div m
             r == (a + n) % m
  <2>1. q \in Int /\ r \in 0 .. m - 1 /\ a + n = m * q + r
    <3>1. a + n \in Int
      OBVIOUS
    <3> QED
      BY <3>1, Divided
  <2> HIDE DEF q, r
  <2>2. r - a = m * (-q) + n /\ -q \in Int
    BY <2>1
  <2> QED
    BY <2>1, <2>2, OneQuotient DEF r
<1> QED
  BY <1>1, <1>2

LEMMA Increment ==
  ASSUME NEW m \in Nat \ {0}, NEW a \in Int
  PROVE  ((a % m) + 1) % m = (a + 1) % m
<1> DEFINE q == a \div m
           r == a % m
<1>1. q \in Int /\ r \in 0 .. m - 1 /\ a = m * q + r
  BY Divided
<1> HIDE DEF q, r
<1>2. a + 1 = m * q + (r + 1) /\ r + 1 \in Int
  BY <1>1
<1>3. (m * q + (r + 1)) % m = (r + 1) % m
  BY <1>1, <1>2, Turns
<1> QED
  BY <1>2, <1>3 DEF r

LEMMA OneMore == ASSUME NEW n \in Int PROVE (n + 1) * Period = n * Period + Period
  BY TimeSizes, SMT

LEMMA Fewer ==
  ASSUME NEW n \in Int, NEW t \in Int, n * Period < t * Period PROVE n < t
<1>1. Period \in Nat \ {0}
  BY TimeSizes
<1>2. n >= t => n * Period >= t * Period
  BY <1>1, SMT
<1> QED
  BY <1>1, <1>2

----------------------------------------------------------------------------
(* A cycle counts one, across a tick as well: pending, or COUNTFLAG, has    *)
(* gone up then, and was not up before.                                     *)
LEMMA PhaseRange ==
  ASSUME NEW v \in 0 .. Period - 1
  PROVE  Phase(v) \in 0 .. Period - 1
  BY TimeSizes DEF Phase

LEMMA CycleCounts ==
  ASSUME TimeTypeOK, T!Cycle
  PROVE  /\ val' \in 0 .. Period - 1 /\ spent' = spent + 1 /\ spent' \in Nat
         /\ val # 1 => Phase(val)' = Phase(val) + 1
         /\ val = 1 => Phase(val) = Period - 1 /\ Phase(val)' = 0
<1>1. val \in 0 .. Period - 1 /\ spent \in Nat /\ Period \in Nat /\ Period >= 2
  BY TimeSizes DEF TimeTypeOK
<1>2. spent' = spent + 1 /\ val' = IF val = 0 THEN Period - 1 ELSE val - 1
  BY DEF T!Cycle
<1>3. CASE val = 0
  BY <1>1, <1>2, <1>3 DEF Phase
<1>4. CASE val = 1
  BY <1>1, <1>2, <1>4 DEF Phase
<1>5. CASE val # 0 /\ val # 1
  BY <1>1, <1>2, <1>5 DEF Phase
<1> QED
  BY <1>3, <1>4, <1>5

(* up stands for pending or COUNTFLAG, before and after the cycle.          *)
LEMMA TurnsOnce ==
  ASSUME TimeTypeOK, T!Cycle, NEW n \in Int, NEW up, NEW upNext,
         val # 1 => (upNext <=> up),
         val = 1 => ~up /\ upNext
  PROVE  (IF upNext THEN n + 1 ELSE n) * Period + Phase(val)' = Turned(n, up) + 1
<1>1. Phase(val) \in Int /\ Period \in Int /\ n * Period \in Int
  BY TimeSizes, PhaseRange DEF TimeTypeOK
<1>2. CASE val = 1
  <2>1. Phase(val) = Period - 1 /\ Phase(val)' = 0
    BY <1>2, CycleCounts
  <2>2. (IF upNext THEN n + 1 ELSE n) = n + 1 /\ (IF up THEN n + 1 ELSE n) = n
    BY <1>2
  <2>3. (n + 1) * Period = n * Period + Period
    BY OneMore
  <2> QED
    BY <1>1, <2>1, <2>2, <2>3 DEF Turned
<1>3. CASE val # 1
  <2>1. Phase(val)' = Phase(val) + 1
    BY <1>3, CycleCounts
  <2> DEFINE c == IF up THEN n + 1 ELSE n
  <2>2. (IF upNext THEN n + 1 ELSE n) = c /\ c \in Int
    BY <1>3
  <2> HIDE DEF c
  <2>3. c * Period \in Int
    BY <1>1, <2>2
  <2>4. Turned(n, up) = c * Period + Phase(val)
    BY DEF Turned, c
  <2> QED
    BY <1>1, <2>1, <2>2, <2>3, <2>4
<1> QED
  BY <1>2, <1>3

LEMMA TurnedIsInt ==
  ASSUME TimeTypeOK, NEW n \in Int, NEW up
  PROVE  Turned(n, up) \in Int
<1>1. Phase(val) \in Int /\ Period \in Int /\ (IF up THEN n + 1 ELSE n) \in Int
  BY TimeSizes, PhaseRange DEF TimeTypeOK
<1> QED
  BY <1>1 DEF Turned

LEMMA CycleStep == ASSUME TimeInv, T!Cycle PROVE TimeInv'
<1> DEFINE Keeps == UNCHANGED <<ctrl, ticks, start, ms, i, timed, tpc, seen,
                               cycles, since, prompt, last, millis, rem>>
<1>1. Keeps /\ T!Cycle /\ TimeTypeOK
  BY DEF T!Cycle, T!delay, T!usb, TimeInv
<1>2. /\ val \in 0 .. Period - 1 /\ Phase(val) \in Int /\ Phase(val)' \in Int
      /\ val' \in 0 .. Period - 1 /\ spent \in Nat /\ spent' = spent + 1
      /\ Period \in Int
  BY <1>1, CycleCounts, PhaseRange, TimeSizes DEF TimeTypeOK, Phase
<1>3. /\ val # 1 => (pending' <=> pending) /\ (flag' <=> flag)
      /\ val = 1 => ~T!Late /\ flag'
      /\ val = 1 /\ ctrl = "irq" => pending'
      /\ val = 1 /\ ctrl # "irq" => (pending' <=> pending)
  BY <1>1 DEF T!Cycle
<1>4. TimeTypeOK' /\ CtrlInv'
  BY <1>1, <1>2 DEF TimeInv, TimeTypeOK, CtrlInv
<1>5. BeginInv'
  <2>1. CASE tpc \in {"begin", "beginIrq"}
    <3>1. spent <= Period - 1 /\ spent' <= Period - 1
      <4>1. ~(spent >= Period - 1)
        BY <1>1, <2>1 DEF T!Cycle, T!Slow
      <4> QED
        BY <1>2, <4>1
    <3>2. ASSUME tpc = "beginIrq"
          PROVE  \E n \in 0 .. 1 : /\ Handled(n)' /\ (pending' => n = 0)
                                   /\ n = 1 \/ pending' => spent' >= 1 + Phase(val)'
      <4>1. PICK n \in 0 .. 1 : /\ Handled(n) /\ (pending => n = 0)
                                /\ n = 1 \/ pending => spent >= 1 + Phase(val)
        BY <3>2 DEF TimeInv, BeginInv
      <4>2. Handled(n)'
        BY <1>1, <4>1 DEF Handled
      <4>3. CASE val = 1
        <5>1. Phase(val) = Period - 1 /\ Phase(val)' = 0
          BY <1>1, <4>3, CycleCounts
        <5>2. n = 0
          BY <1>2, <3>1, <4>1, <5>1
        <5>3. spent' >= 1 + Phase(val)'
          BY <1>2, <5>1
        <5> QED
          BY <4>2, <5>2, <5>3
      <4>4. CASE val # 1
        <5>1. Phase(val)' = Phase(val) + 1
          BY <1>1, <4>4, CycleCounts
        <5>2. (n = 1 \/ pending') => spent' >= 1 + Phase(val)'
          BY <1>2, <1>3, <4>1, <4>4, <5>1
        <5> QED
          BY <1>3, <4>1, <4>2, <4>4, <5>2
      <4> QED
        BY <4>3, <4>4
    <3> QED
      BY <1>1, <3>1, <3>2 DEF BeginInv
  <2>2. CASE tpc \notin {"begin", "beginIrq"}
    BY <1>1, <2>2 DEF BeginInv
  <2> QED
    BY <2>1, <2>2
<1>6. PollInv'
  <2> SUFFICES ASSUME tpc = "poll" PROVE PollInv'
    BY <1>1 DEF PollInv
  <2>1. i \in Nat /\ i < ms /\ spent >= Turned(i, flag) /\ spent <= Turned(i, flag) + Period - 1
    BY <1>1 DEF TimeInv, PollInv, TimeTypeOK
  <2>2. val = 1 => ~flag
    BY <1>3 DEF T!Late
  <2>3. (IF flag' THEN i + 1 ELSE i) * Period + Phase(val)' = Turned(i, flag) + 1
    BY <1>1, <1>3, <2>1, <2>2, TurnsOnce
  <2>4. Turned(i, flag)' = Turned(i, flag) + 1
    BY <1>1, <2>3 DEF Turned
  <2>5. Turned(i, flag) \in Int
    BY <1>1, <2>1, TurnedIsInt
  <2>6. spent' >= Turned(i, flag)' /\ spent' <= Turned(i, flag)' + Period - 1
    BY <1>2, <2>1, <2>4, <2>5
  <2> QED
    BY <1>1, <2>1, <2>6 DEF PollInv
<1>7. WaitInv'
  <2> SUFFICES ASSUME tpc = "wait" PROVE WaitInv'
    BY <1>1 DEF WaitInv
  <2>1. PICK n \in 0 .. ms : /\ Handled(n) /\ (pending => n < ms)
                             /\ spent >= Turned(n - 1, pending)
                             /\ spent <= Turned(n, pending) + Period - 1
    BY DEF TimeInv, WaitInv
  <2>2. ms \in 1 .. TickMod - 1 /\ ctrl = "irq" /\ n \in Int /\ n - 1 \in Int
    BY <1>1, <2>1, TimeSizes DEF TimeInv, TimeTypeOK, CtrlInv
  <2>3. val = 1 => ~pending /\ n < ms
    <3>1. (ticks - start) % TickMod = n
      <4>1. start \in Int /\ n \in 0 .. TickMod - 1 /\ TickMod \in Nat \ {0}
        BY <1>1, <2>1, <2>2, TimeSizes DEF TimeTypeOK
      <4> QED
        BY <2>1, <4>1, Difference DEF Handled
    <3>2. val = 1 => ~pending /\ ~(n >= ms)
      BY <1>3, <3>1 DEF T!Late, T!Elapsed
    <3> QED
      BY <2>1, <2>2, <3>2
  <2>4. /\ val # 1 => (pending' <=> pending)
        /\ val = 1 => ~pending /\ pending'
    BY <1>3, <2>2, <2>3
  <2>5. /\ (IF pending' THEN n + 1 ELSE n) * Period + Phase(val)' = Turned(n, pending) + 1
        /\ (IF pending' THEN (n - 1) + 1 ELSE n - 1) * Period + Phase(val)'
              = Turned(n - 1, pending) + 1
    BY <1>1, <2>2, <2>4, TurnsOnce
  <2>6. /\ Turned(n, pending)' = Turned(n, pending) + 1
        /\ Turned(n - 1, pending)' = Turned(n - 1, pending) + 1
    BY <2>5 DEF Turned
  <2>7. Turned(n, pending) \in Int /\ Turned(n - 1, pending) \in Int
    BY <1>1, <2>2, TurnedIsInt
  <2>8. /\ spent' >= Turned(n - 1, pending)'
        /\ spent' <= Turned(n, pending)' + Period - 1
    BY <1>2, <2>1, <2>6, <2>7
  <2>9. Handled(n)' /\ (pending' => n < ms) /\ ms' = ms
    BY <1>1, <2>1, <2>3, <2>4 DEF Handled
  <2> QED
    BY <2>1, <2>8, <2>9 DEF WaitInv
<1>8. TimerInv'
  <2> SUFFICES ASSUME timed PROVE TimerInv'
    BY <1>1 DEF TimerInv
  <2>1. PICK n \in Nat :
          /\ Handled(n) /\ spent = Turned(n, pending) /\ spent <= Horizon
          /\ tpc = "reading" => /\ seen.val \in 0 .. Period - 1
                                /\ \E m \in 0 .. n : seen.at = m * Period + Phase(seen.val)
    BY DEF TimeInv, TimerInv
  <2>2. tpc \in {"idle", "reading"} /\ ctrl = "irq"
    BY <1>1 DEF TimeInv, TimeTypeOK, CtrlInv
  <2>3. /\ val # 1 => (pending' <=> pending)
        /\ val = 1 => ~pending /\ pending'
    BY <1>3, <2>2 DEF T!Late
  <2>4. (IF pending' THEN n + 1 ELSE n) * Period + Phase(val)' = Turned(n, pending) + 1
    BY <1>1, <2>1, <2>3, TurnsOnce
  <2>5. spent' = Turned(n, pending)'
    BY <1>2, <2>1, <2>4 DEF Turned
  <2>6. spent' <= Horizon
    BY <1>1, <1>2, <2>2, TimeSizes DEF T!Cycle
  <2>7. Handled(n)'
    BY <1>1, <2>1 DEF Handled
  <2>8. tpc' = "reading" => /\ seen'.val \in 0 .. Period - 1
                            /\ \E m \in 0 .. n : seen'.at = m * Period + Phase(seen'.val)
    BY <1>1, <2>1
  <2> QED
    BY <2>1, <2>5, <2>6, <2>7, <2>8 DEF TimerInv, Phase
<1>9. ClockInv'
  BY <1>1 DEF TimeInv, ClockInv, T!MillisExact, T!Counted
<1>10. StartingInv'
  <2> SUFFICES ASSUME tpc = "starting" PROVE StartingInv'
    BY <1>1 DEF StartingInv
  <2>1. ~pending /\ spent = Phase(val) /\ spent < Period - 1 /\ spent < Horizon
    <3>1. ~(spent >= Period - 1) /\ spent < Horizon
      BY <1>1 DEF T!Cycle, T!Slow
    <3> QED
      BY <1>2, <3>1 DEF TimeInv, StartingInv
  <2>2. val # 1 /\ Phase(val)' = Phase(val) + 1
    BY <1>1, <1>2, <2>1, CycleCounts
  <2>3. Horizon \in Nat
    BY TimeSizes
  <2> QED
    BY <1>2, <1>3, <2>1, <2>2, <2>3 DEF StartingInv
<1> QED
  BY <1>4, <1>5, <1>6, <1>7, <1>8, <1>9, <1>10 DEF TimeInv

----------------------------------------------------------------------------
(* The handler moves a tick from pending to ticks.                          *)

LEMMA SmallMod == ASSUME NEW m \in Nat \ {0}, NEW s \in 0 .. m - 1 PROVE s % m = s
<1>1. m * 0 + s = s
  OBVIOUS
<1>2. (m * 0 + s) % m = s
  BY OneQuotient
<1> QED
  BY <1>1, <1>2

LEMMA HandlerStep == ASSUME TimeInv, T!SysTick_Handler PROVE TimeInv'
<1>1. /\ pending /\ ~pending' /\ ticks' = (ticks + 1) % TickMod
      /\ UNCHANGED <<val, ctrl, flag, start, ms, i, timed, tpc, spent, seen,
                     cycles, since, prompt, last, millis, rem>>
  BY DEF T!SysTick_Handler, T!delay, T!usb
<1>2. TimeTypeOK /\ TickMod \in Nat \ {0} /\ ticks \in Int /\ start \in Int
  BY TimeSizes DEF TimeInv, TimeTypeOK
<1>3. ASSUME NEW n \in Int, Handled(n) PROVE Handled(n + 1)'
  <2>1. start + n \in Int /\ (start + n) + 1 = start + (n + 1)
    BY <1>2, <1>3
  <2>2. (((start + n) % TickMod) + 1) % TickMod = ((start + n) + 1) % TickMod
    BY <1>2, <2>1, Increment
  <2>3. ticks' = (start + (n + 1)) % TickMod
    BY <1>1, <1>3, <2>1, <2>2 DEF Handled
  <2> QED
    BY <1>1, <2>3 DEF Handled
<1>4. ASSUME NEW n \in Int PROVE Turned(n + 1, pending)' = Turned(n, pending)
  BY <1>1 DEF Turned, Phase
<1>5. TimeTypeOK' /\ CtrlInv' /\ StartingInv'
  <2>1. ticks' \in 0 .. TickMod - 1
    BY <1>1, <1>2, Divided
  <2> QED
    BY <1>1, <2>1 DEF TimeInv, TimeTypeOK, CtrlInv, StartingInv
<1>6. BeginInv'
  <2>1. tpc \in {"begin", "beginIrq"} => spent' <= Period - 1
    BY <1>1 DEF TimeInv, BeginInv
  <2>2. ASSUME tpc = "beginIrq"
        PROVE  Handled(1)' /\ spent' >= 1 + Phase(val)'
    <3>1. Handled(0) /\ spent >= 1 + Phase(val)
      BY <1>1, <2>2 DEF TimeInv, BeginInv
    <3> QED
      BY <1>1, <1>3, <3>1 DEF Phase
  <2> QED
    BY <1>1, <2>1, <2>2 DEF BeginInv
<1>7. PollInv'
  BY <1>1 DEF TimeInv, PollInv, Turned, Phase
<1>8. WaitInv'
  <2> SUFFICES ASSUME tpc = "wait" PROVE WaitInv'
    BY <1>1 DEF WaitInv
  <2>1. PICK n \in 0 .. ms : /\ Handled(n) /\ n < ms
                             /\ spent >= Turned(n - 1, pending)
                             /\ spent <= Turned(n, pending) + Period - 1
    BY <1>1 DEF TimeInv, WaitInv
  <2>2. ms \in Nat /\ n \in Int /\ n - 1 \in Int
    BY <1>2, <2>1, TimeSizes DEF TimeTypeOK
  <2>3. (n - 1) + 1 = n /\ (n + 1) - 1 = n /\ n + 1 \in 0 .. ms
    BY <2>1, <2>2
  <2>4. Turned(n + 1, pending)' = Turned(n, pending) /\ Turned(n, pending)' = Turned(n - 1, pending)
    BY <1>4, <2>2, <2>3
  <2>5. Turned((n + 1) - 1, pending)' = Turned(n - 1, pending)
    BY <2>3, <2>4
  <2>6. Handled(n + 1)' /\ n + 1 \in 0 .. ms'
    BY <1>1, <1>3, <2>1, <2>2, <2>3
  <2>7. spent' >= Turned((n + 1) - 1, pending)' /\ spent' <= Turned(n + 1, pending)' + Period - 1
    BY <1>1, <2>1, <2>4, <2>5
  <2> QED
    BY <1>1, <2>6, <2>7 DEF WaitInv
<1>9. TimerInv'
  <2> SUFFICES ASSUME timed PROVE TimerInv'
    BY <1>1 DEF TimerInv
  <2>1. PICK n \in Nat :
          /\ Handled(n) /\ spent = Turned(n, pending) /\ spent <= Horizon
          /\ tpc = "reading" => /\ seen.val \in 0 .. Period - 1
                                /\ \E m \in 0 .. n : seen.at = m * Period + Phase(seen.val)
    BY DEF TimeInv, TimerInv
  <2>2. /\ n + 1 \in Nat /\ Handled(n + 1)' /\ spent' = Turned(n + 1, pending)'
        /\ spent' <= Horizon
    <3>1. n \in Int /\ n + 1 \in Nat
      BY <2>1
    <3>2. Handled(n + 1)' /\ Turned(n + 1, pending)' = Turned(n, pending)
      BY <1>3, <1>4, <2>1, <3>1
    <3> QED
      BY <1>1, <2>1, <3>1, <3>2
  <2>3. tpc' = "reading" =>
          /\ seen'.val \in 0 .. Period - 1
          /\ \E m \in 0 .. n + 1 : seen'.at = m * Period + Phase(seen'.val)
    BY <1>1, <2>1
  <2> QED
    BY <2>2, <2>3 DEF TimerInv, Phase
<1>10. ClockInv'
  BY <1>1 DEF TimeInv, ClockInv, T!MillisExact, T!Counted
<1> QED
  BY <1>5, <1>6, <1>7, <1>8, <1>9, <1>10 DEF TimeInv

----------------------------------------------------------------------------
(* The steps of main, at which no tick is pending.                          *)

LEMMA FreshHandled ==
  ASSUME TimeTypeOK PROVE ticks = (ticks + 0) % TickMod
<1>1. ticks \in 0 .. TickMod - 1 /\ TickMod \in Nat \ {0} /\ ticks + 0 = ticks
  BY TimeSizes DEF TimeTypeOK
<1> QED
  BY <1>1, SmallMod

LEMMA StartStep == ASSUME TimeInv, T!StartTimer PROVE TimeInv'
<1>1. /\ tpc = "idle" /\ tpc' = "starting" /\ ~pending /\ ~pending' /\ val' = 0
      /\ ctrl' = "irq" /\ spent' = 0 /\ ~timed'
      /\ UNCHANGED <<ticks, start, ms, i, seen, cycles, since, prompt, last, millis, rem>>
  BY DEF T!StartTimer, T!At, T!Restart, T!usb
<1>2. TimeTypeOK /\ Period \in Nat /\ Period >= 2 /\ Horizon \in Nat
  BY TimeSizes DEF TimeInv
<1>3. TimeTypeOK' /\ CtrlInv' /\ StartingInv'
  BY <1>1, <1>2 DEF TimeTypeOK, CtrlInv, StartingInv, Phase
<1>4. BeginInv' /\ PollInv' /\ WaitInv' /\ TimerInv'
  BY <1>1 DEF BeginInv, PollInv, WaitInv, TimerInv
<1>5. ClockInv'
  BY <1>1 DEF TimeInv, ClockInv, T!MillisExact, T!Counted
<1> QED
  BY <1>3, <1>4, <1>5 DEF TimeInv

LEMMA SnapshotStep == ASSUME TimeInv, T!Snapshot PROVE TimeInv'
<1>1. /\ tpc = "starting" /\ tpc' = "idle" /\ ~pending /\ start' = ticks
      /\ UNCHANGED <<val, ctrl, flag, pending, ticks, ms, i, spent, seen,
                     cycles, since, prompt, last, millis, rem>>
  BY DEF T!Snapshot, T!At, T!timer, T!usb
<1>2. TimeTypeOK /\ Period \in Nat /\ Phase(val) \in Int /\ ctrl = "irq"
  BY <1>1, TimeSizes, PhaseRange DEF TimeInv, TimeTypeOK, CtrlInv
<1>3. TimeTypeOK' /\ CtrlInv' /\ StartingInv'
  BY <1>1, <1>2 DEF TimeTypeOK, CtrlInv, StartingInv
<1>4. BeginInv' /\ PollInv' /\ WaitInv'
  BY <1>1 DEF BeginInv, PollInv, WaitInv
<1>5. TimerInv'
  <2>1. Handled(0)'
    BY <1>1, <1>2, FreshHandled DEF Handled
  <2>2. Turned(0, pending)' = spent'
    BY <1>1, <1>2 DEF TimeInv, StartingInv, Turned, Phase
  <2>3. 0 \in Nat /\ spent' = Turned(0, pending)' /\ spent' <= Horizon /\ tpc' # "reading"
    BY <1>1, <2>2 DEF TimeInv, StartingInv
  <2> QED
    BY <2>1, <2>3 DEF TimerInv
<1>6. ClockInv'
  BY <1>1 DEF TimeInv, ClockInv, T!MillisExact, T!Counted
<1> QED
  BY <1>3, <1>4, <1>5, <1>6 DEF TimeInv

LEMMA CallStep == ASSUME TimeInv, T!CallDelay PROVE TimeInv'
<1>1. /\ tpc = "idle" /\ ~pending /\ ~pending' /\ ms' \in Delays /\ i' = 0
      /\ ~timed' /\ spent' = 0
      /\ \/ tpc' = "begin" /\ start' = start
         \/ tpc' = "beginIrq" /\ start' = ticks
      /\ UNCHANGED <<val, ctrl, ticks, cycles, since, prompt, last, millis, rem>>
  BY DEF T!CallDelay, T!At, T!timer, T!usb
<1>2. TimeTypeOK /\ Period \in Nat /\ Period >= 2
  BY TimeSizes DEF TimeInv
<1>3. TimeTypeOK' /\ CtrlInv' /\ StartingInv' /\ PollInv' /\ WaitInv' /\ TimerInv'
  BY <1>1, <1>2 DEF TimeTypeOK, CtrlInv, StartingInv, PollInv, WaitInv, TimerInv
<1>4. BeginInv'
  <2>1. tpc' = "beginIrq" => Handled(0)'
    BY <1>1, <1>2, FreshHandled DEF Handled
  <2>2. spent' <= Period - 1 /\ 0 \in 0 .. 1 /\ 0 # 1
    BY <1>1, <1>2
  <2> QED
    BY <1>1, <2>1, <2>2 DEF BeginInv
<1>5. ClockInv'
  BY <1>1 DEF TimeInv, ClockInv, T!MillisExact, T!Counted
<1> QED
  BY <1>3, <1>4, <1>5 DEF TimeInv

LEMMA BeginStep == ASSUME TimeInv, T!Begin PROVE TimeInv'
<1>1. /\ ~pending /\ ~pending' /\ val' = 0 /\ ~flag'
      /\ \/ tpc = "begin" /\ tpc' = "poll"
         \/ tpc = "beginIrq" /\ tpc' = "wait" /\ ctrl' = "irq"
      /\ UNCHANGED <<ticks, start, ms, i, timed, spent, seen, cycles, since, prompt, last, millis, rem>>
  BY DEF T!Begin, T!At, T!Restart, T!delay, T!usb
<1>2. /\ TimeTypeOK /\ Period \in Nat /\ Period >= 2 /\ spent \in Nat /\ spent <= Period - 1
      /\ ms \in 1 .. TickMod - 1 /\ ms \in Nat
  BY <1>1, TimeSizes DEF TimeInv, TimeTypeOK, BeginInv
<1>3. TimeTypeOK' /\ CtrlInv' /\ StartingInv' /\ BeginInv' /\ TimerInv'
  BY <1>1, <1>2 DEF TimeTypeOK, CtrlInv, StartingInv, BeginInv, TimerInv
<1>4. PollInv'
  <2> SUFFICES ASSUME tpc = "begin" PROVE PollInv'
    BY <1>1 DEF PollInv
  <2>1. i' = 0 /\ i' < ms'
    BY <1>1, <1>2 DEF TimeTypeOK
  <2>2. Turned(i, flag)' = 0
    BY <1>1, <1>2, <2>1 DEF Turned, Phase
  <2> QED
    BY <1>1, <1>2, <2>1, <2>2 DEF PollInv
<1>5. WaitInv'
  <2> SUFFICES ASSUME tpc = "beginIrq" PROVE WaitInv'
    BY <1>1 DEF WaitInv
  <2>1. PICK n \in 0 .. 1 : Handled(n) /\ (n = 1 => spent >= 1 + Phase(val))
    BY <1>1 DEF TimeInv, BeginInv
  <2>2. /\ Turned(n - 1, pending)' = (n - 1) * Period
        /\ Turned(n, pending)' = n * Period
    BY <1>1, <1>2, <2>1 DEF Turned, Phase
  <2>3. spent >= (n - 1) * Period /\ spent <= n * Period + Period - 1
    <3>1. CASE n = 0
      BY <1>2, <3>1
    <3>2. CASE n = 1
      BY <1>2, <3>2
    <3> QED
      BY <2>1, <3>1, <3>2
  <2>4. n \in 0 .. ms' /\ Handled(n)'
    BY <1>1, <1>2, <2>1 DEF Handled
  <2> QED
    BY <1>1, <2>2, <2>3, <2>4 DEF WaitInv
<1>6. ClockInv'
  BY <1>1 DEF TimeInv, ClockInv, T!MillisExact, T!Counted
<1> QED
  BY <1>3, <1>4, <1>5, <1>6 DEF TimeInv

(* A delay that goes on to its next flag, or returns.                       *)
LEMMA ReturnStep ==
  ASSUME TimeInv, T!Return, tpc \in {"poll", "wait"},
         UNCHANGED <<val, pending, ticks, timed, seen, cycles, since, prompt, last, millis, rem>>
  PROVE  TimeInv'
<1>1. /\ tpc' = "idle" /\ start' = 0 /\ i' = 0 /\ spent' = 0 /\ ~timed'
  BY DEF T!Return, TimeInv, TimeTypeOK
<1>2. TimeTypeOK' /\ CtrlInv'
  BY <1>1, TimeSizes DEF TimeInv, TimeTypeOK, CtrlInv
<1>3. StartingInv' /\ BeginInv' /\ PollInv' /\ WaitInv' /\ TimerInv'
  BY <1>1 DEF StartingInv, BeginInv, PollInv, WaitInv, TimerInv
<1>4. ClockInv'
  BY DEF TimeInv, ClockInv, T!MillisExact, T!Counted
<1> QED
  BY <1>2, <1>3, <1>4 DEF TimeInv

LEMMA PollStep == ASSUME TimeInv, T!PollFlag PROVE TimeInv'
<1>1. /\ tpc = "poll" /\ flag /\ ~flag'
      /\ UNCHANGED <<val, pending, ticks, timed, seen, cycles, since, prompt, last, millis, rem>>
  BY DEF T!PollFlag, T!At, T!usb
<1>2. CASE i + 1 < ms
  <2>1. /\ i' = i + 1 /\ tpc' = "poll"
        /\ UNCHANGED <<val, pending, ticks, timed, seen, cycles, since, prompt, last, millis, rem,
                       ctrl, start, ms, spent>>
    BY <1>1, <1>2 DEF T!PollFlag
  <2>2. TimeTypeOK' /\ CtrlInv' /\ StartingInv' /\ BeginInv' /\ WaitInv'
    BY <1>1, <2>1 DEF TimeInv, TimeTypeOK, CtrlInv, StartingInv, BeginInv, WaitInv
  <2>3. PollInv'
    <3>1. i' < ms' /\ spent >= Turned(i, flag) /\ spent <= Turned(i, flag) + Period - 1
      BY <1>1, <1>2, <2>1 DEF TimeInv, PollInv
    <3>2. Turned(i, flag)' = Turned(i, flag)
      BY <1>1, <2>1 DEF Turned, Phase
    <3> QED
      BY <2>1, <3>1, <3>2 DEF PollInv
  <2>4. TimerInv'
    BY <1>1, <2>1 DEF TimeInv, TimeTypeOK, TimerInv
  <2>5. ClockInv'
    BY <1>1 DEF TimeInv, ClockInv, T!MillisExact, T!Counted
  <2> QED
    BY <2>2, <2>3, <2>4, <2>5 DEF TimeInv
<1>3. CASE ~(i + 1 < ms)
  <2>1. T!Return
    BY <1>3 DEF T!PollFlag
  <2> QED
    BY <1>1, <2>1, ReturnStep
<1> QED
  BY <1>2, <1>3

LEMMA WaitTicksStep == ASSUME TimeInv, T!WaitTicks PROVE TimeInv'
<1>1. /\ T!Return /\ tpc \in {"poll", "wait"}
      /\ UNCHANGED <<val, pending, ticks, timed, seen, cycles, since, prompt, last, millis, rem>>
  BY DEF T!WaitTicks, T!At, T!usb
<1> QED
  BY <1>1, ReturnStep

LEMMA ReadSteps == ASSUME TimeInv, T!ReadVal \/ T!ReadTicks PROVE TimeInv'
<1>1. /\ ~pending /\ timed /\ timed' /\ tpc' \in {"reading", "idle"}
      /\ UNCHANGED <<val, ctrl, flag, pending, ticks, start, ms, i, spent,
                     cycles, since, prompt, last, millis, rem>>
  BY DEF T!ReadVal, T!ReadTicks, T!At, T!timer, T!delay, T!usb, TimeInv, TimeTypeOK
<1>2. TimeTypeOK' /\ CtrlInv'
  BY <1>1 DEF TimeInv, TimeTypeOK, CtrlInv
<1>3. StartingInv' /\ BeginInv' /\ PollInv' /\ WaitInv'
  BY <1>1 DEF StartingInv, BeginInv, PollInv, WaitInv
<1>4. TimerInv'
  <2>1. PICK n \in Nat : Handled(n) /\ spent = Turned(n, pending) /\ spent <= Horizon
    BY <1>1 DEF TimeInv, TimerInv
  <2>2. Handled(n)' /\ spent' = Turned(n, pending)' /\ spent' <= Horizon
    BY <1>1, <2>1 DEF Handled, Turned, Phase
  <2>3. ASSUME tpc' = "reading"
        PROVE  /\ seen'.val \in 0 .. Period - 1
               /\ \E m \in 0 .. n : seen'.at = m * Period + Phase(seen'.val)
    <3>1. seen'.val = val /\ seen'.at = spent
      BY <2>3 DEF T!ReadVal, T!ReadTicks
    <3>2. spent = n * Period + Phase(val) /\ n \in 0 .. n
      BY <1>1, <2>1 DEF Turned
    <3> QED
      BY <3>1, <3>2 DEF TimeInv, TimeTypeOK
  <2> QED
    BY <2>1, <2>2, <2>3 DEF TimerInv, Phase
<1>5. ClockInv'
  BY <1>1 DEF TimeInv, ClockInv, T!MillisExact, T!Counted
<1> QED
  BY <1>2, <1>3, <1>4, <1>5 DEF TimeInv

----------------------------------------------------------------------------
(* The USB clock                                                            *)

LEMMA ClockKept ==
  ASSUME TimeInv, UNCHANGED <<val, ctrl, flag, pending, ticks, start, ms, i, timed, tpc,
                              spent, seen>>,
         ClockInv'
  PROVE  TimeInv'
<1>1. TimeTypeOK' /\ CtrlInv' /\ StartingInv' /\ BeginInv' /\ PollInv'
  BY DEF TimeInv, TimeTypeOK, CtrlInv, StartingInv, BeginInv, PollInv, Handled, Turned, Phase
<1>2. WaitInv' /\ TimerInv'
  BY DEF TimeInv, WaitInv, TimerInv, Handled, Turned, Phase
<1> QED
  BY <1>1, <1>2 DEF TimeInv

LEMMA UsbCycleStep == ASSUME TimeInv, T!UsbCycle PROVE TimeInv'
<1>1. /\ cycles' = cycles + 1 /\ since' = since + 1 /\ cycles < Horizon
      /\ UNCHANGED <<val, ctrl, flag, pending, ticks, start, ms, i, timed, tpc,
                     spent, seen, prompt, last, millis, rem>>
  BY DEF T!UsbCycle, T!timer, T!delay
<1>2. /\ cycles \in Nat /\ since \in Nat /\ since <= cycles /\ Horizon \in Nat
      /\ cycles' - since' = cycles - since
  BY <1>1, TimeSizes DEF TimeInv, ClockInv
<1>3. cycles' \in Nat /\ since' \in Nat /\ cycles' <= Horizon /\ since' <= cycles'
  BY <1>1, <1>2
<1>4. ClockInv'
  BY <1>1, <1>2, <1>3 DEF TimeInv, ClockInv, T!MillisExact, T!Counted
<1> QED
  BY <1>1, <1>4, ClockKept

(* A sum of cycles that wraps loses a whole number of turns.                *)
LEMMA Wrapped ==
  ASSUME NEW m \in Nat \ {0}, NEW x \in Nat
  PROVE  x % m \in 0 .. m - 1 /\ x % m <= x
<1> DEFINE q == x \div m
           r == x % m
<1>1. q \in Int /\ r \in 0 .. m - 1 /\ x = m * q + r
  BY Divided
<1> HIDE DEF q, r
<1>2. q >= 0
  <2> SUFFICES ASSUME q <= -1 PROVE FALSE
    BY <1>1
  <2>1. m * (-1 - q) >= 0
    BY <1>1, SMT
  <2>2. m * (-1 - q) = -m - m * q
    BY <1>1, SMT
  <2>3. m * q \in Int
    BY <1>1
  <2> QED
    BY <1>1, <2>1, <2>2, <2>3
<1>3. m * q >= 0
  BY <1>1, <1>2, SMT
<1>4. m * q \in Int /\ r <= x
  BY <1>1, <1>3
<1> QED
  BY <1>1, <1>4 DEF r

(* The sum is that of the cycles since the last call and those left over.   *)
LEMMA SumOfCycles ==
  ASSUME TimeInv
  PROVE  /\ T!Sum = (rem + since) % CycleMod
         /\ T!Sum \in Nat /\ T!Sum <= rem + since
         /\ T!Prompt => T!Sum = rem + since
<1>1. /\ cycles \in Nat /\ since \in Nat /\ CycleMod \in Nat \ {0} /\ Period \in Nat
      /\ CycleMod > Period /\ rem \in 0 .. Period - 1
      /\ last = (cycles - since) % CycleMod
  BY TimeSizes DEF TimeInv, ClockInv
<1>2. rem + since \in Nat
  BY <1>1
<1>3. T!Sum = (rem + since) % CycleMod
  <2> DEFINE a == cycles - since
             q == a \div CycleMod
             x == rem + since
  <2>1. a \in Int /\ x \in Int
    BY <1>1
  <2>2. q \in Int /\ last \in Int /\ a = CycleMod * q + last
    BY <1>1, <2>1, Divided
  <2>3. rem + cycles - last = (a - last) + x
    BY <1>1, <2>2
  <2> HIDE DEF a, q, x
  <2>4. CycleMod * q \in Int
    BY <1>1, <2>2
  <2>5. rem + cycles - last = CycleMod * q + x
    BY <2>1, <2>2, <2>3, <2>4
  <2>6. (CycleMod * q + x) % CycleMod = x % CycleMod
    BY <1>1, <2>1, <2>2, Turns
  <2> QED
    BY <2>5, <2>6 DEF T!Sum, x
<1>4. (rem + since) % CycleMod \in 0 .. CycleMod - 1 /\ (rem + since) % CycleMod <= rem + since
  BY <1>1, <1>2, Wrapped
<1>5. ASSUME T!Prompt PROVE T!Sum = rem + since
  <2>1. rem + since \in 0 .. CycleMod - 1
    BY <1>1, <1>5 DEF T!Prompt
  <2> QED
    BY <1>1, <1>3, <2>1, SmallMod
<1> QED
  BY <1>1, <1>3, <1>4, <1>5

LEMMA MillisStep == ASSUME TimeInv, T!Millis PROVE TimeInv'
<1>1. /\ last' = cycles % CycleMod /\ since' = 0 /\ cycles' = cycles
      /\ millis' = (millis + T!Sum \div Period) % TickMod
      /\ rem' = T!Sum % Period
      /\ prompt' = (prompt /\ T!Prompt)
      /\ UNCHANGED <<val, ctrl, flag, pending, ticks, start, ms, i, timed, tpc,
                     spent, seen>>
  BY DEF T!Millis, T!timer, T!delay
<1>2. /\ cycles \in Nat /\ since \in Nat /\ CycleMod \in Nat \ {0}
      /\ Period \in Nat \ {0} /\ millis \in Nat /\ rem \in 0 .. Period - 1
      /\ TickMod \in Nat \ {0} /\ Horizon \in Nat /\ Horizon < TickMod * Period
      /\ cycles <= Horizon /\ since <= cycles
      /\ (millis * Period) + rem <= cycles - since
      /\ prompt => (millis * Period) + rem = cycles - since
  BY TimeSizes DEF TimeInv, ClockInv, T!MillisExact, T!Counted
<1> DEFINE x == T!Sum
           q == x \div Period
           r == x % Period
<1>3. x \in Nat /\ x <= rem + since /\ (T!Prompt => x = rem + since)
  BY SumOfCycles
<1> HIDE DEF x
<1>4. q \in Int /\ r \in 0 .. Period - 1 /\ x = Period * q + r
  BY <1>2, <1>3, Divided
<1>5. millis' = (millis + q) % TickMod /\ rem' = r
  BY <1>1 DEF x
<1> HIDE DEF q, r
<1>6. q >= 0
  <2>1. (-1) * Period < q * Period
    BY <1>2, <1>3, <1>4
  <2>2. -1 < q
    BY <1>4, <2>1, Fewer
  <2> QED
    BY <1>4, <2>2
<1>7. /\ (millis + q) * Period + r <= cycles
      /\ prompt /\ T!Prompt => (millis + q) * Period + r = cycles
  BY <1>2, <1>3, <1>4
<1>8. millis + q \in 0 .. TickMod - 1
  <2>1. (millis + q) * Period < TickMod * Period
    <3>1. (millis + q) * Period \in Int /\ TickMod * Period \in Int
      BY <1>2, <1>4
    <3> QED
      BY <1>2, <1>4, <1>7, <3>1
  <2>2. millis + q < TickMod
    BY <1>2, <1>4, <2>1, Fewer
  <2> QED
    BY <1>2, <1>4, <1>6, <2>2
<1>9. millis' = millis + q
  BY <1>2, <1>5, <1>8, SmallMod
<1>10. ClockInv'
  <2>1. /\ cycles' \in Nat /\ since' \in Nat /\ millis' \in 0 .. TickMod - 1
        /\ rem' \in 0 .. Period - 1 /\ rem' < Period
        /\ cycles' <= Horizon /\ since' <= cycles'
    BY <1>1, <1>2, <1>4, <1>5, <1>8, <1>9
  <2>2. cycles' - since' = cycles /\ last' = (cycles' - since') % CycleMod
    BY <1>1, <1>2
  <2>3. /\ millis' * Period + rem' <= cycles' - since'
        /\ prompt' => millis' * Period + rem' = cycles' - since'
    BY <1>1, <1>5, <1>7, <1>9, <2>2
  <2> QED
    BY <2>1, <2>2, <2>3 DEF ClockInv, T!MillisExact, T!Counted
<1> QED
  BY <1>1, <1>10, ClockKept

LEMMA TimeNext == ASSUME TimeInv, [T!Next]_time PROVE TimeInv'
<1>1. CASE UNCHANGED time
  <2>1. UNCHANGED <<val, ctrl, flag, pending, ticks, start, ms, i, timed, tpc, spent, seen,
                    cycles, since, prompt, last, millis, rem>>
    BY <1>1 DEF time
  <2>2. ClockInv'
    BY <2>1 DEF TimeInv, ClockInv, T!MillisExact, T!Counted
  <2> QED
    BY <2>1, <2>2, ClockKept
<1>2. CASE T!Main
  BY <1>2, StartStep, SnapshotStep, CallStep, BeginStep, PollStep, WaitTicksStep, ReadSteps DEF T!Main
<1> QED
  BY <1>1, <1>2, CycleStep, HandlerStep, UsbCycleStep, MillisStep DEF T!Next

LEMMA TimeInit == Init => TimeInv
<1> SUFFICES ASSUME Init PROVE TimeInv
  OBVIOUS
<1>1. T!Init
  BY DEF Init
<1>2. TimeTypeOK
  BY <1>1, TimeSizes DEF T!Init, TimeTypeOK
<1>3. CtrlInv /\ StartingInv /\ BeginInv /\ PollInv /\ WaitInv /\ TimerInv
  BY <1>1 DEF T!Init, CtrlInv, StartingInv, BeginInv, PollInv, WaitInv, TimerInv
<1>4. ClockInv
  <2>1. cycles = 0 /\ since = 0 /\ last = 0 /\ millis = 0 /\ rem = 0
    BY <1>1 DEF T!Init
  <2>2. 0 % CycleMod = 0 /\ 0 - 0 = 0 /\ 0 * Period + 0 = 0
    BY TimeSizes, SmallMod
  <2> QED
    BY <2>1, <2>2, TimeSizes DEF ClockInv, T!MillisExact, T!Counted
<1> QED
  BY <1>2, <1>3, <1>4 DEF TimeInv

----------------------------------------------------------------------------
(* What TimeIsKept asks of a step                                           *)

LEMMA DelayIsLong ==
  ASSUME TimeInv, T!PollFlag \/ T!WaitTicks, T!DelayReturns
  PROVE  /\ spent >= (IF tpc = "poll" THEN ms ELSE ms - 1) * Period
         /\ spent <= (ms + 2) * Period
<1>1. /\ spent \in Nat /\ i \in Nat /\ Period \in Nat \ {0} /\ Phase(val) \in 0 .. Period - 1
      /\ TickMod \in Nat \ {0} /\ start \in Int
  BY TimeSizes, PhaseRange DEF TimeInv, TimeTypeOK
<1>2. ms \in 1 .. TickMod - 1 /\ ms \in Int
  BY TimeSizes DEF TimeInv, TimeTypeOK, T!DelayReturns
<1>3. ms * Period \in Int /\ (ms + 2) * Period = ms * Period + Period + Period
  BY <1>1, <1>2
<1>4. CASE T!PollFlag
  <2>1. tpc = "poll" /\ flag /\ ~(i + 1 < ms)
    BY <1>4 DEF T!PollFlag, T!At, T!DelayReturns
  <2>2. /\ i < ms /\ spent >= Turned(i, flag) /\ spent <= Turned(i, flag) + Period - 1
    BY <2>1 DEF TimeInv, PollInv
  <2>3. i + 1 = ms
    BY <1>1, <1>2, <2>1, <2>2
  <2>4. Turned(i, flag) = ms * Period + Phase(val)
    BY <2>1, <2>3 DEF Turned
  <2>5. spent >= ms * Period /\ spent <= (ms + 2) * Period
    BY <1>1, <1>3, <2>2, <2>4
  <2> QED
    BY <2>1, <2>5
<1>5. CASE T!WaitTicks
  <2>1. tpc = "wait" /\ ~pending /\ (ticks - start) % TickMod >= ms
    BY <1>5 DEF T!WaitTicks, T!At, T!Elapsed
  <2>2. PICK n \in 0 .. ms : /\ Handled(n)
                             /\ spent >= Turned(n - 1, pending)
                             /\ spent <= Turned(n, pending) + Period - 1
    BY <2>1 DEF TimeInv, WaitInv
  <2>3. n = ms
    <3>1. n \in 0 .. TickMod - 1
      BY <1>1, <1>2, <2>2
    <3>2. (ticks - start) % TickMod = n
      BY <1>1, <2>2, <3>1, Difference DEF Handled
    <3> QED
      BY <1>2, <2>1, <2>2, <3>2
  <2>4. /\ Turned(n - 1, pending) = (ms - 1) * Period + Phase(val)
        /\ Turned(n, pending) = ms * Period + Phase(val)
    BY <2>1, <2>3 DEF Turned
  <2>5. (ms - 1) * Period \in Int
    BY <1>1, <1>2
  <2>6. spent >= (ms - 1) * Period /\ spent <= (ms + 2) * Period
    BY <1>1, <1>3, <2>2, <2>4, <2>5
  <2> QED
    BY <2>1, <2>6
<1> QED
  BY <1>4, <1>5

LEMMA ReadingIsNear ==
  ASSUME TimeInv, T!ReadTicks
  PROVE  \E c \in 0 .. (spent + Period) : c >= seen.at - 1 /\ T!Reading = c % MicroMod
<1> DEFINE c == ((ticks - start) % TickMod) * Period + (Period - 1 - seen.val)
<1>1. tpc = "reading" /\ ~pending /\ timed
  BY DEF T!ReadTicks, T!At, TimeInv, TimeTypeOK
<1>2. /\ spent \in Nat /\ Period \in Nat \ {0} /\ Phase(val) \in 0 .. Period - 1
      /\ TickMod \in Nat \ {0} /\ start \in Int /\ Horizon \in Nat
      /\ Horizon < TickMod * Period /\ TickMod * Period \in Int
  BY TimeSizes, PhaseRange DEF TimeInv, TimeTypeOK
<1>3. PICK n \in Nat :
        /\ Handled(n) /\ spent = Turned(n, pending) /\ spent <= Horizon
        /\ seen.val \in 0 .. Period - 1
        /\ \E m \in 0 .. n : seen.at = m * Period + Phase(seen.val)
  BY <1>1 DEF TimeInv, TimerInv
<1>4. PICK m \in 0 .. n : seen.at = m * Period + Phase(seen.val)
  BY <1>3
<1>5. spent = n * Period + Phase(val) /\ n * Period \in Int /\ m * Period \in Int
  BY <1>1, <1>2, <1>3 DEF Turned
<1>6. n < TickMod
  <2>1. n * Period < TickMod * Period
    BY <1>2, <1>3, <1>5
  <2> QED
    BY <1>2, <2>1, Fewer
<1>7. (ticks - start) % TickMod = n
  <2>1. n \in 0 .. TickMod - 1
    BY <1>2, <1>6
  <2> QED
    BY <1>2, <1>3, <2>1, Difference DEF Handled
<1>8. m * Period <= n * Period
  BY <1>2, SMT
<1>9. c = n * Period + (Period - 1 - seen.val) /\ T!Reading = c % MicroMod
  BY <1>7 DEF T!Reading
<1>10. /\ Phase(seen.val) \in Int /\ seen.val \in Int
       /\ Phase(seen.val) - 1 <= Period - 1 - seen.val
  BY <1>2, <1>3 DEF Phase
<1> HIDE DEF c
<1>11. c \in Int /\ c >= 0 /\ c >= seen.at - 1 /\ c <= spent + Period
  <2>1. n * Period >= 0
    BY <1>2, SMT
  <2> QED
    BY <1>2, <1>3, <1>4, <1>5, <1>8, <1>9, <1>10, <2>1
<1> QED
  BY <1>2, <1>9, <1>11

(* Only these steps end a delay or a reading.                               *)
LEMMA EndsByMain ==
  ASSUME TimeInv, [T!Next]_time
  PROVE  /\ T!DelayReturns => T!PollFlag \/ T!WaitTicks
         /\ tpc = "reading" /\ tpc' = "idle" => T!ReadTicks
<1>1. CASE UNCHANGED time \/ T!Cycle \/ T!SysTick_Handler \/ T!UsbCycle \/ T!Millis
  <2>1. tpc' = tpc
    BY <1>1 DEF time, T!Cycle, T!SysTick_Handler, T!UsbCycle, T!Millis, T!delay
  <2> QED
    BY <2>1 DEF T!DelayReturns
<1>2. CASE T!Main
  BY <1>2 DEF T!Main, T!StartTimer, T!Snapshot, T!CallDelay, T!Begin, T!PollFlag, T!WaitTicks, T!ReadVal,
             T!ReadTicks, T!At, T!DelayReturns
<1> QED
  BY <1>1, <1>2 DEF T!Next

(* SysTick_delay_ms(n) takes at least n milliseconds, SysTick_delay_ms_irq  *)
(* one less at most, and neither two more; a reading of the timer is within *)
(* a millisecond, modulo the wrap of the microseconds; the USB clock never  *)
(* runs ahead, and loses no cycle while no two calls are further apart than *)
(* a wrap of CYCCNT less one Period.  For every Period and every wrap.      *)
THEOREM TimeStaysKept == Spec => TimeIsKept
<1>1. Init => TimeInv
  BY TimeInit
<1>2. TimeInv /\ [Next]_vars => TimeInv'
  BY ImageStep, TimeNext
<1>3. TimeInv /\ [Next]_vars =>
        [T!DelayReturns => /\ spent >= (IF tpc = "poll" THEN ms ELSE ms - 1) * Period
                           /\ spent <= (ms + 2) * Period]_(T!vars)
  BY ImageStep, EndsByMain, DelayIsLong
<1>4. TimeInv /\ [Next]_vars =>
        [tpc = "reading" /\ tpc' = "idle" =>
           \E c \in 0 .. (spent + Period) :
             c >= seen.at - 1 /\ T!Reading = c % MicroMod]_(T!vars)
  BY ImageStep, EndsByMain, ReadingIsNear
<1>5. TimeInv => T!MillisExact
  BY DEF TimeInv, ClockInv
<1> QED
  BY <1>1, <1>2, <1>3, <1>4, <1>5, PTL
  DEF Spec, TimeIsKept, T!DelayLasts, T!ReadingBounds

----------------------------------------------------------------------------
(* Loops and powers: a Loop of Rsa is the last value of a function.          *)

(* Induction, for the members of a set.                                     *)
LEMMA SetInduction ==
  ASSUME NEW S, 0 \in S, \A m \in Nat : m \in S => m + 1 \in S
  PROVE  \A m \in Nat : m \in S
<1> SUFFICES ASSUME NEW m \in Nat, m \notin S PROVE FALSE
  OBVIOUS
<1> DEFINE U == (0..m) \cap S
           W == U \ {0}
           f == [x \in U |-> x + 1]
<1>1. IsFiniteSet(U) /\ 0 \in U
  <2>1. IsFiniteSet(0..m)
    BY FS_Interval
  <2>2. U \in SUBSET (0..m)
    OBVIOUS
  <2> QED
    BY <2>1, <2>2, FS_Subset
<1>2. IsFiniteSet(W) /\ Cardinality(W) = Cardinality(U) - 1 /\ Cardinality(U) \in Nat
  BY <1>1, FS_RemoveElement, FS_CardinalityType
<1>3. \A x \in U : x + 1 \in W
  OBVIOUS
<1>4. f \in [U -> W]
  BY <1>3
<1>5. Cardinality(W) < Cardinality(U)
  BY <1>2
<1>7. \A x \in U : f[x] = x + 1 /\ x \in Int
  OBVIOUS
<1> HIDE DEF W, U, f
<1>6. \E x, y \in U : x # y /\ f[x] = f[y]
  BY <1>1, <1>2, <1>4, <1>5, FS_PigeonHole
<1> QED
  BY <1>6, <1>7

(* f holds the values of n turns of a loop: from s on, g is one turn.       *)
Runs(f, s, g, n) == f[0] = s /\ \A m \in 0 .. n - 1 : f[m + 1] = g[<<m, f[m]>>]

(* f and h are of the same loop.                                            *)
Alike(f, h, n) == f[0] = h[0] /\ \A m \in 0 .. n - 1 : f[m] = h[m] => f[m + 1] = h[m + 1]

(* A loop's values are those of a function.                                 *)
LEMMA LoopExists ==
  ASSUME NEW n \in Nat, NEW S, NEW s \in S, NEW g \in [(0 .. n - 1) \X S -> S]
  PROVE  \E f \in [0..n -> S] : Runs(f, s, g, n)
<1> DEFINE Upto(x, f) == f[0] = s /\ \A m \in 0 .. x - 1 : f[m + 1] = g[<<m, f[m]>>]
           D == {x \in Nat : x <= n => \E f \in [0..x -> S] : Upto(x, f)}
<1>1. 0 \in D
  <2> DEFINE f == [x \in 0..0 |-> s]
  <2>1. f \in [0..0 -> S] /\ Upto(0, f)
    OBVIOUS
  <2> QED
    BY <2>1
<1>2. ASSUME NEW x \in Nat, x \in D PROVE x + 1 \in D
  <2> SUFFICES ASSUME x + 1 <= n PROVE \E f \in [0 .. x + 1 -> S] : Upto(x + 1, f)
    OBVIOUS
  <2>1. PICK f \in [0..x -> S] : Upto(x, f)
    BY <1>2
  <2>2. x \in 0 .. n - 1 /\ f[x] \in S
    OBVIOUS
  <2>3. g[<<x, f[x]>>] \in S
    BY <2>2
  <2> DEFINE h == [m \in 0 .. x + 1 |-> IF m = x + 1 THEN g[<<x, f[x]>>] ELSE f[m]]
  <2>4. h \in [0 .. x + 1 -> S]
    BY <2>3
  <2>5. h[x + 1] = g[<<x, f[x]>>] /\ \A m \in 0..x : h[m] = f[m]
    OBVIOUS
  <2> HIDE DEF h
  <2>6. h[0] = s
    BY <2>1, <2>5
  <2>7. ASSUME NEW m \in 0..x PROVE h[m + 1] = g[<<m, h[m]>>]
    <3>1. CASE m = x
      BY <2>5, <3>1
    <3>2. CASE m # x
      <4>1. m + 1 \in 0..x /\ m \in 0 .. x - 1
        BY <3>2
      <4> QED
        BY <2>1, <2>5, <4>1
    <3> QED
      BY <3>1, <3>2
  <2>8. Upto(x + 1, h)
    BY <2>6, <2>7
  <2> QED
    BY <2>4, <2>8
<1> HIDE DEF D
<1>3. n \in D
  BY <1>1, <1>2, SetInduction
<1> QED
  BY <1>3 DEF D, Runs

LEMMA SameLoop ==
  ASSUME NEW n \in Nat, NEW f, NEW h, Alike(f, h, n)
  PROVE  \A m \in 0..n : f[m] = h[m]
<1> DEFINE D == {x \in Nat : x <= n => f[x] = h[x]}
<1>1. 0 \in D
  BY DEF Alike
<1>2. ASSUME NEW x \in Nat, x \in D PROVE x + 1 \in D
  <2>1. CASE x + 1 <= n
    BY <1>2, <2>1 DEF Alike
  <2>2. CASE ~(x + 1 <= n)
    BY <2>2
  <2> QED
    BY <2>1, <2>2
<1> HIDE DEF D
<1>3. \A m \in Nat : m \in D
  BY <1>1, <1>2, SetInduction
<1> QED
  BY <1>3 DEF D

LEMMA PowLoop ==
  ASSUME NEW x \in Int, NEW n \in Nat
  PROVE  \E f \in [0..n -> Int] : /\ R!Pow(x, n) = f[n] /\ f[0] = 1
           /\ \A m \in 0 .. n - 1 : f[m + 1] = f[m] * x
<1> DEFINE Initial == 1
           After(v, m) == v * x
           Follows(f) == f[0] = Initial /\ \A m \in 0 .. n - 1 : f[m + 1] = After(f[m], m)
           g == [p \in (0 .. n - 1) \X Int |-> After(p[2], p[1])]
           All(h) == [m \in 0..n |-> IF m = 0 THEN Initial ELSE After(h[m - 1], m - 1)]
           F == CHOOSE h : h = All(h)
<1>1. \E f \in [0..n -> Int] : Follows(f)
  <2>1. \A m \in 0 .. n - 1, v \in Int : After(v, m) \in Int
    OBVIOUS
  <2>2. g \in [(0 .. n - 1) \X Int -> Int]
    BY <2>1
  <2>3. \A m \in 0 .. n - 1, v \in Int : g[<<m, v>>] = After(v, m)
    OBVIOUS
  <2> HIDE DEF g
  <2>4. PICK f \in [0..n -> Int] : Runs(f, Initial, g, n)
    <3>1. Initial \in Int /\ n \in Nat
      OBVIOUS
    <3> QED
      BY <2>2, <3>1, LoopExists, Zenon
  <2>5. ASSUME NEW m \in 0 .. n - 1 PROVE f[m + 1] = After(f[m], m)
    <3>1. f[m] \in Int
      OBVIOUS
    <3> QED
      BY <2>3, <2>4, <3>1 DEF Runs
  <2> QED
    BY <2>4, <2>5 DEF Runs
<1>2. PICK f \in [0..n -> Int] : Follows(f)
  BY <1>1
<1>3. f = All(f)
  <2>1. ASSUME NEW m \in 0..n PROVE f[m] = All(f)[m]
    <3>1. CASE m = 0
      BY <1>2, <3>1
    <3>2. CASE m # 0
      <4>1. m - 1 \in 0 .. n - 1 /\ (m - 1) + 1 = m
        BY <3>2
      <4> QED
        BY <1>2, <3>2, <4>1
    <3> QED
      BY <3>1, <3>2
  <2> QED
    BY <2>1
<1>4. F = All(F)
  BY <1>3
<1>5. R!Pow(x, n) = F[n]
  BY DEF R!Pow, R!Loop
<1> HIDE DEF F
<1>6. F \in [0..n -> Int] /\ Follows(F)
  <2>1. Follows(F)
    BY <1>4
  <2>2. \A m \in 0..n : F[m] = f[m]
    <3>1. Alike(F, f, n)
      BY <1>2, <2>1 DEF Alike
    <3> QED
      BY <3>1, SameLoop
  <2> QED
    BY <1>4, <2>1, <2>2
<1> QED
  BY <1>5, <1>6

LEMMA PowStep ==
  ASSUME NEW x \in Int, NEW n \in Nat
  PROVE  /\ R!Pow(x, 0) = 1 /\ R!Pow(x, n) \in Int
         /\ R!Pow(x, n + 1) = R!Pow(x, n) * x
<1>1. PICK f \in [0..n -> Int] : /\ R!Pow(x, n) = f[n] /\ f[0] = 1
                                 /\ \A m \in 0 .. n - 1 : f[m + 1] = f[m] * x
  BY PowLoop
<1>2. PICK h \in [0 .. n + 1 -> Int] : /\ R!Pow(x, n + 1) = h[n + 1] /\ h[0] = 1
                                       /\ \A m \in 0 .. (n + 1) - 1 : h[m + 1] = h[m] * x
  <2>1. n + 1 \in Nat
    OBVIOUS
  <2> QED
    BY <2>1, PowLoop
<1>3. Alike(f, h, n)
  BY <1>1, <1>2 DEF Alike
<1>4. f[n] = h[n] /\ h[n + 1] = h[n] * x
  <2>1. \A m \in 0..n : f[m] = h[m]
    BY <1>3, SameLoop, SMTT(30)
  <2>2. n \in 0..n /\ n \in 0 .. (n + 1) - 1
    OBVIOUS
  <2> QED
    BY <1>2, <2>1, <2>2
<1>5. R!Pow(x, 0) = 1
  BY PowLoop
<1> QED
  BY <1>1, <1>2, <1>4, <1>5

LEMMA PowPositive ==
  ASSUME NEW x \in Nat \ {0}, NEW n \in Nat
  PROVE  R!Pow(x, n) \in Nat \ {0}
<1> DEFINE D == {m \in Nat : R!Pow(x, m) \in Nat \ {0}}
<1>1. 0 \in D
  BY PowStep
<1>2. ASSUME NEW m \in Nat, m \in D PROVE m + 1 \in D
  <2> DEFINE p == R!Pow(x, m)
  <2>1. p \in Nat \ {0} /\ R!Pow(x, m + 1) = p * x
    BY <1>2, PowStep
  <2> HIDE DEF p
  <2>2. p * x \in Nat \ {0}
    BY <2>1, SMT
  <2> QED
    BY <2>1, <2>2
<1> HIDE DEF D
<1>3. n \in D
  BY <1>1, <1>2, SetInduction
<1> QED
  BY <1>3 DEF D

LEMMA Associates ==
  ASSUME NEW x \in Int, NEW y \in Int, NEW z \in Int
  PROVE  /\ (x * y) * z = x * (y * z) /\ x * y = y * x /\ x * y \in Int
         /\ (x + y) * z = x * z + y * z /\ (x - y) * z = x * z - y * z
  BY SMT

LEMMA PowSum ==
  ASSUME NEW x \in Int, NEW n \in Nat, NEW m \in Nat
  PROVE  R!Pow(x, n + m) = R!Pow(x, n) * R!Pow(x, m)
<1> DEFINE D == {y \in Nat : R!Pow(x, n + y) = R!Pow(x, n) * R!Pow(x, y)}
<1>1. 0 \in D
  BY PowStep
<1>2. ASSUME NEW y \in Nat, y \in D PROVE y + 1 \in D
  <2> DEFINE p == R!Pow(x, n)
             q == R!Pow(x, y)
  <2>1. p \in Int /\ q \in Int /\ R!Pow(x, y + 1) = q * x
    BY PowStep
  <2>2. R!Pow(x, (n + y) + 1) = R!Pow(x, n + y) * x
    <3>1. n + y \in Nat
      OBVIOUS
    <3> QED
      BY <3>1, PowStep
  <2>3. R!Pow(x, n + y) = p * q /\ (n + y) + 1 = n + (y + 1)
    BY <1>2
  <2> HIDE DEF p, q
  <2>4. R!Pow(x, n + (y + 1)) = p * (q * x)
    BY <2>1, <2>2, <2>3, Associates
  <2> QED
    BY <2>1, <2>4 DEF p
<1> HIDE DEF D
<1>3. m \in D
  BY <1>1, <1>2, SetInduction
<1> QED
  BY <1>3 DEF D

LEMMA PowProduct ==
  ASSUME NEW x \in Int, NEW n \in Nat, NEW m \in Nat
  PROVE  R!Pow(R!Pow(x, n), m) = R!Pow(x, n * m)
<1> DEFINE D == {y \in Nat : R!Pow(R!Pow(x, n), y) = R!Pow(x, n * y)}
           p == R!Pow(x, n)
<1>0. p \in Int
  BY PowStep
<1>1. 0 \in D
  <2>1. R!Pow(p, 0) = 1
    BY <1>0, PowStep
  <2>2. n * 0 = 0 /\ R!Pow(x, 0) = 1
    BY PowStep
  <2> QED
    BY <2>1, <2>2
<1>2. ASSUME NEW y \in Nat, y \in D PROVE y + 1 \in D
  <2>1. R!Pow(p, y + 1) = R!Pow(p, y) * p
    BY <1>0, PowStep
  <2>2. R!Pow(p, y) = R!Pow(x, n * y)
    BY <1>2
  <2>3. n * y \in Nat /\ n * (y + 1) = n * y + n
    BY SMT
  <2> DEFINE z == n * y
  <2>4. R!Pow(x, z + n) = R!Pow(x, z) * p
    BY <2>3, PowSum
  <2> QED
    BY <2>1, <2>2, <2>3, <2>4
<1> HIDE DEF D
<1>3. m \in D
  BY <1>1, <1>2, SetInduction
<1> QED
  BY <1>3 DEF D

LEMMA PowGrows ==
  ASSUME NEW n \in Nat, NEW m \in Nat, n < m
  PROVE  R!Pow(2, n + 1) <= R!Pow(2, m) /\ R!Pow(2, n) < R!Pow(2, m)
<1> DEFINE y == m - (n + 1)
           p == R!Pow(2, n + 1)
           q == R!Pow(2, y)
           r == R!Pow(2, n)
<1>1. y \in Nat /\ n + 1 \in Nat /\ (n + 1) + y = m
  OBVIOUS
<1>2. R!Pow(2, m) = p * q
  BY <1>1, PowSum
<1>3. p \in Nat \ {0} /\ q \in Nat \ {0} /\ r \in Nat \ {0}
  BY <1>1, PowPositive
<1>4. p = r * 2
  BY PowStep
<1> HIDE DEF p, q, r, y
<1>5. p <= p * q
  BY <1>3, SMT
<1> QED
  BY <1>2, <1>3, <1>4, <1>5 DEF p, r

(* The weight of a limb.                                                    *)
W(m) == R!Pow(R!Base, m)

(* n limbs.                                                                 *)
Digits(a, n) == \A m \in 0 .. n - 1 : a[m] \in 0 .. R!Base - 1

LEMMA BaseIsNat == R!Base \in Nat /\ R!Base >= 2
<1>1. LimbBits \in Nat /\ 0 < LimbBits
  BY DemoBounds DEF R!RsaBounds
<1>2. R!Pow(2, 0 + 1) <= R!Pow(2, LimbBits)
  BY <1>1, PowGrows
<1>3. R!Pow(2, 0 + 1) = R!Pow(2, 0) * 2 /\ R!Pow(2, 0) = 1 /\ R!Pow(2, LimbBits) \in Nat \ {0}
  BY <1>1, PowStep, PowPositive
<1> QED
  BY <1>2, <1>3 DEF R!Base

LEMMA Weights ==
  ASSUME NEW m \in Nat
  PROVE  /\ W(m) \in Nat \ {0} /\ W(m) \in Int /\ W(m) >= 1
         /\ W(m + 1) = W(m) * R!Base /\ W(0) = 1
<1>1. R!Base \in Int /\ R!Base \in Nat \ {0}
  BY BaseIsNat
<1>2. W(m) \in Nat \ {0}
  BY <1>1, PowPositive DEF W
<1> QED
  BY <1>1, <1>2, PowStep DEF W

LEMMA WeightsGrow ==
  ASSUME NEW n \in Nat, NEW m \in Nat, n <= m
  PROVE  W(n) <= W(m) /\ W(m) = W(n) * W(m - n)
<1>1. m - n \in Nat /\ n + (m - n) = m
  OBVIOUS
<1>2. W(m) = W(n) * W(m - n)
  BY <1>1, PowSum, BaseIsNat DEF W
<1> DEFINE p == W(n)
           q == W(m - n)
<1>3. p \in Nat \ {0} /\ q \in Nat \ {0}
  BY <1>1, Weights
<1> HIDE DEF p, q
<1>4. p <= p * q
  BY <1>3, SMT
<1> QED
  BY <1>2, <1>4 DEF p, q

LEMMA NumberLoop ==
  ASSUME NEW a, NEW n \in Nat, Digits(a, n)
  PROVE  \E f \in [0..n -> Int] : /\ R!Number(a, n) = f[n] /\ f[0] = 0
           /\ \A m \in 0 .. n - 1 : f[m + 1] = f[m] + a[m] * W(m)
<1> DEFINE Initial == 0
           After(v, m) == v + a[m] * W(m)
           Follows(f) == f[0] = Initial /\ \A m \in 0 .. n - 1 : f[m + 1] = After(f[m], m)
           g == [p \in (0 .. n - 1) \X Int |-> After(p[2], p[1])]
           All(h) == [m \in 0..n |-> IF m = 0 THEN Initial ELSE After(h[m - 1], m - 1)]
           F == CHOOSE h : h = All(h)
<1>1. \E f \in [0..n -> Int] : Follows(f)
  <2>1. \A m \in 0 .. n - 1, v \in Int : After(v, m) \in Int
    <3> SUFFICES ASSUME NEW m \in 0 .. n - 1, NEW v \in Int PROVE v + a[m] * W(m) \in Int
      OBVIOUS
    <3>1. a[m] \in Int /\ W(m) \in Int
      BY Weights DEF Digits
    <3> QED
      BY <3>1
  <2>2. g \in [(0 .. n - 1) \X Int -> Int]
    BY <2>1
  <2>3. \A m \in 0 .. n - 1, v \in Int : g[<<m, v>>] = After(v, m)
    OBVIOUS
  <2> HIDE DEF g
  <2>4. PICK f \in [0..n -> Int] : Runs(f, Initial, g, n)
    <3>1. Initial \in Int /\ n \in Nat
      OBVIOUS
    <3> QED
      BY <2>2, <3>1, LoopExists, Zenon
  <2>5. ASSUME NEW m \in 0 .. n - 1 PROVE f[m + 1] = After(f[m], m)
    <3>1. f[m] \in Int
      OBVIOUS
    <3> QED
      BY <2>3, <2>4, <3>1 DEF Runs
  <2> QED
    BY <2>4, <2>5 DEF Runs
<1>2. PICK f \in [0..n -> Int] : Follows(f)
  BY <1>1
<1>3. f = All(f)
  <2>1. ASSUME NEW m \in 0..n PROVE f[m] = All(f)[m]
    <3>1. CASE m = 0
      BY <1>2, <3>1
    <3>2. CASE m # 0
      <4>1. m - 1 \in 0 .. n - 1 /\ (m - 1) + 1 = m
        BY <3>2
      <4> QED
        BY <1>2, <3>2, <4>1
    <3> QED
      BY <3>1, <3>2
  <2> QED
    BY <2>1
<1>4. F = All(F)
  BY <1>3
<1>5. R!Number(a, n) = F[n]
  BY DEF R!Number, W, R!Loop
<1> HIDE DEF F
<1>6. F \in [0..n -> Int] /\ Follows(F)
  <2>1. Follows(F)
    BY <1>4
  <2>2. \A m \in 0..n : F[m] = f[m]
    <3>1. Alike(F, f, n)
      BY <1>2, <2>1 DEF Alike
    <3> QED
      BY <3>1, SameLoop
  <2> QED
    BY <1>4, <2>1, <2>2
<1> QED
  BY <1>5, <1>6

LEMMA NumberStep ==
  ASSUME NEW a, NEW n \in Nat, Digits(a, n + 1)
  PROVE  /\ R!Number(a, 0) = 0 /\ R!Number(a, n) \in Int /\ R!Number(a, n + 1) \in Int
         /\ R!Number(a, n + 1) = R!Number(a, n) + a[n] * W(n)
<1>0. Digits(a, n) /\ n + 1 \in Nat
  BY DEF Digits
<1>1. PICK f \in [0..n -> Int] :
        /\ R!Number(a, n) = f[n] /\ f[0] = 0
        /\ \A m \in 0 .. n - 1 : f[m + 1] = f[m] + a[m] * W(m)
  BY <1>0, NumberLoop
<1>2. PICK h \in [0 .. n + 1 -> Int] :
        /\ R!Number(a, n + 1) = h[n + 1] /\ h[0] = 0
        /\ \A m \in 0 .. (n + 1) - 1 : h[m + 1] = h[m] + a[m] * W(m)
  BY <1>0, NumberLoop
<1>3. Alike(f, h, n)
  BY <1>1, <1>2 DEF Alike
<1>4. f[n] = h[n] /\ h[n + 1] = h[n] + a[n] * W(n)
  <2>1. \A m \in 0..n : f[m] = h[m]
    BY <1>3, SameLoop, SMTT(30)
  <2>2. n \in 0..n /\ n \in 0 .. (n + 1) - 1
    OBVIOUS
  <2> QED
    BY <1>2, <2>1, <2>2
<1>5. R!Number(a, 0) = 0
  <2>1. Digits(a, 0) /\ 0 \in Nat
    BY DEF Digits
  <2>2. \E z \in [0..0 -> Int] : R!Number(a, 0) = z[0] /\ z[0] = 0
    BY <2>1, NumberLoop
  <2> QED
    BY <2>2
<1> QED
  BY <1>1, <1>2, <1>4, <1>5

LEMMA DigitsLess ==
  ASSUME NEW a, NEW n \in Nat, NEW m \in 0..n, Digits(a, n)
  PROVE  Digits(a, m)
  BY DEF Digits

LEMMA Nothing == ASSUME NEW a PROVE R!Number(a, 0) = 0 /\ Digits(a, 0)
<1>1. Digits(a, 0) /\ 0 \in Nat
  BY DEF Digits
<1>2. \E f \in [0..0 -> Int] : R!Number(a, 0) = f[0] /\ f[0] = 0
  BY <1>1, NumberLoop
<1> QED
  BY <1>1, <1>2

(* n limbs hold what is below the weight of the next one.                   *)
LEMMA NumberRange ==
  ASSUME NEW a, NEW n \in Nat, Digits(a, n)
  PROVE  R!Number(a, n) \in 0 .. W(n) - 1
<1> DEFINE D == {m \in Nat : m <= n => R!Number(a, m) \in 0 .. W(m) - 1}
<1>1. 0 \in D
  BY Nothing, Weights
<1>2. ASSUME NEW m \in Nat, m \in D PROVE m + 1 \in D
  <2> SUFFICES ASSUME m + 1 <= n PROVE R!Number(a, m + 1) \in 0 .. W(m + 1) - 1
    OBVIOUS
  <2> DEFINE x == R!Number(a, m)
             w == W(m)
             d == a[m]
             b == R!Base
  <2>1. x \in 0 .. w - 1
    BY <1>2
  <2>2. R!Number(a, m + 1) = x + d * w
    <3>1. Digits(a, m + 1)
      BY DigitsLess
    <3> QED
      BY <3>1, NumberStep
  <2>3. d \in 0 .. b - 1
    BY DEF Digits
  <2>4. w \in Nat \ {0} /\ W(m + 1) = w * b /\ b \in Nat
    BY Weights, BaseIsNat
  <2> HIDE DEF x, w, d, b
  <2>5. d * w <= (b - 1) * w /\ d * w >= 0
    BY <2>3, <2>4, SMT
  <2>6. (b - 1) * w = w * b - w /\ d * w \in Int
    BY <2>3, <2>4, SMT
  <2>7. x + d * w \in 0 .. w * b - 1
    BY <2>1, <2>4, <2>5, <2>6
  <2> QED
    BY <2>2, <2>4, <2>7
<1> HIDE DEF D
<1>3. n \in D
  BY <1>1, <1>2, SetInduction
<1> QED
  BY <1>3 DEF D

LEMMA NumberIsInt ==
  ASSUME NEW a, NEW n \in Nat, Digits(a, n)
  PROVE  R!Number(a, n) \in Nat /\ R!Number(a, n) < W(n)
<1>1. W(n) \in Nat \ {0} /\ R!Number(a, n) \in 0 .. W(n) - 1
  BY NumberRange, Weights
<1> QED
  BY <1>1

(* The same limbs are the same number.                                      *)
LEMMA NumberSame ==
  ASSUME NEW a, NEW b, NEW n \in Nat, Digits(a, n), \A m \in 0 .. n - 1 : b[m] = a[m]
  PROVE  R!Number(b, n) = R!Number(a, n) /\ Digits(b, n)
<1>0. Digits(b, n)
  BY DEF Digits
<1> DEFINE D == {m \in Nat : m <= n => R!Number(b, m) = R!Number(a, m)}
<1>1. 0 \in D
  BY Nothing
<1>2. ASSUME NEW m \in Nat, m \in D PROVE m + 1 \in D
  <2> SUFFICES ASSUME m + 1 <= n PROVE R!Number(b, m + 1) = R!Number(a, m + 1)
    OBVIOUS
  <2>1. R!Number(b, m) = R!Number(a, m) /\ b[m] = a[m]
    BY <1>2
  <2>2. Digits(a, m + 1) /\ Digits(b, m + 1)
    BY <1>0, DigitsLess
  <2> QED
    BY <2>1, <2>2, NumberStep
<1> HIDE DEF D
<1>3. n \in D
  BY <1>1, <1>2, SetInduction
<1> QED
  BY <1>0, <1>3 DEF D

(* Limbs that are zero count nothing.                                       *)
LEMMA NumberPad ==
  ASSUME NEW a, NEW n \in Nat, NEW m \in Nat, m <= n, Digits(a, n),
         \A j \in m .. n - 1 : a[j] = 0
  PROVE  R!Number(a, n) = R!Number(a, m)
<1> DEFINE D == {j \in Nat : m <= j /\ j <= n => R!Number(a, j) = R!Number(a, m)}
<1>1. 0 \in D
  OBVIOUS
<1>2. ASSUME NEW j \in Nat, j \in D PROVE j + 1 \in D
  <2> SUFFICES ASSUME m <= j + 1, j + 1 <= n PROVE R!Number(a, j + 1) = R!Number(a, m)
    OBVIOUS
  <2>1. CASE m = j + 1
    BY <2>1
  <2>2. CASE m # j + 1
    <3>1. R!Number(a, j) = R!Number(a, m) /\ a[j] = 0
      BY <1>2, <2>2
    <3>2. Digits(a, j + 1)
      BY DigitsLess
    <3>3. R!Number(a, j + 1) = R!Number(a, j) + a[j] * W(j) /\ R!Number(a, j) \in Int
      BY <3>2, NumberStep
    <3>4. 0 * W(j) = 0
      BY Weights
    <3> QED
      BY <3>1, <3>3, <3>4
  <2> QED
    BY <2>1, <2>2
<1> HIDE DEF D
<1>3. n \in D
  BY <1>1, <1>2, SetInduction
<1> QED
  BY <1>3 DEF D

(* One limb changes the number by its weight.                               *)
LEMMA NumberSet ==
  ASSUME NEW a, NEW b, NEW n \in Nat, NEW j \in 0 .. n - 1, Digits(a, n), Digits(b, n),
         \A m \in 0 .. n - 1 : m # j => b[m] = a[m]
  PROVE  R!Number(b, n) = R!Number(a, n) + (b[j] - a[j]) * W(j)
<1> DEFINE c == (b[j] - a[j]) * W(j)
           D == {m \in Nat : j + 1 <= m /\ m <= n => R!Number(b, m) = R!Number(a, m) + c}
<1>0. c \in Int /\ a[j] \in Int /\ b[j] \in Int /\ W(j) \in Int
  BY Weights, BaseIsNat DEF Digits
<1>1. 0 \in D
  OBVIOUS
<1>2. ASSUME NEW m \in Nat, m \in D PROVE m + 1 \in D
  <2> SUFFICES ASSUME j + 1 <= m + 1, m + 1 <= n
               PROVE  R!Number(b, m + 1) = R!Number(a, m + 1) + c
    OBVIOUS
  <2>1. Digits(a, m + 1) /\ Digits(b, m + 1) /\ Digits(a, m)
    BY DigitsLess
  <2>2. /\ R!Number(a, m + 1) = R!Number(a, m) + a[m] * W(m)
        /\ R!Number(b, m + 1) = R!Number(b, m) + b[m] * W(m)
        /\ R!Number(a, m) \in Int /\ R!Number(b, m) \in Int
        /\ a[m] \in Int /\ b[m] \in Int /\ W(m) \in Int
    <3>1. /\ R!Number(a, m + 1) = R!Number(a, m) + a[m] * W(m)
          /\ R!Number(b, m + 1) = R!Number(b, m) + b[m] * W(m)
          /\ R!Number(a, m) \in Int /\ R!Number(b, m) \in Int
      BY <2>1, NumberStep
    <3>2. a[m] \in Int /\ b[m] \in Int
      BY <2>1, BaseIsNat DEF Digits
    <3> QED
      BY <3>1, <3>2, Weights
  <2>3. CASE m = j
    <3>1. \A x \in 0 .. m - 1 : b[x] = a[x]
      BY <2>3
    <3>2. R!Number(b, m) = R!Number(a, m)
      BY <2>1, <3>1, NumberSame
    <3>3. b[j] * W(j) = a[j] * W(j) + c
      BY <1>0, SMT
    <3> QED
      BY <1>0, <2>2, <2>3, <3>2, <3>3
  <2>4. CASE m # j
    <3>1. R!Number(b, m) = R!Number(a, m) + c /\ b[m] = a[m]
      BY <1>2, <2>4
    <3> DEFINE x == a[m] * W(m)
    <3>2. x \in Int
      BY <2>2
    <3> HIDE DEF x, c
    <3>3. R!Number(a, m + 1) = R!Number(a, m) + x /\ R!Number(b, m + 1) = R!Number(b, m) + x
      BY <2>2, <3>1 DEF x
    <3> QED
      BY <1>0, <2>2, <3>1, <3>2, <3>3
  <2> QED
    BY <2>3, <2>4
<1> HIDE DEF D
<1>3. n \in D
  BY <1>1, <1>2, SetInduction
<1> QED
  BY <1>3 DEF D

(* A number that fits in m limbs has no more.                               *)
LEMMA NumberTail ==
  ASSUME NEW a, NEW n \in Nat, NEW m \in 0..n, Digits(a, n), R!Number(a, n) < W(m)
  PROVE  R!Number(a, m) = R!Number(a, n) /\ \A j \in m .. n - 1 : a[j] = 0
<1> DEFINE D == {x \in Nat : m <= x /\ x <= n /\ R!Number(a, x) < W(m) =>
                               \A j \in m .. x - 1 : a[j] = 0}
<1>1. 0 \in D
  OBVIOUS
<1>2. ASSUME NEW x \in Nat, x \in D PROVE x + 1 \in D
  <2> SUFFICES ASSUME m <= x + 1, x + 1 <= n, R!Number(a, x + 1) < W(m)
               PROVE  \A j \in m .. (x + 1) - 1 : a[j] = 0
    OBVIOUS
  <2>1. CASE m = x + 1
    BY <2>1
  <2>2. CASE m # x + 1
    <3> DEFINE y == R!Number(a, x)
               w == W(x)
               d == a[x]
    <3>1. Digits(a, x + 1) /\ Digits(a, x)
      BY DigitsLess
    <3>2. /\ R!Number(a, x + 1) = y + d * w /\ y \in Nat /\ d \in Nat
          /\ w \in Nat \ {0} /\ W(m) <= w /\ W(m) \in Nat
      <4>1. R!Number(a, x + 1) = y + d * w /\ y \in Nat
        BY <3>1, NumberStep, NumberIsInt
      <4>2. d \in Nat
        BY <3>1, BaseIsNat DEF Digits
      <4>3. w \in Nat \ {0} /\ W(m) \in Nat
        BY Weights
      <4>4. W(m) <= w
        BY <2>2, WeightsGrow
      <4> QED
        BY <4>1, <4>2, <4>3, <4>4
    <3> HIDE DEF y, w, d
    <3>3. d # 0 => d * w >= w
      BY <3>2, SMT
    <3>4. d * w \in Nat
      BY <3>2, SMT
    <3>5. d = 0 /\ y < W(m)
      BY <3>2, <3>3, <3>4
    <3>6. \A j \in m .. x - 1 : a[j] = 0
      BY <1>2, <2>2, <3>5 DEF y
    <3> QED
      BY <3>5, <3>6 DEF d
  <2> QED
    BY <2>1, <2>2
<1> HIDE DEF D
<1>3. n \in D
  BY <1>1, <1>2, SetInduction
<1>4. \A j \in m .. n - 1 : a[j] = 0
  BY <1>3 DEF D
<1> QED
  BY <1>4, NumberPad

(* Quotient and remainder are what satisfies their equation.                *)
LEMMA Quotient ==
  ASSUME NEW m \in Nat \ {0}, NEW x \in Int, NEW q \in Int, NEW s \in 0 .. m - 1, x = m * q + s
  PROVE  x % m = s /\ x \div m = q
<1>1. x % m = s
  BY OneQuotient
<1>2. x \div m \in Int /\ x = m * (x \div m) + s
  BY <1>1, Divided
<1> DEFINE y == x \div m
<1> HIDE DEF y
<1>3. y \in Int /\ m * y = m * q
  BY <1>2 DEF y
<1>4. y < q => m * y < m * q
  BY <1>3, SMT
<1>5. q < y => m * q < m * y
  BY <1>3, SMT
<1>6. y = q
  BY <1>3, <1>4, <1>5
<1> QED
  BY <1>1, <1>6 DEF y

(* What fits in n limbs is the number of its limbs.                         *)
LEMMA LimbsNumber ==
  ASSUME NEW n \in Nat, NEW v \in 0 .. W(n) - 1
  PROVE  Digits(R!Limbs(v, n), n) /\ R!Number(R!Limbs(v, n), n) = v
<1> DEFINE a == R!Limbs(v, n)
           D == {m \in Nat : m <= n => R!Number(a, m) = v % W(m)}
<1>0. W(n) \in Nat \ {0} /\ v \in Int /\ R!Base \in Nat \ {0}
  BY Weights, BaseIsNat
<1>1. ASSUME NEW m \in 0 .. n - 1
      PROVE  /\ a[m] = (v \div W(m)) % R!Base /\ a[m] \in 0 .. R!Base - 1
             /\ v \div W(m) \in Int /\ v = W(m) * (v \div W(m)) + (v % W(m))
             /\ v % W(m) \in 0 .. W(m) - 1
  <2>1. a[m] = (v \div W(m)) % R!Base
    BY DEF R!Limbs, W
  <2>2. W(m) \in Nat \ {0}
    BY Weights
  <2>3. v \div W(m) \in Int /\ v = W(m) * (v \div W(m)) + (v % W(m)) /\ v % W(m) \in 0 .. W(m) - 1
    BY <1>0, <2>2, Divided
  <2> QED
    BY <1>0, <2>1, <2>3, Divided
<1>2. Digits(a, n)
  BY <1>1 DEF Digits
<1> HIDE DEF a
<1>3. 0 \in D
  <2>1. v % 1 = 0 /\ W(0) = 1
    BY <1>0, Weights, SMT
  <2> QED
    BY <2>1, Nothing
<1>4. ASSUME NEW m \in Nat, m \in D PROVE m + 1 \in D
  <2> SUFFICES ASSUME m + 1 <= n PROVE R!Number(a, m + 1) = v % W(m + 1)
    OBVIOUS
  <2> DEFINE w == W(m)
             q == v \div w
             r == v % w
             b == R!Base
             d == q % b
             e == q \div b
  <2>1. m \in 0 .. n - 1
    OBVIOUS
  <2>2. q \in Int /\ v = w * q + r /\ r \in 0 .. w - 1 /\ w \in Nat \ {0} /\ b \in Nat \ {0}
    BY <1>0, <1>1, <2>1, Weights
  <2>3. e \in Int /\ q = b * e + d /\ d \in 0 .. b - 1
    BY <2>2, Divided
  <2>4. R!Number(a, m + 1) = r + d * w
    <3>1. R!Number(a, m) = r
      BY <1>4
    <3>2. a[m] = d
      BY <1>1, <2>1
    <3>3. Digits(a, m + 1)
      BY <1>2, DigitsLess
    <3> QED
      BY <3>1, <3>2, <3>3, NumberStep
  <2>5. W(m + 1) = w * b
    BY Weights
  <2> HIDE DEF w, q, r, b, d, e
  <2>6. v = (w * b) * e + (r + d * w)
    <3>1. w * (b * e + d) = (w * b) * e + d * w
      BY <2>2, <2>3, SMT
    <3> QED
      BY <2>2, <2>3, <3>1
  <2>7. r + d * w \in 0 .. w * b - 1
    <3>1. d * w <= (b - 1) * w /\ d * w >= 0 /\ (b - 1) * w = w * b - w /\ d * w \in Int
      BY <2>2, <2>3, SMT
    <3> QED
      BY <2>2, <3>1
  <2>8. w * b \in Nat \ {0}
    BY <2>2, SMT
  <2>9. v % (w * b) = r + d * w
    BY <1>0, <2>3, <2>6, <2>7, <2>8, Quotient
  <2> QED
    BY <2>4, <2>5, <2>9
<1> HIDE DEF D
<1>5. n \in D
  BY <1>3, <1>4, SetInduction
<1>6. R!Number(a, n) = v % W(n)
  BY <1>5 DEF D
<1>7. v % W(n) = v
  BY <1>0, SmallMod
<1> QED
  BY <1>2, <1>6, <1>7 DEF a

----------------------------------------------------------------------------
(* The product                                                              *)

Wide == [0 .. 2 * KeyLimbs - 1 -> 0 .. R!Base - 1]

Carried == [r : Wide, carry : 0 .. R!Base - 1]

LEMMA Limbed ==
  /\ KeyLimbs \in Nat \ {0} /\ LimbBits \in Nat \ {0}
  /\ MaxLimbs \in Nat /\ KeyLimbs <= MaxLimbs
  BY DemoBounds DEF R!RsaBounds

LEMMA WideDigits == ASSUME NEW r \in Wide PROVE Digits(r, 2 * KeyLimbs)
  BY DEF Wide, Digits

(* A product of two limbs, a third and a carry fit in two.                  *)
LEMMA DoubleWidth ==
  ASSUME NEW b \in Nat \ {0}, NEW x \in 0 .. b - 1, NEW y \in 0 .. b - 1,
         NEW z \in 0 .. b - 1, NEW c \in 0 .. b - 1
  PROVE  /\ x * y + z + c \in Nat
         /\ (x * y + z + c) % b \in 0 .. b - 1 /\ (x * y + z + c) \div b \in 0 .. b - 1
         /\ x * y + z + c = b * ((x * y + z + c) \div b) + ((x * y + z + c) % b)
<1> DEFINE p == x * y + z + c
           q == p \div b
           s == p % b
<1>1. x * y <= (b - 1) * (b - 1) /\ x * y \in Nat
  BY SMT
<1>2. p \in Nat /\ p <= b * b - 1
  <2>1. (b - 1) * (b - 1) = b * b - b - b + 1 /\ b * b \in Int
    BY SMT
  <2> DEFINE t == x * y
             u == b * b
  <2>2. t \in Nat /\ t <= u - b - b + 1 /\ u \in Int
    BY <1>1, <2>1
  <2> HIDE DEF t, u
  <2>3. t + z + c \in Nat /\ t + z + c <= u - 1
    BY <2>2
  <2> QED
    BY <2>3 DEF t, u
<1>3. p \in Int /\ q \in Int /\ s \in 0 .. b - 1 /\ p = b * q + s
  BY <1>2, Divided
<1> HIDE DEF p, q, s
<1>4. q \in 0 .. b - 1
  <2>1. q >= b => b * q >= b * b
    BY <1>3, SMT
  <2>2. q <= -1 => b * q <= -b
    BY <1>3, SMT
  <2>3. b * q \in Int /\ b * b \in Int
    BY <1>3
  <2> QED
    BY <1>2, <1>3, <2>1, <2>2, <2>3
<1> QED
  BY <1>2, <1>3, <1>4 DEF p, q, s

(* One cell adds its product, at its weight, in n limbs.                    *)
CellAdded(a, b, x, s, j, c, n) ==
  /\ \A h \in 0 .. n - 1 : h # x + j => c.r[h] = s.r[h]
  /\ R!Number(c.r, n) + c.carry * W(x + j + 1)
       = R!Number(s.r, n) + s.carry * W(x + j) + (a[x] * b[j]) * W(x + j)

LEMMA CellAdds ==
  ASSUME NEW a, NEW b, Digits(a, KeyLimbs), Digits(b, KeyLimbs), NEW s \in Carried,
         NEW x \in 0 .. KeyLimbs - 1, NEW j \in 0 .. KeyLimbs - 1
  PROVE  /\ R!Cell(a, b, x, s, j) \in Carried
         /\ CellAdded(a, b, x, s, j, R!Cell(a, b, x, s, j), 2 * KeyLimbs)
<1> DEFINE K2 == 2 * KeyLimbs
           at == x + j
           p == a[x] * b[j] + s.r[at] + s.carry
           t == [s.r EXCEPT ![at] = p % R!Base]
           c == p \div R!Base
<1>1. /\ KeyLimbs \in Nat /\ at \in 0 .. K2 - 1 /\ at \in Nat /\ K2 \in Nat
      /\ R!Base \in Nat \ {0}
  BY Limbed, BaseIsNat
<1>2. s.r \in Wide /\ s.carry \in 0 .. R!Base - 1
  BY DEF Carried
<1>3. /\ a[x] \in 0 .. R!Base - 1 /\ b[j] \in 0 .. R!Base - 1 /\ s.r[at] \in 0 .. R!Base - 1
  BY <1>1, <1>2 DEF Digits, Wide
<1>4. /\ p % R!Base \in 0 .. R!Base - 1 /\ c \in 0 .. R!Base - 1
      /\ p = R!Base * c + (p % R!Base)
  <2> DEFINE m == R!Base
             d1 == a[x]
             d2 == b[j]
             d3 == s.r[at]
             d4 == s.carry
  <2>1. /\ m \in Nat \ {0} /\ d1 \in 0 .. m - 1 /\ d2 \in 0 .. m - 1
        /\ d3 \in 0 .. m - 1 /\ d4 \in 0 .. m - 1
    BY <1>1, <1>2, <1>3
  <2> HIDE DEF m, d1, d2, d3, d4
  <2>2. /\ (d1 * d2 + d3 + d4) % m \in 0 .. m - 1 /\ (d1 * d2 + d3 + d4) \div m \in 0 .. m - 1
        /\ d1 * d2 + d3 + d4 = m * ((d1 * d2 + d3 + d4) \div m) + ((d1 * d2 + d3 + d4) % m)
    BY <2>1, DoubleWidth
  <2> QED
    BY <2>2 DEF m, d1, d2, d3, d4
<1>5. t \in Wide /\ t[at] = p % R!Base /\ \A h \in 0 .. K2 - 1 : h # at => t[h] = s.r[h]
  BY <1>1, <1>2, <1>4 DEF Wide
<1>6. R!Cell(a, b, x, s, j) = [r |-> t, carry |-> c]
  BY DEF R!Cell
<1>7. R!Number(t, K2) = R!Number(s.r, K2) + ((p % R!Base) - s.r[at]) * W(at)
  <2>1. Digits(t, K2) /\ Digits(s.r, K2) /\ K2 \in Nat
    BY <1>1, <1>2, <1>5, WideDigits
  <2> DEFINE u == s.r
             v == p % R!Base
  <2>2. t[at] = v /\ Digits(u, K2) /\ \A h \in 0 .. K2 - 1 : h # at => t[h] = u[h]
    BY <1>5, <2>1
  <2> HIDE DEF K2, t, at, u, v
  <2>3. R!Number(t, K2) = R!Number(u, K2) + (t[at] - u[at]) * W(at)
    BY <1>1, <2>1, <2>2, NumberSet
  <2> QED
    BY <2>2, <2>3 DEF u, v
<1>8. R!Number(t, K2) + c * W(at + 1)
        = R!Number(s.r, K2) + s.carry * W(at) + (a[x] * b[j]) * W(at)
  <2> DEFINE ab == a[x] * b[j]
             w == W(at)
             v == p % R!Base
             y == s.r[at]
             z == s.carry
             num == R!Number(s.r, K2)
             base == R!Base
  <2>1. /\ ab \in Int /\ w \in Int /\ v \in Int /\ y \in Int /\ z \in Int /\ base \in Int
        /\ c \in Int /\ num \in Int
    <3>1. num \in Nat
      BY <1>1, <1>2, WideDigits, NumberIsInt
    <3> QED
      BY <1>1, <1>2, <1>3, <1>4, <3>1, Weights, SMTT(30)
  <2>2. W(at + 1) = w * base
    BY <1>1, Weights
  <2>3. ab + y + z = base * c + v
    BY <1>4
  <2>4. R!Number(t, K2) = num + (v - y) * w
    BY <1>7
  <2> HIDE DEF ab, w, v, y, z, num, base, c
  <2>5. (v - y) * w + c * (w * base) = (base * c + v - y) * w
    BY <2>1, SMT
  <2>6. base * c + v - y = z + ab
    BY <2>1, <2>3
  <2>7. (z + ab) * w = z * w + ab * w
    BY <2>1, SMT
  <2>8. num + (v - y) * w + c * (w * base) = num + z * w + ab * w
    <3> DEFINE m1 == (v - y) * w
               m2 == c * (w * base)
               m3 == z * w
               m4 == ab * w
    <3>1. m1 \in Int /\ m2 \in Int /\ m3 \in Int /\ m4 \in Int
      BY <2>1, SMT
    <3>2. m1 + m2 = m3 + m4
      BY <2>5, <2>6, <2>7
    <3> HIDE DEF m1, m2, m3, m4
    <3>3. num + m1 + m2 = num + m3 + m4
      BY <2>1, <3>1, <3>2
    <3> QED
      BY <3>3 DEF m1, m2, m3, m4
  <2> QED
    BY <2>2, <2>4, <2>8 DEF ab, w, z, num
<1> HIDE DEF t, c
<1> QED
  BY <1>4, <1>5, <1>6, <1>8 DEF Carried, CellAdded

(* The row's cells, one after the other.                                    *)
RowEnd(a, b, r, x) ==
  R!Loop(LAMBDA t, j : R!Cell(a, b, x, t, j), [r |-> r, carry |-> 0], KeyLimbs)

RowRuns(f, a, b, r, x) ==
  /\ RowEnd(a, b, r, x) = f[KeyLimbs] /\ f[0] = [r |-> r, carry |-> 0]
  /\ \A m \in 0 .. KeyLimbs - 1 : f[m + 1] = R!Cell(a, b, x, f[m], m)

LEMMA RowLoop ==
  ASSUME NEW a, NEW b, NEW r \in Wide, NEW x \in 0 .. KeyLimbs - 1,
         Digits(a, KeyLimbs), Digits(b, KeyLimbs)
  PROVE  \E f \in [0..KeyLimbs -> Carried] : RowRuns(f, a, b, r, x)
<1> USE Limbed
<1> DEFINE Initial == [r |-> r, carry |-> 0]
           After(v, m) == R!Cell(a, b, x, v, m)
           Follows(f) == f[0] = Initial /\ \A m \in 0 .. KeyLimbs - 1 : f[m + 1] = After(f[m], m)
           g == [p \in (0 .. KeyLimbs - 1) \X Carried |-> After(p[2], p[1])]
           All(h) == [m \in 0..KeyLimbs |-> IF m = 0 THEN Initial ELSE After(h[m - 1], m - 1)]
           F == CHOOSE h : h = All(h)
<1>1. \E f \in [0..KeyLimbs -> Carried] : Follows(f)
  <2>1. \A m \in 0 .. KeyLimbs - 1, v \in Carried : After(v, m) \in Carried
    BY CellAdds
  <2>2. g \in [(0 .. KeyLimbs - 1) \X Carried -> Carried]
    BY <2>1
  <2>3. \A m \in 0 .. KeyLimbs - 1, v \in Carried : g[<<m, v>>] = After(v, m)
    OBVIOUS
  <2> HIDE DEF g
  <2>4. PICK f \in [0..KeyLimbs -> Carried] : Runs(f, Initial, g, KeyLimbs)
    <3>1. Initial \in Carried /\ KeyLimbs \in Nat
      BY BaseIsNat DEF Carried
    <3> QED
      BY <2>2, <3>1, LoopExists, Zenon
  <2>5. ASSUME NEW m \in 0 .. KeyLimbs - 1 PROVE f[m + 1] = After(f[m], m)
    <3>1. f[m] \in Carried
      OBVIOUS
    <3> QED
      BY <2>3, <2>4, <3>1 DEF Runs
  <2> QED
    BY <2>4, <2>5 DEF Runs
<1>2. PICK f \in [0..KeyLimbs -> Carried] : Follows(f)
  BY <1>1
<1>3. f = All(f)
  <2>1. ASSUME NEW m \in 0..KeyLimbs PROVE f[m] = All(f)[m]
    <3>1. CASE m = 0
      BY <1>2, <3>1
    <3>2. CASE m # 0
      <4>1. m - 1 \in 0 .. KeyLimbs - 1 /\ (m - 1) + 1 = m
        BY <3>2
      <4> QED
        BY <1>2, <3>2, <4>1
    <3> QED
      BY <3>1, <3>2
  <2> QED
    BY <2>1
<1>4. F = All(F)
  BY <1>3
<1>5. RowEnd(a, b, r, x) = F[KeyLimbs]
  BY DEF RowEnd, R!Loop
<1> HIDE DEF F
<1>6. F \in [0..KeyLimbs -> Carried] /\ Follows(F)
  <2>1. Follows(F)
    BY <1>4
  <2>2. \A m \in 0..KeyLimbs : F[m] = f[m]
    <3>1. Alike(F, f, KeyLimbs)
      BY <1>2, <2>1 DEF Alike
    <3> QED
      BY <3>1, SameLoop
  <2> QED
    BY <1>4, <2>1, <2>2
<1> QED
  BY <1>5, <1>6 DEF RowRuns

LEMMA RowAdds ==
  ASSUME NEW a, NEW b, Digits(a, KeyLimbs), Digits(b, KeyLimbs), NEW r \in Wide,
         NEW x \in 0 .. KeyLimbs - 1, \A h \in x + KeyLimbs .. 2 * KeyLimbs - 1 : r[h] = 0
  PROVE  /\ R!Row(a, b, r, x) \in Wide
         /\ \A h \in x + 1 + KeyLimbs .. 2 * KeyLimbs - 1 : R!Row(a, b, r, x)[h] = 0
         /\ R!Number(R!Row(a, b, r, x), 2 * KeyLimbs)
              = R!Number(r, 2 * KeyLimbs) + a[x] * R!Number(b, KeyLimbs) * W(x)
<1> USE Limbed
<1> DEFINE K2 == 2 * KeyLimbs
<1>0. KeyLimbs \in Nat \ {0} /\ K2 \in Nat /\ a[x] \in Int /\ Digits(r, K2)
  BY Limbed, BaseIsNat, WideDigits DEF Digits
<1>a. PICK f \in [0..KeyLimbs -> Carried] : RowRuns(f, a, b, r, x)
  BY RowLoop
<1>1. /\ RowEnd(a, b, r, x) = f[KeyLimbs] /\ f[0] = [r |-> r, carry |-> 0]
      /\ \A m \in 0 .. KeyLimbs - 1 : f[m + 1] = R!Cell(a, b, x, f[m], m)
  BY <1>a DEF RowRuns
<1> DEFINE Sum(m) == R!Number(f[m].r, K2) + f[m].carry * W(x + m)
           Due(m) == R!Number(r, K2) + a[x] * R!Number(b, m) * W(x)
           Above(m) == \A h \in x + m .. K2 - 1 : f[m].r[h] = r[h]
           D == {m \in Nat : m <= KeyLimbs => Sum(m) = Due(m) /\ Above(m)}
<1>2. 0 \in D
  <2>1. f[0].r = r /\ f[0].carry = 0
    BY <1>1
  <2>2. R!Number(b, 0) = 0 /\ x + 0 = x /\ W(x) \in Int /\ R!Number(r, K2) \in Int
    <3>1. R!Number(b, 0) = 0 /\ x + 0 = x
      BY Nothing
    <3>2. W(x) \in Int
      BY Weights
    <3>3. R!Number(r, K2) \in Int
      BY <1>0, NumberIsInt
    <3> QED
      BY <3>1, <3>2, <3>3
  <2>3. Sum(0) = Due(0)
    BY <1>0, <2>1, <2>2
  <2> QED
    BY <2>1, <2>3
<1>3. ASSUME NEW m \in Nat, m \in D PROVE m + 1 \in D
  <2> SUFFICES ASSUME m + 1 <= KeyLimbs PROVE Sum(m + 1) = Due(m + 1) /\ Above(m + 1)
    OBVIOUS
  <2>1. m \in 0 .. KeyLimbs - 1 /\ f[m] \in Carried /\ f[m + 1] = R!Cell(a, b, x, f[m], m)
    BY <1>1
  <2>2. /\ \A h \in 0 .. K2 - 1 : h # x + m => f[m + 1].r[h] = f[m].r[h]
        /\ R!Number(f[m + 1].r, K2) + f[m + 1].carry * W(x + m + 1)
             = R!Number(f[m].r, K2) + f[m].carry * W(x + m) + (a[x] * b[m]) * W(x + m)
    <3>1. CellAdded(a, b, x, f[m], m, R!Cell(a, b, x, f[m], m), 2 * KeyLimbs)
      BY <2>1, CellAdds
    <3> QED
      BY <2>1, <3>1 DEF CellAdded
  <2>3. Sum(m) = Due(m) /\ Above(m)
    BY <1>3, <2>1
  <2>4. Above(m + 1)
    <3> SUFFICES ASSUME NEW h \in x + (m + 1) .. K2 - 1 PROVE f[m + 1].r[h] = r[h]
      OBVIOUS
    <3>1. h \in 0 .. K2 - 1 /\ h # x + m /\ h \in x + m .. K2 - 1
      BY <1>0
    <3> QED
      BY <2>2, <2>3, <3>1
  <2>5. Due(m + 1) = Due(m) + (a[x] * b[m]) * W(x + m)
    <3> DEFINE num == R!Number(r, K2)
               y == R!Number(b, m)
               ax == a[x]
               bm == b[m]
               wx == W(x)
               wm == W(m)
    <3>1. /\ num \in Int /\ y \in Int /\ ax \in Int /\ bm \in Int /\ wx \in Int /\ wm \in Int
      <4>1. Digits(b, m + 1) /\ Digits(b, m)
        BY <2>1, Limbed, DigitsLess
      <4>2. bm \in Int
        BY <2>1, BaseIsNat DEF Digits
      <4> QED
        BY <1>0, <4>1, <4>2, NumberIsInt, Weights
    <3>2. R!Number(b, m + 1) = y + bm * wm
      <4>1. Digits(b, m + 1)
        BY <2>1, Limbed, DigitsLess
      <4> QED
        BY <4>1, NumberStep
    <3>3. W(x + m) = wx * wm
      BY PowSum, BaseIsNat DEF W
    <3> HIDE DEF num, y, ax, bm, wx, wm
    <3>4. ax * (y + bm * wm) * wx = ax * y * wx + (ax * bm) * (wx * wm)
      BY <3>1, SMT
    <3> DEFINE m1 == ax * y * wx
               m2 == (ax * bm) * (wx * wm)
    <3>5. m1 \in Int /\ m2 \in Int
      BY <3>1, SMT
    <3>6. Due(m + 1) = num + (m1 + m2) /\ Due(m) = num + m1 /\ (a[x] * b[m]) * W(x + m) = m2
      BY <3>2, <3>3, <3>4 DEF num, y, ax, bm, wx, wm
    <3> HIDE DEF m1, m2, Due
    <3> QED
      BY <3>1, <3>5, <3>6
  <2>6. Sum(m + 1) = Due(m + 1)
    <3>1. Sum(m + 1) = Sum(m) + (a[x] * b[m]) * W(x + m)
      <4>1. x + (m + 1) = x + m + 1
        OBVIOUS
      <4> QED
        BY <2>2, <4>1
    <3> QED
      BY <2>3, <2>5, <3>1
  <2> QED
    BY <2>4, <2>6
<1> HIDE DEF D
<1>4. KeyLimbs \in D
  BY <1>0, <1>2, <1>3, SetInduction
<1>5. Sum(KeyLimbs) = Due(KeyLimbs) /\ Above(KeyLimbs)
  BY <1>0, <1>4 DEF D
<1> DEFINE s == f[KeyLimbs]
           u == s.r
           at == x + KeyLimbs
           t == [u EXCEPT ![at] = (u[at] + s.carry) % R!Base]
<1>6. R!Row(a, b, r, x) = t
  <2>1. R!Row(a, b, r, x)
          = [RowEnd(a, b, r, x).r EXCEPT
               ![at] = (RowEnd(a, b, r, x).r[at] + RowEnd(a, b, r, x).carry) % R!Base]
    BY DEF R!Row, RowEnd, R!Loop
  <2> QED
    BY <1>1, <2>1
<1>7. /\ u \in Wide /\ s.carry \in 0 .. R!Base - 1 /\ at \in 0 .. K2 - 1 /\ at \in Nat
      /\ R!Base \in Nat \ {0}
  BY <1>0, <1>1, BaseIsNat DEF Carried
<1>8. u[at] = 0 /\ \A h \in at + 1 .. K2 - 1 : u[h] = 0
  <2>1. \A h \in x + KeyLimbs .. K2 - 1 : u[h] = 0
    BY <1>5
  <2>2. at \in x + KeyLimbs .. K2 - 1
    BY <1>0
  <2> QED
    BY <2>1, <2>2
<1>9. t[at] = s.carry /\ t \in Wide /\ \A h \in 0 .. K2 - 1 : h # at => t[h] = u[h]
  <2>1. s.carry % R!Base = s.carry
    BY <1>7, SmallMod
  <2>2. (u[at] + s.carry) % R!Base = s.carry
    BY <1>7, <1>8, <2>1
  <2> QED
    BY <1>7, <2>2 DEF Wide
<1>10. R!Number(t, K2) = R!Number(u, K2) + s.carry * W(at)
  <2>1. Digits(t, K2) /\ Digits(u, K2) /\ K2 \in Nat
    BY <1>0, <1>7, <1>9, WideDigits
  <2> DEFINE c == s.carry
  <2>2. t[at] = c /\ u[at] = 0 /\ c \in Int /\ \A h \in 0 .. K2 - 1 : h # at => t[h] = u[h]
    BY <1>7, <1>8, <1>9
  <2> HIDE DEF K2, t, at, u, c
  <2>3. R!Number(t, K2) = R!Number(u, K2) + (t[at] - u[at]) * W(at)
    BY <1>7, <2>1, <2>2, NumberSet
  <2> QED
    BY <2>2, <2>3 DEF c
<1>11. \A h \in x + 1 + KeyLimbs .. K2 - 1 : t[h] = 0
  <2> SUFFICES ASSUME NEW h \in x + 1 + KeyLimbs .. K2 - 1 PROVE t[h] = 0
    OBVIOUS
  <2>1. h \in 0 .. K2 - 1 /\ h # at /\ h \in at + 1 .. K2 - 1
    BY <1>0
  <2> QED
    BY <1>8, <1>9, <2>1
<1> HIDE DEF t
<1> QED
  BY <1>5, <1>6, <1>9, <1>10, <1>11

LEMMA RowIsWide ==
  ASSUME NEW a, NEW b, Digits(a, KeyLimbs), Digits(b, KeyLimbs), NEW r \in Wide,
         NEW x \in 0 .. KeyLimbs - 1
  PROVE  R!Row(a, b, r, x) \in Wide
<1> USE Limbed
<1>1. PICK f \in [0..KeyLimbs -> Carried] : RowRuns(f, a, b, r, x)
  BY RowLoop
<1> DEFINE s == f[KeyLimbs]
           at == x + KeyLimbs
           v == (s.r[at] + s.carry) % R!Base
<1>2. s \in Carried /\ s = RowEnd(a, b, r, x)
  BY <1>1 DEF RowRuns
<1>3. R!Row(a, b, r, x) = [s.r EXCEPT ![at] = v]
  BY <1>2 DEF R!Row, RowEnd, R!Loop
<1>4. v \in 0 .. R!Base - 1
  <2>1. s.r[at] \in Int /\ s.carry \in Int
    <3>1. s.r \in Wide /\ s.carry \in 0 .. R!Base - 1 /\ at \in 0 .. 2 * KeyLimbs - 1
      BY <1>2 DEF Carried
    <3>2. s.r[at] \in 0 .. R!Base - 1
      BY <3>1 DEF Wide
    <3> QED
      BY <3>1, <3>2, BaseIsNat
  <2>2. s.r[at] + s.carry \in Int /\ R!Base \in Nat \ {0}
    BY <2>1, BaseIsNat
  <2> HIDE DEF s
  <2> QED
    BY <2>2, Divided
<1>5. s.r \in Wide
  BY <1>2 DEF Carried
<1> HIDE DEF s, at, v
<1> QED
  BY <1>3, <1>4, <1>5 DEF Wide

MulRuns(f, a, b) ==
  /\ R!bn_mul(a, b) = f[KeyLimbs] /\ f[0] = [h \in 0 .. 2 * KeyLimbs - 1 |-> 0]
  /\ \A m \in 0 .. KeyLimbs - 1 : f[m + 1] = R!Row(a, b, f[m], m)

LEMMA MulLoop ==
  ASSUME NEW a, NEW b, Digits(a, KeyLimbs), Digits(b, KeyLimbs)
  PROVE  \E f \in [0..KeyLimbs -> Wide] : MulRuns(f, a, b)
<1> USE Limbed
<1> DEFINE Initial == [h \in 0 .. 2 * KeyLimbs - 1 |-> 0]
           After(v, m) == R!Row(a, b, v, m)
           Follows(f) == f[0] = Initial /\ \A m \in 0 .. KeyLimbs - 1 : f[m + 1] = After(f[m], m)
           g == [p \in (0 .. KeyLimbs - 1) \X Wide |-> After(p[2], p[1])]
           All(h) == [m \in 0..KeyLimbs |-> IF m = 0 THEN Initial ELSE After(h[m - 1], m - 1)]
           F == CHOOSE h : h = All(h)
<1>1. \E f \in [0..KeyLimbs -> Wide] : Follows(f)
  <2>1. \A m \in 0 .. KeyLimbs - 1, v \in Wide : After(v, m) \in Wide
    BY RowIsWide
  <2>2. g \in [(0 .. KeyLimbs - 1) \X Wide -> Wide]
    BY <2>1
  <2>3. \A m \in 0 .. KeyLimbs - 1, v \in Wide : g[<<m, v>>] = After(v, m)
    OBVIOUS
  <2> HIDE DEF g
  <2>4. PICK f \in [0..KeyLimbs -> Wide] : Runs(f, Initial, g, KeyLimbs)
    <3>1. Initial \in Wide /\ KeyLimbs \in Nat
      BY BaseIsNat DEF Wide
    <3> QED
      BY <2>2, <3>1, LoopExists, Zenon
  <2>5. ASSUME NEW m \in 0 .. KeyLimbs - 1 PROVE f[m + 1] = After(f[m], m)
    <3>1. f[m] \in Wide
      OBVIOUS
    <3> QED
      BY <2>3, <2>4, <3>1 DEF Runs
  <2> QED
    BY <2>4, <2>5 DEF Runs
<1>2. PICK f \in [0..KeyLimbs -> Wide] : Follows(f)
  BY <1>1
<1>3. f = All(f)
  <2>1. ASSUME NEW m \in 0..KeyLimbs PROVE f[m] = All(f)[m]
    <3>1. CASE m = 0
      BY <1>2, <3>1
    <3>2. CASE m # 0
      <4>1. m - 1 \in 0 .. KeyLimbs - 1 /\ (m - 1) + 1 = m
        BY <3>2
      <4> QED
        BY <1>2, <3>2, <4>1
    <3> QED
      BY <3>1, <3>2
  <2> QED
    BY <2>1
<1>4. F = All(F)
  BY <1>3
<1>5. R!bn_mul(a, b) = F[KeyLimbs]
  BY DEF R!bn_mul, R!Loop
<1> HIDE DEF F
<1>6. F \in [0..KeyLimbs -> Wide] /\ Follows(F)
  <2>1. Follows(F)
    BY <1>4
  <2>2. \A m \in 0..KeyLimbs : F[m] = f[m]
    <3>1. Alike(F, f, KeyLimbs)
      BY <1>2, <2>1 DEF Alike
    <3> QED
      BY <3>1, SameLoop
  <2> QED
    BY <1>4, <2>1, <2>2
<1> QED
  BY <1>5, <1>6 DEF MulRuns

(* bn_mul of two numbers of KeyLimbs limbs is their product, for every      *)
(* width and number of limbs: no carry is lost, neither of the double-width *)
(* sum in a cell nor of the addition at the end of a row.                   *)
THEOREM MulIsProduct ==
  ASSUME NEW a, NEW b, Digits(a, KeyLimbs), Digits(b, KeyLimbs)
  PROVE  /\ R!bn_mul(a, b) \in Wide
         /\ R!Number(R!bn_mul(a, b), 2 * KeyLimbs) = R!Number(a, KeyLimbs) * R!Number(b, KeyLimbs)
<1> USE Limbed
<1>1. PICK f \in [0..KeyLimbs -> Wide] : MulRuns(f, a, b)
  BY MulLoop
<1>2. /\ R!bn_mul(a, b) = f[KeyLimbs] /\ f[0] = [h \in 0 .. 2 * KeyLimbs - 1 |-> 0]
      /\ \A m \in 0 .. KeyLimbs - 1 : f[m + 1] = R!Row(a, b, f[m], m)
  BY <1>1 DEF MulRuns
<1> DEFINE K2 == 2 * KeyLimbs
           y == R!Number(b, KeyLimbs)
           Clear(m) == \A h \in m + KeyLimbs .. K2 - 1 : f[m][h] = 0
           D == {m \in Nat : m <= KeyLimbs => Clear(m) /\ R!Number(f[m], K2) = R!Number(a, m) * y}
<1>3. y \in Int
  BY NumberIsInt
<1>4. 0 \in D
  <2>1. \A h \in 0 .. K2 - 1 : f[0][h] = 0
    BY <1>2
  <2>2. Clear(0)
    BY <2>1
  <2>3. R!Number(f[0], K2) = R!Number(f[0], 0)
    <3> DEFINE z == f[0]
    <3>1. z \in Wide /\ Digits(z, K2)
      BY WideDigits
    <3>2. K2 \in Nat /\ 0 <= K2 /\ 0 \in Nat /\ \A h \in 0 .. K2 - 1 : z[h] = 0
      BY <2>1
    <3> HIDE DEF z, K2
    <3>3. R!Number(z, K2) = R!Number(z, 0)
      BY <3>1, <3>2, NumberPad
    <3> QED
      BY <3>3 DEF z
  <2>4. R!Number(f[0], 0) = 0 /\ R!Number(a, 0) = 0 /\ 0 * y = 0
    BY <1>3, Nothing
  <2> QED
    BY <2>2, <2>3, <2>4
<1>5. ASSUME NEW m \in Nat, m \in D PROVE m + 1 \in D
  <2> SUFFICES ASSUME m + 1 <= KeyLimbs
               PROVE  Clear(m + 1) /\ R!Number(f[m + 1], K2) = R!Number(a, m + 1) * y
    OBVIOUS
  <2>1. m \in 0 .. KeyLimbs - 1 /\ f[m] \in Wide /\ f[m + 1] = R!Row(a, b, f[m], m)
    BY <1>2
  <2>2. Clear(m) /\ R!Number(f[m], K2) = R!Number(a, m) * y
    BY <1>5
  <2> DEFINE r == f[m]
  <2>3. \A h \in m + KeyLimbs .. 2 * KeyLimbs - 1 : r[h] = 0
    BY <2>2
  <2> HIDE DEF r
  <2>4. /\ \A h \in m + 1 + KeyLimbs .. 2 * KeyLimbs - 1 : R!Row(a, b, r, m)[h] = 0
        /\ R!Number(R!Row(a, b, r, m), 2 * KeyLimbs)
             = R!Number(r, 2 * KeyLimbs) + a[m] * R!Number(b, KeyLimbs) * W(m)
    <3>1. r \in Wide
      BY <2>1 DEF r
    <3> QED
      BY <2>1, <2>3, <3>1, RowAdds
  <2>5. Clear(m + 1)
    BY <2>1, <2>4 DEF r
  <2>6. R!Number(f[m + 1], K2) = R!Number(a, m) * y + a[m] * y * W(m)
    BY <2>1, <2>2, <2>4 DEF r
  <2>7. R!Number(a, m + 1) = R!Number(a, m) + a[m] * W(m) /\ R!Number(a, m) \in Int
    <3>1. Digits(a, m + 1)
      BY <2>1, DigitsLess
    <3> QED
      BY <3>1, NumberStep
  <2> DEFINE num == R!Number(a, m)
             d == a[m]
             w == W(m)
  <2>8. num \in Int /\ d \in Int /\ w \in Int
    <3>1. d \in 0 .. R!Base - 1
      BY <2>1 DEF Digits
    <3>2. w \in Int
      BY Weights
    <3> QED
      BY <2>7, <3>1, <3>2, BaseIsNat
  <2> HIDE DEF num, d, w, y
  <2>9. num * y + d * y * w = (num + d * w) * y
    BY <1>3, <2>8, SMT
  <2> QED
    BY <2>5, <2>6, <2>7, <2>9 DEF num, d, w
<1> HIDE DEF D
<1>6. KeyLimbs \in D
  BY <1>4, <1>5, SetInduction
<1> QED
  BY <1>2, <1>6 DEF D

----------------------------------------------------------------------------
(* The reduction                                                            *)

LEMMA TopBit ==
  ASSUME NEW n \in Nat, NEW v \in Nat \ {0}, v < R!Pow(2, n)
  PROVE  \E j \in 0 .. n - 1 : R!Pow(2, j) <= v /\ v < R!Pow(2, j + 1)
<1> DEFINE D == {m \in Nat : v < R!Pow(2, m) =>
                   \E j \in 0 .. m - 1 : R!Pow(2, j) <= v /\ v < R!Pow(2, j + 1)}
<1>1. 0 \in D
  <2>1. R!Pow(2, 0) = 1
    BY PowStep
  <2> QED
    BY <2>1
<1>2. ASSUME NEW m \in Nat, m \in D PROVE m + 1 \in D
  <2> SUFFICES ASSUME v < R!Pow(2, m + 1)
               PROVE  \E j \in 0 .. (m + 1) - 1 : R!Pow(2, j) <= v /\ v < R!Pow(2, j + 1)
    OBVIOUS
  <2>1. R!Pow(2, m) \in Int
    BY PowStep
  <2>2. CASE v < R!Pow(2, m)
    <3>1. PICK j \in 0 .. m - 1 : R!Pow(2, j) <= v /\ v < R!Pow(2, j + 1)
      BY <1>2, <2>2
    <3> QED
      BY <3>1
  <2>3. CASE R!Pow(2, m) <= v
    <3>1. m \in 0 .. (m + 1) - 1
      OBVIOUS
    <3> QED
      BY <2>3, <3>1
  <2> QED
    BY <2>1, <2>2, <2>3
<1> HIDE DEF D
<1>3. n \in D
  BY <1>1, <1>2, SetInduction
<1> QED
  BY <1>3 DEF D

LEMMA WeightIsPower ==
  ASSUME NEW n \in Nat
  PROVE  W(n) = R!Pow(2, LimbBits * n)
  BY PowProduct, Limbed DEF W, R!Base

LEMMA MsbIsTop ==
  ASSUME NEW v \in Nat, v < W(2 * KeyLimbs)
  PROVE  /\ v = 0 => R!Msb(v) = -1
         /\ v # 0 => /\ R!Msb(v) \in 0 .. LimbBits * (2 * KeyLimbs) - 1
                     /\ R!Pow(2, R!Msb(v)) <= v /\ v < R!Pow(2, R!Msb(v) + 1)
<1>1. v = 0 => R!Msb(v) = -1
  BY DEF R!Msb
<1>2. ASSUME v # 0
      PROVE  /\ R!Msb(v) \in 0 .. LimbBits * (2 * KeyLimbs) - 1
             /\ R!Pow(2, R!Msb(v)) <= v /\ v < R!Pow(2, R!Msb(v) + 1)
  <2> DEFINE n == LimbBits * (2 * KeyLimbs)
  <2>1. 2 * KeyLimbs \in Nat
    BY Limbed
  <2>2. W(2 * KeyLimbs) = R!Pow(2, n)
    BY <2>1, WeightIsPower
  <2>3. n \in Nat
    BY <2>1, Limbed
  <2>4. R!Msb(v) = CHOOSE j \in 0 .. n - 1 : R!Pow(2, j) <= v /\ v < R!Pow(2, j + 1)
    BY <1>2 DEF R!Msb
  <2> HIDE DEF n
  <2>5. \E j \in 0 .. n - 1 : R!Pow(2, j) <= v /\ v < R!Pow(2, j + 1)
    BY <1>2, <2>2, <2>3, TopBit
  <2>6. R!Msb(v) \in 0 .. n - 1 /\ R!Pow(2, R!Msb(v)) <= v /\ v < R!Pow(2, R!Msb(v) + 1)
    BY <2>4, <2>5
  <2> QED
    BY <2>6 DEF n
<1> QED
  BY <1>1, <1>2

(* a is below b from limb lo on: the highest limb that differs tells.       *)
Less(a, b, lo, n) == \E x \in lo .. n - 1 : a[x] < b[x] /\ \A h \in x + 1 .. n - 1 : a[h] = b[h]

(* A greater digit counts for more than all that is below it.               *)
LEMMA DigitCounts ==
  ASSUME NEW w \in Nat \ {0}, NEW p \in 0 .. w - 1, NEW q \in 0 .. w - 1,
         NEW c \in Nat, NEW d \in Nat, c < d
  PROVE  p + c * w < q + d * w
<1>1. c * w + w <= d * w
  <2>1. (c + 1) * w <= d * w
    BY SMT
  <2>2. (c + 1) * w = c * w + w
    BY SMT
  <2> QED
    BY <2>1, <2>2
<1>2. c * w \in Int /\ d * w \in Int
  OBVIOUS
<1> DEFINE y == c * w
           z == d * w
<1> HIDE DEF y, z
<1>3. y + w <= z /\ y \in Int /\ z \in Int
  BY <1>1, <1>2 DEF y, z
<1>4. p + y < q + z
  BY <1>3
<1> QED
  BY <1>4 DEF y, z

LEMMA LessIsBelow ==
  ASSUME NEW a, NEW b, NEW n \in Nat, NEW lo \in Nat, Digits(a, n), Digits(b, n), Less(a, b, lo, n)
  PROVE  R!Number(a, n) < R!Number(b, n)
<1>1. PICK x \in lo .. n - 1 : a[x] < b[x] /\ \A h \in x + 1 .. n - 1 : a[h] = b[h]
  BY DEF Less
<1> DEFINE D == {m \in Nat : x + 1 <= m /\ m <= n => R!Number(a, m) < R!Number(b, m)}
<1>2. 0 \in D
  OBVIOUS
<1>3. ASSUME NEW m \in Nat, m \in D PROVE m + 1 \in D
  <2> SUFFICES ASSUME x + 1 <= m + 1, m + 1 <= n PROVE R!Number(a, m + 1) < R!Number(b, m + 1)
    OBVIOUS
  <2>1. Digits(a, m + 1) /\ Digits(b, m + 1) /\ Digits(a, m) /\ Digits(b, m)
    BY DigitsLess
  <2> DEFINE p == R!Number(a, m)
             q == R!Number(b, m)
             c == a[m]
             d == b[m]
             w == W(m)
  <2>2. p \in 0 .. w - 1 /\ q \in 0 .. w - 1 /\ w \in Nat \ {0}
    BY <2>1, NumberRange, Weights
  <2>3. c \in Nat /\ d \in Nat
    BY <2>1, BaseIsNat DEF Digits
  <2>4. R!Number(a, m + 1) = p + c * w /\ R!Number(b, m + 1) = q + d * w
    BY <2>1, NumberStep
  <2>5. CASE m = x
    <3>1. c < d
      BY <1>1, <2>5
    <3> HIDE DEF p, q, c, d, w
    <3> QED
      BY <2>2, <2>3, <2>4, <3>1, DigitCounts
  <2>6. CASE m # x
    <3>1. c = d /\ p < q
      BY <1>1, <1>3, <2>6
    <3> HIDE DEF p, q, c, d, w
    <3>2. c * w \in Int
      BY <2>2, <2>3
    <3> QED
      BY <2>2, <2>4, <3>1, <3>2
  <2> QED
    BY <2>5, <2>6
<1> HIDE DEF D
<1>4. n \in D
  BY <1>2, <1>3, SetInduction
<1> QED
  BY <1>4 DEF D

LEMMA NotLessIsAbove ==
  ASSUME NEW a, NEW b, NEW n \in Nat, NEW lo \in Nat, Digits(a, n), Digits(b, n),
         ~Less(a, b, lo, n), \A h \in 0 .. n - 1 : h < lo => b[h] = 0
  PROVE  R!Number(b, n) <= R!Number(a, n)
<1> DEFINE D == {m \in Nat : m <= n /\ ~Less(a, b, lo, m) => R!Number(b, m) <= R!Number(a, m)}
<1>1. 0 \in D
  BY Nothing
<1>2. ASSUME NEW m \in Nat, m \in D PROVE m + 1 \in D
  <2> SUFFICES ASSUME m + 1 <= n, ~Less(a, b, lo, m + 1)
               PROVE  R!Number(b, m + 1) <= R!Number(a, m + 1)
    OBVIOUS
  <2>1. Digits(a, m + 1) /\ Digits(b, m + 1) /\ Digits(a, m) /\ Digits(b, m)
    BY DigitsLess
  <2> DEFINE p == R!Number(a, m)
             q == R!Number(b, m)
             c == a[m]
             d == b[m]
             w == W(m)
  <2>2. p \in 0 .. w - 1 /\ q \in 0 .. w - 1 /\ w \in Nat \ {0}
    BY <2>1, NumberRange, Weights
  <2>3. c \in Nat /\ d \in Nat
    BY <2>1, BaseIsNat DEF Digits
  <2>4. R!Number(a, m + 1) = p + c * w /\ R!Number(b, m + 1) = q + d * w
    BY <2>1, NumberStep
  <2>5. d <= c
    <3>1. CASE m < lo
      <4>1. d = 0
        BY <3>1
      <4> QED
        BY <2>3, <4>1
    <3>2. CASE ~(m < lo)
      <4>1. m \in lo .. (m + 1) - 1 /\ \A h \in m + 1 .. (m + 1) - 1 : a[h] = b[h]
        BY <3>2
      <4>2. ~(c < d)
        BY <4>1 DEF Less
      <4> QED
        BY <2>3, <4>2
    <3> QED
      BY <3>1, <3>2
  <2>6. CASE d < c
    <3> HIDE DEF p, q, c, d, w
    <3>1. q + d * w < p + c * w
      BY <2>2, <2>3, <2>6, DigitCounts
    <3>2. d * w \in Int /\ c * w \in Int
      BY <2>2, <2>3
    <3> QED
      BY <2>2, <2>4, <3>1, <3>2
  <2>7. CASE d = c
    <3>1. ~Less(a, b, lo, m)
      <4> SUFFICES ASSUME Less(a, b, lo, m) PROVE FALSE
        OBVIOUS
      <4>1. PICK x \in lo .. m - 1 : a[x] < b[x] /\ \A h \in x + 1 .. m - 1 : a[h] = b[h]
        BY DEF Less
      <4>2. x \in lo .. (m + 1) - 1
        OBVIOUS
      <4>3. ASSUME NEW h \in x + 1 .. (m + 1) - 1 PROVE a[h] = b[h]
        <5>1. h = m \/ h \in x + 1 .. m - 1
          OBVIOUS
        <5> QED
          BY <2>7, <4>1, <5>1
      <4> QED
        BY <4>1, <4>2, <4>3 DEF Less
    <3>2. q <= p
      BY <1>2, <3>1
    <3> HIDE DEF p, q, c, d, w
    <3>3. c * w \in Int
      BY <2>2, <2>3
    <3> QED
      BY <2>2, <2>4, <2>7, <3>2, <3>3
  <2> QED
    BY <2>3, <2>5, <2>6, <2>7
<1> HIDE DEF D
<1>3. n \in D
  BY <1>1, <1>2, SetInduction
<1> QED
  BY <1>3 DEF D

(* A limb shifted by less than a limb: what stays, and what goes up.        *)
LEMMA LimbShift ==
  ASSUME NEW d \in 0 .. R!Base - 1, NEW c \in 0 .. LimbBits - 1
  PROVE  /\ R!Pow(2, c) \in Nat \ {0} /\ R!Pow(2, LimbBits - c) \in Nat \ {0}
         /\ d \div R!Pow(2, LimbBits - c) \in 0 .. R!Pow(2, c) - 1
         /\ (d * R!Pow(2, c)) % R!Base \in 0 .. R!Base - R!Pow(2, c)
         /\ d * R!Pow(2, c) = R!Base * (d \div R!Pow(2, LimbBits - c)) + ((d * R!Pow(2, c)) % R!Base)
<1> DEFINE u == R!Pow(2, c)
           t == R!Pow(2, LimbBits - c)
           b == R!Base
           h == d \div t
           l == d % t
<1>1. c \in Nat /\ LimbBits - c \in Nat /\ c + (LimbBits - c) = LimbBits
  BY Limbed
<1>2. u \in Nat \ {0} /\ t \in Nat \ {0} /\ b = u * t
  BY <1>1, PowPositive, PowSum DEF R!Base
<1>3. h \in Int /\ l \in 0 .. t - 1 /\ d = t * h + l /\ d \in Nat /\ d <= b - 1 /\ b \in Nat \ {0}
  <2>1. d \in Int /\ d \in Nat /\ d <= b - 1 /\ b \in Nat \ {0}
    BY BaseIsNat
  <2> QED
    BY <1>2, <2>1, Divided
<1> HIDE DEF u, t, b, h, l
<1>4. h \in 0 .. u - 1
  <2>1. h >= u => t * h >= u * t
    BY <1>2, <1>3, SMT
  <2>2. h <= -1 => t * h <= -t
    BY <1>2, <1>3, SMT
  <2>3. t * h \in Int
    BY <1>2, <1>3
  <2> QED
    BY <1>2, <1>3, <2>1, <2>2, <2>3
<1>5. l * u \in 0 .. b - u
  <2>1. l * u <= (t - 1) * u /\ l * u >= 0
    BY <1>2, <1>3, SMT
  <2>2. (t - 1) * u = u * t - u /\ l * u \in Int
    BY <1>2, <1>3, SMT
  <2> QED
    BY <1>2, <1>3, <2>1, <2>2
<1>6. d * u = b * h + l * u
  <2>1. (t * h + l) * u = (u * t) * h + l * u
    BY <1>2, <1>3, SMT
  <2> QED
    BY <1>2, <1>3, <2>1
<1>7. (d * u) % b = l * u
  <2>1. d * u \in Int /\ l * u \in 0 .. b - 1
    BY <1>2, <1>3, <1>5
  <2> QED
    BY <1>3, <1>6, <2>1, Quotient
<1>8. /\ u \in Nat \ {0} /\ t \in Nat \ {0} /\ h \in 0 .. u - 1
      /\ (d * u) % b \in 0 .. b - u /\ d * u = b * h + ((d * u) % b)
  BY <1>2, <1>4, <1>5, <1>6, <1>7
<1> QED
  BY <1>8 DEF u, t, b, h

(* The limbs of n << shift, as many as the accumulator has.                 *)
Raised(n, shift) ==
  [x \in Nat |-> IF x < shift \div LimbBits THEN 0 ELSE R!Shifted(n, shift, x)]

(* What limb j - 1 of n puts into the limb above.                           *)
Up(n, c, j) == IF j = 0 THEN 0 ELSE n[j - 1] \div R!Pow(2, LimbBits - c)

LEMMA UpRange ==
  ASSUME NEW n, Digits(n, KeyLimbs), NEW c \in 0 .. LimbBits - 1, NEW j \in 0..KeyLimbs
  PROVE  Up(n, c, j) \in 0 .. R!Pow(2, c) - 1 /\ (c = 0 => Up(n, c, j) = 0)
<1>0. R!Pow(2, c) \in Nat \ {0}
  BY Limbed, PowPositive
<1>1. CASE j = 0
  BY <1>0, <1>1 DEF Up
<1>2. CASE j # 0
  <2>1. n[j - 1] \in 0 .. R!Base - 1
    BY <1>2, Limbed DEF Digits
  <2>2. Up(n, c, j) \in 0 .. R!Pow(2, c) - 1
    BY <1>2, <2>1, LimbShift DEF Up
  <2>3. c = 0 => R!Pow(2, c) = 1
    BY PowStep
  <2> QED
    BY <2>2, <2>3
<1> QED
  BY <1>1, <1>2

LEMMA ShiftedLimb ==
  ASSUME NEW n, Digits(n, KeyLimbs), NEW shift \in Nat, NEW j \in 0 .. KeyLimbs - 1
  PROVE  R!Shifted(n, shift, shift \div LimbBits + j)
           = ((n[j] * R!Pow(2, shift % LimbBits)) % R!Base) + Up(n, shift % LimbBits, j)
<1> DEFINE ws == shift \div LimbBits
           c == shift % LimbBits
<1>1. ws \in Int /\ c \in 0 .. LimbBits - 1
  BY Limbed, Divided
<1>2. (ws + j) - ws = j /\ j \in Nat
  BY <1>1
<1>3. R!Shifted(n, shift, ws + j)
        = ((n[j] * R!Pow(2, c)) % R!Base)
            + (IF j \in 1..KeyLimbs /\ c > 0 THEN n[j - 1] \div R!Pow(2, LimbBits - c) ELSE 0)
  BY <1>2 DEF R!Shifted
<1>4. (IF j \in 1..KeyLimbs /\ c > 0 THEN n[j - 1] \div R!Pow(2, LimbBits - c) ELSE 0) = Up(n, c, j)
  <2>1. j \in 0..KeyLimbs
    BY Limbed
  <2>2. c = 0 => Up(n, c, j) = 0
    BY <1>1, <2>1, UpRange
  <2>3. CASE j = 0
    BY <2>3 DEF Up
  <2>4. CASE j # 0
    <3>1. j \in 1..KeyLimbs
      BY <2>4, Limbed
    <3> HIDE DEF c
    <3>2. c # 0 => c > 0
      BY <1>1
    <3> QED
      BY <2>2, <2>4, <3>1, <3>2 DEF Up
  <2> QED
    BY <2>3, <2>4
<1> QED
  BY <1>3, <1>4

LEMMA ShiftedAbove ==
  ASSUME NEW n, Digits(n, KeyLimbs), NEW shift \in Nat
  PROVE  /\ R!Shifted(n, shift, shift \div LimbBits + KeyLimbs)
              = Up(n, shift % LimbBits, KeyLimbs)
         /\ \A x \in Nat : x > shift \div LimbBits + KeyLimbs => R!Shifted(n, shift, x) = 0
<1> DEFINE ws == shift \div LimbBits
           c == shift % LimbBits
<1> USE Limbed
<1>1. ws \in Int /\ c \in 0 .. LimbBits - 1
  BY Divided
<1>2. R!Shifted(n, shift, ws + KeyLimbs) = Up(n, c, KeyLimbs)
  <2>1. (ws + KeyLimbs) - ws = KeyLimbs /\ KeyLimbs \notin 0 .. KeyLimbs - 1 /\ KeyLimbs \in 1..KeyLimbs
    BY <1>1
  <2>2. R!Shifted(n, shift, ws + KeyLimbs)
          = 0 + (IF c > 0 THEN n[KeyLimbs - 1] \div R!Pow(2, LimbBits - c) ELSE 0)
    BY <2>1 DEF R!Shifted
  <2>3. KeyLimbs \in 0..KeyLimbs
    OBVIOUS
  <2>4. Up(n, c, KeyLimbs) \in 0 .. R!Pow(2, c) - 1 /\ (c = 0 => Up(n, c, KeyLimbs) = 0)
    BY <1>1, <2>3, UpRange
  <2>5. Up(n, c, KeyLimbs) = n[KeyLimbs - 1] \div R!Pow(2, LimbBits - c) /\ Up(n, c, KeyLimbs) \in Int
    BY <2>4, <1>1, PowStep DEF Up
  <2> HIDE DEF c
  <2>6. CASE c = 0
    BY <2>2, <2>4, <2>6
  <2>7. CASE c # 0
    <3>1. c > 0
      BY <1>1, <2>7
    <3> QED
      BY <2>2, <2>5, <3>1
  <2> QED
    BY <2>6, <2>7
<1>3. ASSUME NEW x \in Nat, x > ws + KeyLimbs PROVE R!Shifted(n, shift, x) = 0
  <2>1. x - ws \notin 0 .. KeyLimbs - 1 /\ x - ws \notin 1..KeyLimbs
    BY <1>1, <1>3
  <2> QED
    BY <2>1 DEF R!Shifted
<1> QED
  BY <1>2, <1>3

LEMMA WeightSum ==
  ASSUME NEW n \in Nat, NEW m \in Nat
  PROVE  W(n + m) = W(n) * W(m)
  BY PowSum, BaseIsNat DEF W

LEMMA RaisedDigits ==
  ASSUME NEW n, Digits(n, KeyLimbs), NEW shift \in Nat, NEW m \in Nat
  PROVE  Digits(Raised(n, shift), m)
<1> USE Limbed
<1> DEFINE ws == shift \div LimbBits
           c == shift % LimbBits
           u == R!Pow(2, c)
<1>1. ws \in Int /\ c \in 0 .. LimbBits - 1
  BY Divided
<1>2. u \in Nat \ {0} /\ R!Base \in Nat /\ u <= R!Base
  <2>1. (0 * u) % R!Base \in 0 .. R!Base - u /\ u \in Nat \ {0}
    <3>1. 0 \in 0 .. R!Base - 1
      BY BaseIsNat
    <3> QED
      BY <1>1, <3>1, LimbShift
  <2> QED
    BY <2>1, BaseIsNat
<1>3. ASSUME NEW x \in 0 .. m - 1, x >= ws
      PROVE  R!Shifted(n, shift, x) \in 0 .. R!Base - 1
  <2> DEFINE j == x - ws
  <2>1. j \in Nat /\ x = ws + j /\ x \in Nat
    BY <1>1, <1>3
  <2>2. CASE j < KeyLimbs
    <3>1. j \in 0 .. KeyLimbs - 1 /\ j \in 0..KeyLimbs
      BY <2>1, <2>2
    <3> DEFINE l == (n[j] * u) % R!Base
               h == Up(n, c, j)
    <3>2. n[j] \in 0 .. R!Base - 1
      BY <3>1 DEF Digits
    <3>3. l \in 0 .. R!Base - u
      BY <1>1, <3>2, LimbShift
    <3>4. h \in 0 .. u - 1
      BY <1>1, <3>1, UpRange
    <3>5. R!Shifted(n, shift, ws + j) = l + h
      BY <3>1, ShiftedLimb
    <3> HIDE DEF l, h, u, ws, j
    <3>6. l + h \in 0 .. R!Base - 1
      BY <1>2, <3>3, <3>4
    <3> QED
      BY <2>1, <3>5, <3>6
  <2>3. CASE j = KeyLimbs
    <3>1. KeyLimbs \in 0..KeyLimbs
      OBVIOUS
    <3> DEFINE h == Up(n, c, KeyLimbs)
    <3>2. h \in 0 .. u - 1
      BY <1>1, <3>1, UpRange
    <3>3. R!Shifted(n, shift, ws + KeyLimbs) = h
      BY ShiftedAbove
    <3> HIDE DEF h, u, ws
    <3>4. h \in 0 .. R!Base - 1
      BY <1>2, <3>2
    <3> QED
      BY <2>1, <2>3, <3>3, <3>4
  <2>4. CASE j > KeyLimbs
    <3>1. R!Shifted(n, shift, x) = 0
      <4>1. x > ws + KeyLimbs
        BY <1>1, <2>1, <2>4
      <4> QED
        BY <2>1, <4>1, ShiftedAbove
    <3> QED
      BY <3>1, BaseIsNat
  <2> QED
    BY <2>1, <2>2, <2>3, <2>4
<1>4. ASSUME NEW x \in 0 .. m - 1 PROVE Raised(n, shift)[x] \in 0 .. R!Base - 1
  <2>1. CASE x < ws
    BY <2>1, BaseIsNat DEF Raised
  <2>2. CASE ~(x < ws)
    <3>1. R!Shifted(n, shift, x) \in 0 .. R!Base - 1
      BY <1>1, <1>3, <2>2
    <3> QED
      BY <2>2, <3>1 DEF Raised
  <2> QED
    BY <2>1, <2>2
<1> QED
  BY <1>4 DEF Digits

(* The limbs of n << shift are those of n * 2^shift.                        *)
LEMMA RaisedNumber ==
  ASSUME NEW n, Digits(n, KeyLimbs), NEW shift \in Nat,
         NEW m \in Nat, shift \div LimbBits + KeyLimbs + 1 <= m
  PROVE  R!Number(Raised(n, shift), m) = R!Number(n, KeyLimbs) * R!Pow(2, shift)
<1> USE Limbed
<1> DEFINE ws == shift \div LimbBits
           c == shift % LimbBits
           u == R!Pow(2, c)
           a == Raised(n, shift)
           ww == W(ws)
           Sum(j) == R!Number(a, ws + j) + Up(n, c, j) * W(ws + j)
           Due(j) == R!Number(n, j) * u * ww
           D == {j \in Nat : j <= KeyLimbs => Sum(j) = Due(j)}
<1>1. ws \in Int /\ c \in 0 .. LimbBits - 1 /\ shift = LimbBits * ws + c
  BY Divided, SMTT(30)
<1>2. ws \in Nat
  <2> HIDE DEF ws, c
  <2>1. ws < 0 => LimbBits * ws <= -LimbBits
    BY <1>1, SMT
  <2> QED
    BY <1>1, <2>1
<1>3. Digits(a, m)
  BY RaisedDigits
<1>4. /\ u \in Nat \ {0} /\ ww \in Nat \ {0} /\ m \in Nat
      /\ c \in Nat /\ LimbBits * ws \in Nat
  <2> HIDE DEF ws, c
  <2>1. c \in Nat /\ LimbBits * ws \in Nat
    BY <1>1, <1>2
  <2>2. u \in Nat \ {0}
    BY <2>1, PowPositive
  <2>3. ww \in Nat \ {0}
    BY <1>2, Weights
  <2> QED
    BY <2>1, <2>2, <2>3
<1>5. 0 \in D
  <2>1. R!Number(n, 0) = 0 /\ Up(n, c, 0) = 0
    BY Nothing DEF Up
  <2>2. R!Number(a, ws) = 0
    <3>1. ws \in 0 .. m /\ 0 \in Nat
      BY <1>2
    <3>2. Digits(a, ws)
      BY <1>3, <3>1, DigitsLess
    <3>3. \A j \in 0 .. ws - 1 : a[j] = 0
      BY <1>2, <3>1 DEF Raised
    <3> HIDE DEF a, ws
    <3>4. R!Number(a, ws) = R!Number(a, 0)
      BY <1>2, <3>1, <3>2, <3>3, NumberPad
    <3> QED
      BY <3>4, Nothing
  <2> HIDE DEF ws, u, c, a
  <2>3. ws + 0 = ws /\ 0 * W(ws) = 0 /\ 0 * u * ww = 0
    BY <1>2, <1>4, Weights
  <2> QED
    BY <2>1, <2>2, <2>3
<1>6. ASSUME NEW j \in Nat, j \in D PROVE j + 1 \in D
  <2> SUFFICES ASSUME j + 1 <= KeyLimbs PROVE Sum(j + 1) = Due(j + 1)
    OBVIOUS
  <2>1. j \in 0 .. KeyLimbs - 1 /\ ws + j \in Nat /\ ws + (j + 1) = (ws + j) + 1
        /\ ws + j + 1 <= m /\ ws + j \in 0 .. m - 1
    BY <1>2
  <2>2. Sum(j) = Due(j)
    BY <1>6
  <2> DEFINE d == n[j]
             l == (d * u) % R!Base
             h == d \div R!Pow(2, LimbBits - c)
             p == Up(n, c, j)
             w == W(ws + j)
             wj == W(j)
             y == R!Number(n, j)
             z == R!Number(a, ws + j)
             b == R!Base
  <2>3. d \in 0 .. b - 1 /\ b \in Nat \ {0}
    BY <2>1, BaseIsNat DEF Digits
  <2>4. d * u = b * h + l /\ h \in Int /\ l \in Int
    <3>1. /\ h \in 0 .. u - 1 /\ l \in 0 .. b - u /\ d * u = b * h + l
      BY <1>1, <2>3, LimbShift
    <3> QED
      BY <3>1, <1>4, <2>3
  <2>5. Up(n, c, j + 1) = h
    BY <2>1 DEF Up
  <2>6. a[ws + j] = l + p /\ p \in Int
    <3>1. R!Shifted(n, shift, ws + j) = l + p
      BY <2>1, ShiftedLimb
    <3>2. a[ws + j] = R!Shifted(n, shift, ws + j)
      BY <1>2, <2>1 DEF Raised
    <3>3. p \in 0 .. u - 1
      <4>1. j \in 0..KeyLimbs
        BY <2>1
      <4> QED
        BY <1>1, <4>1, UpRange
    <3> QED
      BY <1>4, <3>1, <3>2, <3>3
  <2>7. R!Number(a, (ws + j) + 1) = z + a[ws + j] * w /\ z \in Int
    <3>1. Digits(a, (ws + j) + 1)
      <4>1. (ws + j) + 1 \in 0 .. m
        BY <1>2, <2>1
      <4> QED
        BY <1>3, <4>1, DigitsLess
    <3> HIDE DEF a
    <3> QED
      BY <2>1, <3>1, NumberStep
  <2>8. R!Number(n, j + 1) = y + d * wj /\ y \in Int
    <3>1. Digits(n, j + 1)
      BY <2>1, DigitsLess
    <3> QED
      BY <3>1, NumberStep
  <2>9. W((ws + j) + 1) = w * b /\ w = ww * wj /\ w \in Int /\ wj \in Int
    <3>1. W(ws + j) = W(ws) * W(j)
      <4> HIDE DEF ws
      <4> QED
        BY <1>2, WeightSum
    <3> QED
      BY <2>1, <3>1, Weights
  <2>10. Sum(j + 1) = z + (l + p) * w + h * (w * b)
    BY <2>1, <2>5, <2>6, <2>7, <2>9
  <2>11. Due(j + 1) = (y + d * wj) * u * ww /\ z + p * w = y * u * ww
    BY <2>2, <2>8
  <2> HIDE DEF d, l, h, p, w, wj, y, z, b, u, ww, Sum, Due
  <2>12. (l + p) * w + h * (w * b) = p * w + (b * h + l) * w
    BY <2>3, <2>4, <2>6, <2>9, SMT
  <2>13. (y + d * wj) * u * ww = y * u * ww + (d * u) * (ww * wj)
    BY <1>4, <2>3, <2>8, <2>9, SMT
  <2> DEFINE m1 == (l + p) * w
             m2 == h * (w * b)
             m3 == p * w
             m4 == (b * h + l) * w
             m5 == y * u * ww
  <2>14. m1 \in Int /\ m2 \in Int /\ m3 \in Int /\ m4 \in Int /\ m5 \in Int
    BY <1>4, <2>3, <2>4, <2>6, <2>8, <2>9, SMT
  <2>15. (y + d * wj) * u * ww = m5 + m4
    BY <2>4, <2>9, <2>13
  <2>16. m1 + m2 = m3 + m4 /\ z + m3 = m5
    BY <2>11, <2>12
  <2>17. Sum(j + 1) = z + m1 + m2 /\ Due(j + 1) = m5 + m4
    BY <2>10, <2>11, <2>15
  <2> HIDE DEF m1, m2, m3, m4, m5
  <2> QED
    BY <2>7, <2>14, <2>16, <2>17
<1> HIDE DEF D
<1>7. KeyLimbs \in D
  BY <1>5, <1>6, SetInduction
<1>8. Sum(KeyLimbs) = Due(KeyLimbs)
  BY <1>7 DEF D
<1> DEFINE top == ws + KeyLimbs
<1>9. top \in Nat /\ top + 1 \in 0 .. m /\ top \in 0 .. m - 1
  BY <1>2
<1>10. R!Number(a, top + 1) = Sum(KeyLimbs)
  <2>1. Digits(a, top + 1)
    BY <1>3, <1>9, DigitsLess
  <2>2. a[top] = Up(n, c, KeyLimbs)
    <3>1. a[top] = R!Shifted(n, shift, top)
      BY <1>2, <1>9 DEF Raised
    <3> QED
      BY <3>1, ShiftedAbove
  <2>3. R!Number(a, top + 1) = R!Number(a, top) + a[top] * W(top)
    <3> HIDE DEF a, top
    <3> QED
      BY <1>9, <2>1, NumberStep
  <2> QED
    BY <2>2, <2>3
<1>11. R!Number(a, m) = R!Number(a, top + 1)
  <2>1. \A x \in top + 1 .. m - 1 : a[x] = 0
    <3> SUFFICES ASSUME NEW x \in top + 1 .. m - 1 PROVE a[x] = 0
      OBVIOUS
    <3>1. x \in Nat /\ x > ws + KeyLimbs /\ x \in 0 .. m - 1 /\ ~(x < ws)
      BY <1>2, <1>9
    <3>2. R!Shifted(n, shift, x) = 0
      BY <3>1, ShiftedAbove
    <3> QED
      BY <3>1, <3>2 DEF Raised
  <2>2. Digits(a, m) /\ top + 1 <= m /\ top + 1 \in Nat
    BY <1>3, <1>4, <1>9, DigitsLess
  <2> HIDE DEF a, top
  <2> QED
    BY <2>1, <2>2, NumberPad
<1>12. u * ww = R!Pow(2, shift)
  <2>1. ww = R!Pow(2, LimbBits * ws)
    BY <1>2, WeightIsPower
  <2> DEFINE e == LimbBits * ws
  <2>2. R!Pow(2, e + c) = R!Pow(2, e) * u
    <3> HIDE DEF e, c
    <3>1. e \in Nat /\ c \in Nat
      BY <1>4 DEF e
    <3> QED
      BY <3>1, PowSum
  <2>3. R!Pow(2, e) * u = u * R!Pow(2, e)
    BY <1>4, <2>1
  <2> QED
    BY <1>1, <2>1, <2>2, <2>3
<1>13. Due(KeyLimbs) = R!Number(n, KeyLimbs) * (u * ww)
  <2>1. R!Number(n, KeyLimbs) \in Int
    BY NumberIsInt
  <2> HIDE DEF u, ww
  <2> QED
    BY <1>4, <2>1, Associates
<1> QED
  BY <1>8, <1>10, <1>11, <1>12, <1>13

(* The limbs of n << shift inside the accumulator.                          *)
Top(shift) ==
  IF shift \div LimbBits + KeyLimbs + 1 <= 2 * MaxLimbs THEN shift \div LimbBits + KeyLimbs + 1
  ELSE 2 * MaxLimbs

(* n << shift begins in the accumulator, and fits in it.                    *)
Reaches(shift) == shift \div LimbBits \in Nat /\ shift \div LimbBits <= 2 * MaxLimbs

FitsAcc(n, shift) == R!Number(n, KeyLimbs) * R!Pow(2, shift) < W(2 * MaxLimbs)

LEMMA TopRange ==
  ASSUME NEW shift \in Nat, Reaches(shift)
  PROVE  /\ Top(shift) \in Nat /\ Top(shift) <= 2 * MaxLimbs /\ shift \div LimbBits <= Top(shift)
         /\ Top(shift) <= shift \div LimbBits + KeyLimbs + 1
<1> DEFINE ws == shift \div LimbBits
<1>1. ws \in Nat /\ ws <= 2 * MaxLimbs
  BY DEF Reaches
<1>2. Top(shift) = IF ws + KeyLimbs + 1 <= 2 * MaxLimbs THEN ws + KeyLimbs + 1 ELSE 2 * MaxLimbs
  BY DEF Top
<1> HIDE DEF ws
<1>3. /\ Top(shift) \in Nat /\ Top(shift) <= 2 * MaxLimbs /\ ws <= Top(shift)
      /\ Top(shift) <= ws + KeyLimbs + 1
  BY <1>1, <1>2, Limbed
<1> QED
  BY <1>3 DEF ws

LEMMA RaisedTail ==
  ASSUME NEW n, Digits(n, KeyLimbs), NEW shift \in Nat, Reaches(shift), FitsAcc(n, shift),
         NEW z \in Nat, shift \div LimbBits + KeyLimbs + 1 <= z, 2 * MaxLimbs <= z
  PROVE  /\ R!Number(Raised(n, shift), 2 * MaxLimbs) = R!Number(n, KeyLimbs) * R!Pow(2, shift)
         /\ \A x \in 2 * MaxLimbs .. z - 1 : Raised(n, shift)[x] = 0
<1> DEFINE M2 == 2 * MaxLimbs
           a == Raised(n, shift)
           due == R!Number(n, KeyLimbs) * R!Pow(2, shift)
<1>1. M2 \in 0..z /\ Digits(a, z)
  BY Limbed, RaisedDigits
<1>2. R!Number(a, z) = due /\ due < W(M2)
  BY RaisedNumber DEF FitsAcc
<1> HIDE DEF M2, a, due
<1>3. R!Number(a, M2) = R!Number(a, z) /\ \A x \in M2 .. z - 1 : a[x] = 0
  BY <1>1, <1>2, NumberTail
<1> QED
  BY <1>2, <1>3 DEF M2, a, due

(* Above them n << shift has nothing but zeros.                             *)
LEMMA RaisedZero ==
  ASSUME NEW n, Digits(n, KeyLimbs), NEW shift \in Nat, Reaches(shift), FitsAcc(n, shift),
         NEW x \in Nat, Top(shift) <= x
  PROVE  Raised(n, shift)[x] = 0
<1> DEFINE ws == shift \div LimbBits
           M2 == 2 * MaxLimbs
<1>1. ws \in Nat /\ ws <= M2 /\ M2 \in Nat
  BY Limbed DEF Reaches
<1>2. CASE ws + KeyLimbs + 1 <= M2
  <2>1. Top(shift) = ws + KeyLimbs + 1
    BY <1>2 DEF Top
  <2>2. x > ws + KeyLimbs /\ ~(x < ws)
    <3> HIDE DEF ws
    <3> QED
      BY <1>1, <2>1, Limbed
  <2>3. R!Shifted(n, shift, x) = 0
    BY <2>2, ShiftedAbove
  <2> QED
    BY <2>2, <2>3 DEF Raised
<1>3. CASE ~(ws + KeyLimbs + 1 <= M2)
  <2>1. Top(shift) = M2
    BY <1>3 DEF Top
  <2> DEFINE z == x + ws + KeyLimbs + 1
  <2>2. z \in Nat /\ ws + KeyLimbs + 1 <= z /\ M2 <= z /\ x \in M2 .. z - 1
    <3> HIDE DEF ws, M2
    <3> QED
      BY <1>1, <2>1, Limbed
  <2> HIDE DEF z
  <2> QED
    BY <2>2, RaisedTail
<1> QED
  BY <1>2, <1>3

LEMMA RaisedTop ==
  ASSUME NEW n, Digits(n, KeyLimbs), NEW shift \in Nat, Reaches(shift), FitsAcc(n, shift),
         NEW m \in Nat, Top(shift) <= m
  PROVE  R!Number(Raised(n, shift), m) = R!Number(n, KeyLimbs) * R!Pow(2, shift)
<1> DEFINE ws == shift \div LimbBits
           M2 == 2 * MaxLimbs
           a == Raised(n, shift)
<1>1. ws \in Nat /\ ws <= M2 /\ M2 \in Nat
  BY Limbed DEF Reaches
<1>2. CASE ws + KeyLimbs + 1 <= M2
  <2>1. ws + KeyLimbs + 1 <= m
    BY <1>2 DEF Top
  <2> QED
    BY <2>1, RaisedNumber
<1>3. CASE ~(ws + KeyLimbs + 1 <= M2)
  <2>1. Top(shift) = M2 /\ M2 <= m
    BY <1>3 DEF Top
  <2> DEFINE z == ws + KeyLimbs + 1
  <2>2. z \in Nat /\ ws + KeyLimbs + 1 <= z /\ M2 <= z
    <3> HIDE DEF ws, M2
    <3> QED
      BY <1>1, <1>3, Limbed
  <2> HIDE DEF z
  <2>3. R!Number(a, M2) = R!Number(n, KeyLimbs) * R!Pow(2, shift)
    BY <2>2, RaisedTail
  <2>4. \A x \in M2 .. m - 1 : a[x] = 0
    <3> SUFFICES ASSUME NEW x \in M2 .. m - 1 PROVE a[x] = 0
      OBVIOUS
    <3>1. x \in Nat /\ M2 <= x
      <4> HIDE DEF M2
      <4> QED
        BY <1>1
    <3> QED
      BY <2>1, <3>1, RaisedZero
  <2>5. Digits(a, m)
    BY RaisedDigits
  <2> HIDE DEF a, M2
  <2>6. R!Number(a, m) = R!Number(a, M2)
    BY <1>1, <2>1, <2>4, <2>5, NumberPad
  <2> QED
    BY <2>3, <2>6 DEF a
<1> QED
  BY <1>2, <1>3

Accumulator == [0 .. 2 * MaxLimbs - 1 -> 0 .. R!Base - 1]

Borrowed == [acc : Accumulator, borrow : 0..1]

LEMMA AccDigits == ASSUME NEW acc \in Accumulator PROVE Digits(acc, 2 * MaxLimbs)
  BY DEF Accumulator, Digits

LimbTaken(n, shift, s, x, t, m) ==
  /\ \A h \in 0 .. m - 1 : h # x => t.acc[h] = s.acc[h]
  /\ R!Number(t.acc, m) + Raised(n, shift)[x] * W(x) - t.borrow * W(x + 1)
       = R!Number(s.acc, m) - s.borrow * W(x)

LEMMA MinusTakes ==
  ASSUME NEW n, Digits(n, KeyLimbs), NEW shift \in Nat, NEW s \in Borrowed,
         NEW x \in 0 .. 2 * MaxLimbs - 1, shift \div LimbBits <= x
  PROVE  /\ R!Minus(n, shift, s, x) \in Borrowed
         /\ LimbTaken(n, shift, s, x, R!Minus(n, shift, s, x), 2 * MaxLimbs)
<1> USE Limbed
<1> DEFINE b == R!Base
           M2 == 2 * MaxLimbs
           d == Raised(n, shift)[x]
           old == s.acc
           u == old[x]
           c == s.borrow
           v == u - d - c
           l == v % b
           e == IF v < 0 THEN 1 ELSE 0
           t == [old EXCEPT ![x] = l]
<1>1. b \in Nat \ {0} /\ x \in Nat /\ M2 \in Nat /\ x \in 0 .. M2 - 1
  BY BaseIsNat
<1>2. old \in Accumulator /\ c \in 0..1 /\ u \in 0 .. b - 1
  BY DEF Borrowed, Accumulator
<1>3. d \in 0 .. b - 1 /\ d = R!Shifted(n, shift, x)
  <2>1. d \in 0 .. b - 1
    <3>1. Digits(Raised(n, shift), M2)
      BY <1>1, RaisedDigits
    <3> QED
      BY <1>1, <3>1 DEF Digits
  <2>2. ~(x < shift \div LimbBits)
    BY <1>1, Divided
  <2>3. d = R!Shifted(n, shift, x)
    BY <1>1, <2>2 DEF Raised
  <2> QED
    BY <2>1, <2>3
<1>4. R!Minus(n, shift, s, x) = [acc |-> t, borrow |-> e]
  BY <1>3 DEF R!Minus
<1>5. l \in 0 .. b - 1 /\ l = v + b * e /\ e \in 0..1
  <2> HIDE DEF b, d, u, c
  <2>1. v \in Int /\ -b <= v /\ v <= b - 1
    BY <1>1, <1>2, <1>3
  <2> HIDE DEF v
  <2>2. CASE v < 0
    <3>1. e = 1
      BY <2>2
    <3> DEFINE q == -1
               y == v + b
    <3>2. v = b * q + y /\ y \in 0 .. b - 1 /\ q \in Int
      BY <1>1, <2>1, <2>2
    <3> HIDE DEF q, y
    <3>3. l = y
      BY <1>1, <2>1, <3>2, Quotient
    <3> USE DEF y
    <3> QED
      BY <1>1, <3>1, <3>2, <3>3
  <2>3. CASE ~(v < 0)
    <3>1. e = 0
      BY <2>3
    <3>2. v \in 0 .. b - 1
      BY <1>1, <2>1, <2>3
    <3>3. l = v
      BY <1>1, <3>2, SmallMod
    <3> QED
      BY <1>1, <3>1, <3>2, <3>3
  <2> QED
    BY <2>2, <2>3
<1>6. t \in Accumulator /\ t[x] = l /\ \A h \in 0 .. M2 - 1 : h # x => t[h] = old[h]
  BY <1>1, <1>2, <1>5 DEF Accumulator
<1>7. R!Number(t, M2) = R!Number(old, M2) + (l - u) * W(x)
  <2>1. Digits(t, M2) /\ Digits(old, M2)
    BY <1>2, <1>6, AccDigits
  <2> HIDE DEF t, old, M2, l
  <2>2. R!Number(t, M2) = R!Number(old, M2) + (t[x] - old[x]) * W(x)
    BY <1>1, <1>6, <2>1, NumberSet
  <2> QED
    BY <1>6, <2>2
<1>8. R!Number(t, M2) + d * W(x) - e * W(x + 1) = R!Number(old, M2) - c * W(x)
  <2> DEFINE num == R!Number(old, M2)
             w == W(x)
  <2>1. num \in Int /\ w \in Int /\ W(x + 1) = w * b
    <3>1. num \in Nat
      <4>1. Digits(old, M2)
        BY <1>2, AccDigits
      <4> QED
        BY <1>1, <4>1, NumberIsInt
    <3> QED
      BY <1>1, <3>1, Weights
  <2>2. l = u - d - c + b * e
    BY <1>5
  <2>3. /\ u \in Int /\ d \in Int /\ c \in Int /\ e \in Int /\ l \in Int /\ b \in Int
    BY <1>1, <1>2, <1>3, <1>5
  <2> HIDE DEF num, w, l, u, d, c, e, b
  <2>4. (l - u) * w + d * w - e * (w * b) = -(c * w)
    <3>1. l - u = b * e - d - c
      BY <2>2, <2>3
    <3>2. (b * e - d - c) * w + d * w - e * (w * b) = -(c * w)
      BY <2>1, <2>3, SMT
    <3> QED
      BY <3>1, <3>2
  <2> DEFINE m1 == (l - u) * w
             m2 == d * w
             m3 == e * (w * b)
             m4 == c * w
  <2>5. m1 \in Int /\ m2 \in Int /\ m3 \in Int /\ m4 \in Int
    BY <2>1, <2>3, SMT
  <2>6. m1 + m2 - m3 = -m4
    BY <2>4
  <2>7. R!Number(t, M2) = num + m1
    BY <1>7 DEF num, w, u
  <2> HIDE DEF m1, m2, m3, m4
  <2>8. num + m1 + m2 - m3 = num - m4
    BY <2>1, <2>5, <2>6
  <2> QED
    BY <2>1, <2>7, <2>8 DEF m2, m3, m4, num, w
<1> HIDE DEF t, e
<1> QED
  BY <1>4, <1>5, <1>6, <1>8 DEF Borrowed, LimbTaken

Todo(shift) ==
  IF shift \div LimbBits + KeyLimbs + 2 <= 2 * MaxLimbs THEN KeyLimbs + 2
  ELSE 2 * MaxLimbs - shift \div LimbBits

LEMMA TodoRange ==
  ASSUME NEW shift \in Nat, Reaches(shift)
  PROVE  /\ Todo(shift) \in Nat /\ Top(shift) <= shift \div LimbBits + Todo(shift)
         /\ shift \div LimbBits + Todo(shift) <= 2 * MaxLimbs
<1> DEFINE ws == shift \div LimbBits
<1>1. ws \in Nat /\ ws <= 2 * MaxLimbs
  BY DEF Reaches
<1>2. /\ Todo(shift) = IF ws + KeyLimbs + 2 <= 2 * MaxLimbs THEN KeyLimbs + 2 ELSE 2 * MaxLimbs - ws
      /\ Top(shift) = IF ws + KeyLimbs + 1 <= 2 * MaxLimbs THEN ws + KeyLimbs + 1 ELSE 2 * MaxLimbs
  BY DEF Top, Todo
<1> HIDE DEF ws
<1>3. Todo(shift) \in Nat /\ Top(shift) <= ws + Todo(shift) /\ ws + Todo(shift) <= 2 * MaxLimbs
  BY <1>1, <1>2, Limbed
<1> QED
  BY <1>3 DEF ws

SubtractEnd(acc, n, shift) ==
  R!Loop(LAMBDA s, h : R!Minus(n, shift, s, shift \div LimbBits + h),
         [acc |-> acc, borrow |-> 0], Todo(shift))

SubtractRuns(f, acc, n, shift) ==
  /\ SubtractEnd(acc, n, shift) = f[Todo(shift)] /\ f[0] = [acc |-> acc, borrow |-> 0]
  /\ \A m \in 0 .. Todo(shift) - 1 : f[m + 1] = R!Minus(n, shift, f[m], shift \div LimbBits + m)

LEMMA SubtractLoop ==
  ASSUME NEW n, NEW shift \in Nat, NEW acc \in Accumulator, Digits(n, KeyLimbs), Reaches(shift)
  PROVE  \E f \in [0..Todo(shift) -> Borrowed] : SubtractRuns(f, acc, n, shift)
<1> USE TodoRange
<1> DEFINE Initial == [acc |-> acc, borrow |-> 0]
           After(v, m) == R!Minus(n, shift, v, shift \div LimbBits + m)
           Follows(f) == f[0] = Initial /\ \A m \in 0 .. Todo(shift) - 1 : f[m + 1] = After(f[m], m)
           g == [p \in (0 .. Todo(shift) - 1) \X Borrowed |-> After(p[2], p[1])]
           All(h) == [m \in 0..Todo(shift) |-> IF m = 0 THEN Initial ELSE After(h[m - 1], m - 1)]
           F == CHOOSE h : h = All(h)
<1>1. \E f \in [0..Todo(shift) -> Borrowed] : Follows(f)
  <2>1. \A m \in 0 .. Todo(shift) - 1, v \in Borrowed : After(v, m) \in Borrowed
    <3> SUFFICES ASSUME NEW m \in 0 .. Todo(shift) - 1, NEW v \in Borrowed
                 PROVE  R!Minus(n, shift, v, shift \div LimbBits + m) \in Borrowed
      OBVIOUS
    <3> DEFINE x == shift \div LimbBits + m
    <3>1. x \in 0 .. 2 * MaxLimbs - 1 /\ shift \div LimbBits <= x
      <4> DEFINE ws == shift \div LimbBits
                 td == Todo(shift)
      <4>1. ws \in Nat /\ td \in Nat /\ ws + td <= 2 * MaxLimbs /\ m \in 0 .. td - 1
        BY TodoRange DEF Reaches
      <4> HIDE DEF ws, td
      <4>2. ws + m \in 0 .. 2 * MaxLimbs - 1 /\ ws <= ws + m
        BY <4>1, Limbed
      <4> QED
        BY <4>2 DEF ws
    <3> HIDE DEF x
    <3>2. R!Minus(n, shift, v, x) \in Borrowed
      BY <3>1, MinusTakes
    <3> QED
      BY <3>2 DEF x
  <2>2. g \in [(0 .. Todo(shift) - 1) \X Borrowed -> Borrowed]
    BY <2>1
  <2>3. \A m \in 0 .. Todo(shift) - 1, v \in Borrowed : g[<<m, v>>] = After(v, m)
    OBVIOUS
  <2> HIDE DEF g
  <2>4. PICK f \in [0..Todo(shift) -> Borrowed] : Runs(f, Initial, g, Todo(shift))
    <3>1. Initial \in Borrowed /\ Todo(shift) \in Nat
      BY DEF Borrowed
    <3> QED
      BY <2>2, <3>1, LoopExists, Zenon
  <2>5. ASSUME NEW m \in 0 .. Todo(shift) - 1 PROVE f[m + 1] = After(f[m], m)
    <3>1. f[m] \in Borrowed
      OBVIOUS
    <3> QED
      BY <2>3, <2>4, <3>1 DEF Runs
  <2> QED
    BY <2>4, <2>5 DEF Runs
<1>2. PICK f \in [0..Todo(shift) -> Borrowed] : Follows(f)
  BY <1>1
<1>3. f = All(f)
  <2>1. ASSUME NEW m \in 0..Todo(shift) PROVE f[m] = All(f)[m]
    <3>1. CASE m = 0
      BY <1>2, <3>1
    <3>2. CASE m # 0
      <4>1. m - 1 \in 0 .. Todo(shift) - 1 /\ (m - 1) + 1 = m
        BY <3>2
      <4> QED
        BY <1>2, <3>2, <4>1
    <3> QED
      BY <3>1, <3>2
  <2> QED
    BY <2>1
<1>4. F = All(F)
  BY <1>3
<1>5. SubtractEnd(acc, n, shift) = F[Todo(shift)]
  BY DEF SubtractEnd, R!Loop
<1> HIDE DEF F
<1>6. F \in [0..Todo(shift) -> Borrowed] /\ Follows(F)
  <2>1. Follows(F)
    BY <1>4
  <2>2. \A m \in 0..Todo(shift) : F[m] = f[m]
    <3>1. Alike(F, f, Todo(shift))
      BY <1>2, <2>1 DEF Alike
    <3> QED
      BY <3>1, SameLoop
  <2> QED
    BY <1>4, <2>1, <2>2
<1> QED
  BY <1>5, <1>6 DEF SubtractRuns

(* Without a borrow left over, the difference; and there is none.           *)
LEMMA SubtractTakes ==
  ASSUME NEW n, Digits(n, KeyLimbs), NEW shift \in Nat, Reaches(shift), NEW acc \in Accumulator,
         R!Number(acc, 2 * MaxLimbs) < W(Top(shift)),
         R!Number(n, KeyLimbs) * R!Pow(2, shift) <= R!Number(acc, 2 * MaxLimbs)
  PROVE  /\ R!Subtract(acc, n, shift) \in Accumulator
         /\ R!Number(R!Subtract(acc, n, shift), 2 * MaxLimbs)
              = R!Number(acc, 2 * MaxLimbs) - R!Number(n, KeyLimbs) * R!Pow(2, shift)
<1> USE Limbed
<1> DEFINE ws == shift \div LimbBits
           td == Todo(shift)
           M2 == 2 * MaxLimbs
           num == R!Number(acc, M2)
           a == Raised(n, shift)
           due == R!Number(n, KeyLimbs) * R!Pow(2, shift)
<1>1. /\ ws \in Nat /\ td \in Nat /\ Top(shift) <= ws + td /\ ws + td <= M2 /\ M2 \in Nat
      /\ Top(shift) \in Nat /\ Top(shift) <= M2
  BY TodoRange, TopRange DEF Reaches
<1>2. PICK f \in [0..td -> Borrowed] : SubtractRuns(f, acc, n, shift)
  BY SubtractLoop
<1>3. /\ SubtractEnd(acc, n, shift) = f[td] /\ f[0] = [acc |-> acc, borrow |-> 0]
      /\ \A m \in 0 .. td - 1 : f[m + 1] = R!Minus(n, shift, f[m], ws + m)
  BY <1>2 DEF SubtractRuns
<1>4. Digits(acc, M2) /\ Digits(a, M2) /\ num \in Nat
  BY <1>1, AccDigits, RaisedDigits, NumberIsInt
<1> DEFINE Left(m) == R!Number(f[m].acc, M2) + R!Number(a, ws + m) - f[m].borrow * W(ws + m)
           Same(m) == \A h \in ws + m .. M2 - 1 : f[m].acc[h] = acc[h]
           D == {m \in Nat : m <= td => Left(m) = num /\ Same(m)}
<1>5. 0 \in D
  <2>1. f[0].acc = acc /\ f[0].borrow = 0
    BY <1>3
  <2>2. R!Number(a, ws) = 0
    <3>1. \A j \in 0 .. ws - 1 : a[j] = 0
      BY <1>1 DEF Raised
    <3>2. ws \in 0..M2 /\ 0 \in Nat
      BY <1>1
    <3>3. Digits(a, ws)
      BY <1>1, <1>4, <3>2, DigitsLess
    <3> HIDE DEF a, ws
    <3>4. R!Number(a, ws) = R!Number(a, 0)
      BY <1>1, <3>1, <3>3, NumberPad
    <3> QED
      BY <3>4, Nothing
  <2> HIDE DEF ws, a, num
  <2>3. ws + 0 = ws /\ 0 * W(ws) = 0 /\ num + 0 - 0 = num
    BY <1>1, <1>4, Weights
  <2>4. Left(0) = num
    BY <2>1, <2>2, <2>3 DEF num
  <2>5. Same(0)
    BY <2>1
  <2> QED
    BY <2>4, <2>5
<1>6. ASSUME NEW m \in Nat, m \in D PROVE m + 1 \in D
  <2> SUFFICES ASSUME m + 1 <= td PROVE Left(m + 1) = num /\ Same(m + 1)
    OBVIOUS
  <2> DEFINE x == ws + m
             s == f[m]
             t == f[m + 1]
  <2>1. m \in 0 .. td - 1 /\ x \in 0 .. M2 - 1 /\ x \in Nat /\ ws <= x /\ ws + (m + 1) = x + 1
    <3> HIDE DEF ws, td, M2
    <3> QED
      BY <1>1
  <2>2. s \in Borrowed /\ t \in Borrowed /\ t = R!Minus(n, shift, s, x)
    <3>1. m + 1 \in 0..td /\ m \in 0..td
      <4> HIDE DEF td
      <4> QED
        BY <1>1
    <3> QED
      BY <1>3, <2>1, <3>1
  <2>3. LimbTaken(n, shift, s, x, t, M2)
    <3> HIDE DEF s, t, x
    <3> QED
      BY <2>1, <2>2, MinusTakes
  <2>4. Left(m) = num /\ Same(m)
    <3>1. m <= td
      <4> HIDE DEF td
      <4> QED
        BY <1>1
    <3> HIDE DEF Left, Same, num
    <3> QED
      BY <1>6, <3>1
  <2>5. Same(m + 1)
    <3> SUFFICES ASSUME NEW h \in x + 1 .. M2 - 1 PROVE t.acc[h] = acc[h]
      BY <2>1
    <3>1. h \in 0 .. M2 - 1 /\ h # x /\ h \in ws + m .. M2 - 1
      <4> HIDE DEF ws, M2
      <4> QED
        BY <1>1, <2>1
    <3> QED
      BY <2>3, <2>4, <3>1 DEF LimbTaken
  <2>6. R!Number(a, x + 1) = R!Number(a, x) + a[x] * W(x) /\ R!Number(a, x) \in Int /\ a[x] \in Int
    <3>1. x + 1 \in 0..M2
      <4> HIDE DEF x, M2
      <4> QED
        BY <1>1, <2>1
    <3>2. Digits(a, x + 1)
      BY <1>1, <1>4, <3>1, DigitsLess
    <3>3. a[x] \in 0 .. R!Base - 1
      BY <2>1, <1>4 DEF Digits
    <3>4. a[x] \in Int
      BY <3>3, BaseIsNat
    <3> HIDE DEF a, x
    <3> QED
      BY <2>1, <3>2, <3>4, NumberStep
  <2>7. Left(m + 1) = Left(m)
    <3> DEFINE n1 == R!Number(t.acc, M2)
               n0 == R!Number(s.acc, M2)
               ax == a[x] * W(x)
               ra == R!Number(a, x)
               b1 == t.borrow * W(x + 1)
               b0 == s.borrow * W(x)
    <3>1. n1 \in Int /\ n0 \in Int
      <4>1. t.acc \in Accumulator /\ s.acc \in Accumulator
        BY <2>2 DEF Borrowed
      <4>2. Digits(t.acc, M2) /\ Digits(s.acc, M2)
        BY <4>1, AccDigits
      <4> QED
        BY <1>1, <4>2, NumberIsInt
    <3>2. ax \in Int /\ ra \in Int /\ b1 \in Int /\ b0 \in Int
      <4>1. W(x) \in Int /\ W(x + 1) \in Int
        BY <2>1, Weights, SMTT(30)
      <4>2. t.borrow \in Int /\ s.borrow \in Int
        BY <2>2 DEF Borrowed
      <4> DEFINE p == a[x]
                 q == W(x)
                 y == W(x + 1)
                 c1 == t.borrow
                 c0 == s.borrow
      <4>3. p \in Int /\ q \in Int /\ y \in Int /\ c1 \in Int /\ c0 \in Int
        BY <2>6, <4>1, <4>2
      <4> HIDE DEF p, q, y, c1, c0
      <4>4. p * q \in Int /\ c1 * y \in Int /\ c0 * q \in Int
        BY <4>3, SMT
      <4>5. ax \in Int /\ b1 \in Int /\ b0 \in Int
        BY <4>4 DEF p, q, y, c1, c0
      <4> QED
        BY <2>6, <4>5
    <3>3. n1 + ax - b1 = n0 - b0
      BY <2>3 DEF LimbTaken
    <3>4. Left(m + 1) = n1 + (ra + ax) - b1 /\ Left(m) = n0 + ra - b0
      BY <2>1, <2>6
    <3> HIDE DEF n1, n0, ax, ra, b1, b0, Left
    <3> QED
      BY <3>1, <3>2, <3>3, <3>4
  <2> QED
    BY <2>4, <2>5, <2>7
<1> HIDE DEF D
<1>7. td \in D
  BY <1>1, <1>5, <1>6, SetInduction
<1>8. Left(td) = num /\ Same(td)
  BY <1>1, <1>7 DEF D
<1> DEFINE e == ws + td
           s == f[td]
           end == R!Number(s.acc, M2)
           w == W(e)
<1>9. e \in Nat /\ e \in 0..M2 /\ Top(shift) <= e
  BY <1>1
<1>10. s \in Borrowed
  BY <1>1
<1>11. R!Number(a, e) = due
  <2>1. FitsAcc(n, shift)
    <3>1. num < W(M2) /\ num \in Nat /\ due <= num
      BY <1>1, <1>4, NumberIsInt
    <3>2. due \in Int /\ W(M2) \in Int
      <4>1. R!Number(n, KeyLimbs) \in Int
        BY NumberIsInt
      <4>2. 2 \in Int
        OBVIOUS
      <4>3. R!Pow(2, shift) \in Int
        BY <4>2, PowStep
      <4> QED
        BY <1>1, <4>1, <4>3, Weights
    <3>3. due < W(M2)
      <4> HIDE DEF due, num, M2
      <4> QED
        BY <3>1, <3>2
    <3> QED
      BY <3>3 DEF FitsAcc
  <2> HIDE DEF e
  <2> QED
    BY <1>9, <2>1, RaisedTop
<1>12. end + due - s.borrow * w = num
  BY <1>8, <1>11
<1>13. end < w /\ end \in Nat /\ w \in Nat \ {0}
  <2>1. \A h \in e .. M2 - 1 : acc[h] = 0
    <3> DEFINE top == Top(shift)
    <3>1. top \in 0..M2 /\ num < W(top)
      BY <1>1
    <3> HIDE DEF top
    <3>2. \A h \in top .. M2 - 1 : acc[h] = 0
      BY <1>1, <1>4, <3>1, NumberTail
    <3> QED
      BY <1>1, <1>9, <3>2 DEF top
  <2> DEFINE u == s.acc
  <2>2. \A h \in e .. M2 - 1 : u[h] = 0
    BY <1>8, <2>1
  <2>3. Digits(u, M2)
    BY <1>10, AccDigits DEF Borrowed
  <2>4. Digits(u, e)
    BY <1>1, <1>9, <2>3, DigitsLess
  <2> HIDE DEF u, e
  <2>5. R!Number(u, M2) = R!Number(u, e)
    <3>1. M2 \in Nat /\ e \in Nat /\ e <= M2
      BY <1>1, <1>9
    <3> HIDE DEF M2
    <3> QED
      BY <2>2, <2>3, <3>1, NumberPad
  <2>6. R!Number(u, e) \in Nat /\ R!Number(u, e) < W(e)
    BY <1>9, <2>4, NumberIsInt
  <2> QED
    BY <1>9, <2>5, <2>6, Weights DEF u
<1>14. due \in Int 
  <2>1. R!Number(n, KeyLimbs) \in Int
    BY NumberIsInt
  <2>2. 2 \in Int
    OBVIOUS
  <2>3. R!Pow(2, shift) \in Int
    BY <2>2, PowStep
  <2> QED
    BY <2>1, <2>3
<1>15. s.borrow = 0
  <2> DEFINE c == s.borrow
  <2>1. c = 0 \/ c = 1
    BY <1>10 DEF Borrowed
  <2> HIDE DEF c, end, w, due, num
  <2>2. CASE c = 1
    <3>1. 1 * w = w
      BY <1>13
    <3>2. end + due - w = num /\ due <= num
      BY <1>12, <2>2, <3>1 DEF c, due, num
    <3> QED
      BY <1>4, <1>13, <1>14, <3>2 DEF num
  <2> QED
    BY <2>1, <2>2 DEF c
<1>16. end = num - due
  <2> DEFINE p == s.borrow * w
  <2>1. p = 0
    BY <1>13, <1>15
  <2> HIDE DEF p
  <2>2. end + due - p = num
    BY <1>12 DEF p
  <2> HIDE DEF end, due, num
  <2> QED
    BY <1>4, <1>13, <1>14, <2>1, <2>2 DEF num
<1>17. R!Subtract(acc, n, shift) = s.acc
  BY <1>3 DEF R!Subtract, SubtractEnd, Todo, R!Loop
<1> QED
  BY <1>10, <1>16, <1>17 DEF Borrowed

(* The comparison at `shift' reads nothing behind the accumulator, or zeros. *)
Sees(shift, beyond) == shift \div LimbBits + KeyLimbs < 2 * MaxLimbs \/ beyond = 0

(* The comparison looks at the limbs of n << shift, from its lowest on.     *)
LEMMA BelowIsLess ==
  ASSUME NEW n, Digits(n, KeyLimbs), NEW shift \in Nat, Reaches(shift), FitsAcc(n, shift),
         NEW acc, NEW beyond, Sees(shift, beyond)
  PROVE  R!Below(acc, n, shift, beyond)
           <=> Less(acc, Raised(n, shift), shift \div LimbBits, Top(shift))
<1> USE Limbed
<1> DEFINE ws == shift \div LimbBits
           top == KeyLimbs + ws
           end == Top(shift)
           a == Raised(n, shift)
           Read(x) == IF x < 2 * MaxLimbs THEN acc[x] ELSE beyond
           sh(x) == R!Shifted(n, shift, x)
<1>1. ws \in Nat /\ top \in Nat /\ end \in Nat /\ end <= 2 * MaxLimbs /\ end <= top + 1
  <2>1. ws \in Nat /\ end \in Nat /\ end <= 2 * MaxLimbs /\ end <= ws + KeyLimbs + 1
    BY TopRange DEF Reaches
  <2> HIDE DEF ws, end
  <2> QED
    BY <2>1
<1>2. ASSUME NEW x \in ws..top PROVE a[x] = sh(x) /\ x \in Nat
  <2>1. x \in Nat /\ ~(x < ws)
    <3> HIDE DEF ws
    <3> QED
      BY <1>1
  <2> QED
    BY <2>1 DEF Raised
<1>3. ASSUME NEW x \in ws..top, x < end PROVE Read(x) = acc[x]
  <2>1. x < 2 * MaxLimbs
    <3> HIDE DEF ws, end
    <3> QED
      BY <1>1, <1>3
  <2> QED
    BY <2>1
<1>4. ASSUME NEW x \in ws..top, ~(x < end) PROVE Read(x) = 0 /\ sh(x) = 0
  <2>1. x \in Nat /\ end <= x
    <3> HIDE DEF ws, end
    <3> QED
      BY <1>1, <1>4
  <2>2. a[x] = 0
    BY <2>1, RaisedZero
  <2>3. ~(ws + KeyLimbs + 1 <= 2 * MaxLimbs)
    <3> SUFFICES ASSUME ws + KeyLimbs + 1 <= 2 * MaxLimbs PROVE FALSE
      OBVIOUS
    <3>1. end = ws + KeyLimbs + 1
      BY DEF Top
    <3> HIDE DEF ws, end
    <3> QED
      BY <1>1, <2>1, <3>1
  <2>4. end = 2 * MaxLimbs
    BY <2>3 DEF Top
  <2>5. beyond = 0 /\ ~(x < 2 * MaxLimbs)
    <3>1. ~(ws + KeyLimbs < 2 * MaxLimbs)
      <4> HIDE DEF ws
      <4> QED
        BY <1>1, <2>3
    <3>2. ~(x < 2 * MaxLimbs)
      <4> HIDE DEF end
      <4> QED
        BY <2>1, <2>4
    <3> QED
      BY <3>1, <3>2 DEF Sees
  <2> QED
    BY <1>2, <2>2, <2>5
<1>5. R!Below(acc, n, shift, beyond)
        <=> \E x \in ws..top : Read(x) < sh(x) /\ \A h \in x + 1 .. top : Read(h) = sh(h)
  BY DEF R!Below
<1>6. Less(acc, a, ws, end)
        <=> \E x \in ws .. end - 1 : acc[x] < a[x] /\ \A h \in x + 1 .. end - 1 : acc[h] = a[h]
  BY DEF Less
<1> HIDE DEF ws, top, end, a, Read, sh
<1>7. ASSUME R!Below(acc, n, shift, beyond) PROVE Less(acc, a, ws, end)
  <2>1. PICK x \in ws..top : Read(x) < sh(x) /\ \A h \in x + 1 .. top : Read(h) = sh(h)
    BY <1>5, <1>7
  <2>2. x < end
    <3> SUFFICES ASSUME ~(x < end) PROVE FALSE
      OBVIOUS
    <3>1. Read(x) = 0 /\ sh(x) = 0
      BY <1>4
    <3> QED
      BY <2>1, <3>1
  <2>3. x \in ws .. end - 1 /\ acc[x] < a[x]
    <3>1. x \in ws .. end - 1
      BY <1>1, <2>2
    <3>2. Read(x) = acc[x] /\ a[x] = sh(x)
      BY <1>2, <1>3, <2>2
    <3> QED
      BY <2>1, <3>1, <3>2
  <2>4. ASSUME NEW h \in x + 1 .. end - 1 PROVE acc[h] = a[h]
    <3>1. h \in x + 1 .. top /\ h \in ws..top /\ h < end
      BY <1>1
    <3> QED
      BY <1>2, <1>3, <2>1, <3>1
  <2> QED
    BY <1>6, <2>3, <2>4
<1>8. ASSUME Less(acc, a, ws, end) PROVE R!Below(acc, n, shift, beyond)
  <2>1. PICK x \in ws .. end - 1 : acc[x] < a[x] /\ \A h \in x + 1 .. end - 1 : acc[h] = a[h]
    BY <1>6, <1>8
  <2>2. x \in ws..top /\ x < end
    BY <1>1
  <2>3. Read(x) < sh(x)
    BY <1>2, <1>3, <2>1, <2>2
  <2>4. ASSUME NEW h \in x + 1 .. top PROVE Read(h) = sh(h)
    <3>1. h \in ws..top
      BY <1>1
    <3>2. CASE h < end
      <4>1. h \in x + 1 .. end - 1
        BY <1>1, <3>2
      <4> QED
        BY <1>2, <1>3, <2>1, <3>1, <3>2, <4>1
    <3>3. CASE ~(h < end)
      BY <1>4, <3>1, <3>3
    <3> QED
      BY <3>2, <3>3
  <2> QED
    BY <1>5, <2>2, <2>3, <2>4
<1>9. R!Below(acc, n, shift, beyond) <=> Less(acc, a, ws, end)
  BY <1>7, <1>8
<1> QED
  BY <1>9 DEF a, ws, end

(* The comparison of the reduction compares the numbers.                    *)
LEMMA BelowCompares ==
  ASSUME NEW n, Digits(n, KeyLimbs), NEW shift \in Nat, Reaches(shift), FitsAcc(n, shift),
         NEW acc \in Accumulator, NEW beyond, Sees(shift, beyond),
         R!Number(acc, 2 * MaxLimbs) < W(Top(shift))
  PROVE  R!Below(acc, n, shift, beyond)
           <=> R!Number(acc, 2 * MaxLimbs) < R!Number(n, KeyLimbs) * R!Pow(2, shift)
<1> USE Limbed
<1> DEFINE ws == shift \div LimbBits
           M2 == 2 * MaxLimbs
           top == Top(shift)
           a == Raised(n, shift)
           x == R!Number(acc, top)
           y == R!Number(a, top)
<1>1. ws \in Nat /\ top \in Nat /\ top \in 0..M2 /\ M2 \in Nat /\ top <= M2
  <2>1. ws \in Nat /\ top \in Nat /\ top <= 2 * MaxLimbs
    BY TopRange DEF Reaches
  <2> HIDE DEF ws, top
  <2> QED
    BY <2>1
<1>2. Digits(acc, M2) /\ Digits(a, M2)
  BY AccDigits, RaisedDigits
<1>3. Digits(acc, top) /\ Digits(a, top)
  <2> HIDE DEF a, top, M2
  <2> QED
    BY <1>1, <1>2, DigitsLess
<1>4. R!Number(acc, M2) = x
  <2>1. R!Number(acc, M2) < W(top)
    OBVIOUS
  <2> HIDE DEF top, M2
  <2>2. R!Number(acc, top) = R!Number(acc, M2)
    BY <1>1, <1>2, <2>1, NumberTail
  <2> QED
    BY <2>2
<1>5. y = R!Number(n, KeyLimbs) * R!Pow(2, shift)
  <2>1. Top(shift) <= top
    BY <1>1
  <2> HIDE DEF top
  <2>2. R!Number(Raised(n, shift), top) = R!Number(n, KeyLimbs) * R!Pow(2, shift)
    BY <1>1, <2>1, RaisedTop
  <2> QED
    BY <2>2
<1>6. x \in Nat /\ y \in Nat
  <2> HIDE DEF a, top
  <2> QED
    BY <1>1, <1>3, NumberIsInt
<1>7. R!Below(acc, n, shift, beyond) <=> Less(acc, a, ws, top)
  BY BelowIsLess
<1>8. Less(acc, a, ws, top) => x < y
  <2> HIDE DEF a, ws, top
  <2> QED
    BY <1>1, <1>3, LessIsBelow
<1>9. ~Less(acc, a, ws, top) => y <= x
  <2>1. \A h \in 0 .. top - 1 : h < ws => a[h] = 0
    <3> SUFFICES ASSUME NEW h \in 0 .. top - 1, h < ws PROVE a[h] = 0
      OBVIOUS
    <3>1. h \in 0 .. 2 * MaxLimbs - 1
      <4> HIDE DEF top
      <4> QED
        BY <1>1
    <3> QED
      BY <3>1 DEF Raised
  <2> HIDE DEF a, ws, top
  <2> QED
    BY <1>1, <1>3, <2>1, NotLessIsAbove
<1> HIDE DEF x, y, a, ws, top
<1>10. R!Below(acc, n, shift, beyond) <=> x < y
  BY <1>6, <1>7, <1>8, <1>9
<1> QED
  BY <1>4, <1>5, <1>10 DEF M2

LEMMA ShiftParts ==
  ASSUME NEW shift \in Nat
  PROVE  /\ shift \div LimbBits \in Nat /\ shift % LimbBits \in 0 .. LimbBits - 1
         /\ shift = LimbBits * (shift \div LimbBits) + (shift % LimbBits)
<1> USE Limbed
<1> DEFINE ws == shift \div LimbBits
           c == shift % LimbBits
<1>1. ws \in Int /\ c \in 0 .. LimbBits - 1 /\ shift = LimbBits * ws + c
  BY Divided
<1> HIDE DEF ws, c
<1>2. ws < 0 => LimbBits * ws <= -LimbBits
  BY <1>1, SMT
<1>3. ws \in Nat
  BY <1>1, <1>2
<1> QED
  BY <1>1, <1>3 DEF ws, c

(* What is left of a reduction at `shift' has no limb above n << shift.     *)
LEMMA RemainderFits ==
  ASSUME NEW n, Digits(n, KeyLimbs), NEW shift \in Nat, NEW v \in Nat,
         v < R!Number(n, KeyLimbs) * R!Pow(2, shift + 1)
  PROVE  v < W(shift \div LimbBits + KeyLimbs + 1) /\ shift \div LimbBits \in Nat
<1> USE Limbed
<1> DEFINE ws == shift \div LimbBits
           c == shift % LimbBits
           num == R!Number(n, KeyLimbs)
           p == R!Pow(2, shift + 1)
           q == W(ws + 1)
           w == W(KeyLimbs)
<1>1. ws \in Int /\ c \in 0 .. LimbBits - 1 /\ shift = LimbBits * ws + c
  <2>1. /\ shift \div LimbBits \in Nat /\ shift % LimbBits \in 0 .. LimbBits - 1
        /\ shift = LimbBits * (shift \div LimbBits) + (shift % LimbBits)
    BY ShiftParts
  <2> QED
    BY <2>1
<1>2. ws \in Nat
  BY ShiftParts
<1>3. num \in Nat /\ num < w /\ w \in Nat \ {0}
  BY NumberIsInt, Weights
<1>4. p \in Nat \ {0} /\ p <= q /\ q \in Nat \ {0}
  <2> DEFINE z == LimbBits * (ws + 1)
  <2>1. q = R!Pow(2, z)
    <3> HIDE DEF ws
    <3> QED
      BY <1>2, WeightIsPower
  <2>2. shift < z /\ z \in Nat
    <3> HIDE DEF ws, c
    <3>1. LimbBits * (ws + 1) = LimbBits * ws + LimbBits
      BY <1>2, SMT
    <3>2. LimbBits * ws \in Int
      BY <1>2, SMT
    <3> QED
      BY <1>1, <3>1, <3>2
  <2> HIDE DEF z, q
  <2>3. p <= q
    BY <2>1, <2>2, PowGrows
  <2>4. q \in Nat \ {0}
    BY <2>1, <2>2, PowPositive
  <2>5. p \in Nat \ {0}
    BY PowPositive
  <2> QED
    BY <2>3, <2>4, <2>5
<1>5. W(ws + KeyLimbs + 1) = w * q
  <2>1. ws + KeyLimbs + 1 = KeyLimbs + (ws + 1) /\ ws + 1 \in Nat
    BY <1>2
  <2> HIDE DEF ws
  <2>2. W(KeyLimbs + (ws + 1)) = W(KeyLimbs) * W(ws + 1)
    BY <2>1, WeightSum
  <2> QED
    BY <2>1, <2>2
<1>6. v < num * p
  OBVIOUS
<1> HIDE DEF num, p, q, w
<1>7. num * p <= w * p /\ w * p <= w * q
  BY <1>3, <1>4, SMT
<1>8. num * p \in Int /\ w * p \in Int /\ w * q \in Int
  BY <1>3, <1>4
<1>9. v < w * q
  <2> DEFINE m1 == num * p
             m2 == w * p
             m3 == w * q
  <2> HIDE DEF m1, m2, m3
  <2>1. v < m1 /\ m1 <= m2 /\ m2 <= m3 /\ m1 \in Int /\ m2 \in Int /\ m3 \in Int
    BY <1>6, <1>7, <1>8 DEF m1, m2, m3
  <2>2. v < m3
    BY <2>1
  <2> QED
    BY <2>2 DEF m3
<1> QED
  BY <1>2, <1>5, <1>9

(* No turn of a reduction begins behind the accumulator, and if the first   *)
(* reads nothing behind it no later one does.                               *)
LEMMA ReachesAll ==
  ASSUME NEW shift \in Nat, shift < LimbBits * (2 * KeyLimbs)
  PROVE  Reaches(shift) /\ shift \div LimbBits <= 2 * KeyLimbs - 1
<1> USE Limbed
<1> DEFINE ws == shift \div LimbBits
           c == shift % LimbBits
           z == LimbBits * (2 * KeyLimbs)
<1>1. z \in Nat /\ shift < z
  OBVIOUS
<1>2. ws \in Nat /\ c \in 0 .. LimbBits - 1 /\ shift = LimbBits * ws + c
  BY ShiftParts
<1> HIDE DEF ws, c
<1>3. ws >= 2 * KeyLimbs => LimbBits * ws >= z
  BY <1>2, SMT
<1>4. LimbBits * ws \in Int
  BY <1>2
<1>5. ws <= 2 * KeyLimbs - 1
  <2> HIDE DEF z
  <2> QED
    BY <1>1, <1>2, <1>3, <1>4
<1>6. ws <= 2 * MaxLimbs
  BY <1>2, <1>5
<1> QED
  BY <1>2, <1>5, <1>6 DEF Reaches, ws

LEMMA SeesAll ==
  ASSUME NEW shift \in Nat, NEW m \in Nat, m <= shift, NEW beyond, Sees(shift, beyond)
  PROVE  Sees(m, beyond)
<1> DEFINE x == shift \div LimbBits
           y == m \div LimbBits
           c == shift % LimbBits
           d == m % LimbBits
<1>1. /\ x \in Nat /\ c \in 0 .. LimbBits - 1 /\ shift = LimbBits * x + c
      /\ y \in Nat /\ d \in 0 .. LimbBits - 1 /\ m = LimbBits * y + d
  BY ShiftParts
<1>2. Sees(shift, beyond) <=> x + KeyLimbs < 2 * MaxLimbs \/ beyond = 0
  BY DEF Sees
<1>3. Sees(m, beyond) <=> y + KeyLimbs < 2 * MaxLimbs \/ beyond = 0
  BY DEF Sees
<1> HIDE DEF x, y, c, d
<1>4. y >= x + 1 => LimbBits * y >= LimbBits * x + LimbBits
  BY <1>1, Limbed, SMT
<1>5. LimbBits * y \in Int /\ LimbBits * x \in Int
  BY <1>1, Limbed
<1>6. y <= x
  BY <1>1, <1>4, <1>5, Limbed
<1> QED
  BY <1>1, <1>2, <1>3, <1>6, Limbed

LEMMA SubtractIsAcc ==
  ASSUME NEW n, Digits(n, KeyLimbs), NEW shift \in Nat, Reaches(shift), NEW acc \in Accumulator
  PROVE  R!Subtract(acc, n, shift) \in Accumulator
<1>1. Todo(shift) \in Nat
  BY TodoRange
<1>2. PICK f \in [0..Todo(shift) -> Borrowed] : SubtractRuns(f, acc, n, shift)
  BY SubtractLoop
<1>3. SubtractEnd(acc, n, shift) \in Borrowed
  BY <1>1, <1>2 DEF SubtractRuns
<1>4. R!Subtract(acc, n, shift) = SubtractEnd(acc, n, shift).acc
  BY DEF R!Subtract, SubtractEnd, Todo, R!Loop
<1> QED
  BY <1>3, <1>4 DEF Borrowed

(* A turn of the reduction.                                                 *)
OneTurn(acc, n, shift, beyond) ==
  IF R!Below(acc, n, shift, beyond) THEN acc ELSE R!Subtract(acc, n, shift)

TurnTaken(old, new, m) == new < m /\ (new = old \/ new = old - m)

(* A turn takes n << shift away if it can: less than that is left.          *)
LEMMA TurnTakes ==
  ASSUME NEW n, Digits(n, KeyLimbs), NEW shift \in Nat, Reaches(shift), FitsAcc(n, shift),
         NEW acc \in Accumulator, NEW beyond, Sees(shift, beyond),
         R!Number(acc, 2 * MaxLimbs) < R!Number(n, KeyLimbs) * R!Pow(2, shift + 1)
  PROVE  /\ OneTurn(acc, n, shift, beyond) \in Accumulator
         /\ TurnTaken(R!Number(acc, 2 * MaxLimbs),
                      R!Number(OneTurn(acc, n, shift, beyond), 2 * MaxLimbs),
                      R!Number(n, KeyLimbs) * R!Pow(2, shift))
<1> USE Limbed
<1> DEFINE old == R!Number(acc, 2 * MaxLimbs)
           num == R!Number(n, KeyLimbs)
           p == R!Pow(2, shift)
           due == num * p
<1>1. old \in Nat
  <2>1. Digits(acc, 2 * MaxLimbs) /\ 2 * MaxLimbs \in Nat
    BY AccDigits
  <2> QED
    BY <2>1, NumberIsInt
<1>2. num \in Nat /\ p \in Nat \ {0} /\ R!Pow(2, shift + 1) = p * 2
  <2>1. num \in Nat
    BY NumberIsInt
  <2>2. 2 \in Int /\ 2 \in Nat \ {0}
    OBVIOUS
  <2>3. p \in Nat \ {0}
    BY <2>2, PowPositive
  <2>4. R!Pow(2, shift + 1) = p * 2
    BY <2>2, PowStep
  <2> QED
    BY <2>1, <2>3, <2>4
<1>3. due \in Nat /\ old < due + due
  <2>1. old < num * (p * 2)
    BY <1>2
  <2> HIDE DEF old, num, p
  <2>2. num * (p * 2) = num * p + num * p /\ num * p \in Nat
    BY <1>2, SMT
  <2> QED
    BY <2>1, <2>2
<1>4. old < W(Top(shift))
  <2>0. old < W(2 * MaxLimbs)
    <3>1. Digits(acc, 2 * MaxLimbs) /\ 2 * MaxLimbs \in Nat
      BY AccDigits
    <3> QED
      BY <3>1, NumberIsInt
  <2> HIDE DEF old
  <2>1. old < R!Number(n, KeyLimbs) * R!Pow(2, shift + 1)
    BY DEF old
  <2>2. old < W(shift \div LimbBits + KeyLimbs + 1)
    BY <1>1, <2>1, RemainderFits
  <2> QED
    BY <2>0, <2>2 DEF Top
<1>5. R!Below(acc, n, shift, beyond) <=> old < due
  BY <1>4, BelowCompares
<1>6. CASE R!Below(acc, n, shift, beyond)
  BY <1>5, <1>6 DEF OneTurn, TurnTaken
<1>7. CASE ~R!Below(acc, n, shift, beyond)
  <2>1. due <= old
    <3> HIDE DEF due, old
    <3> QED
      BY <1>1, <1>3, <1>5, <1>7
  <2>2. /\ R!Subtract(acc, n, shift) \in Accumulator
        /\ R!Number(R!Subtract(acc, n, shift), 2 * MaxLimbs) = old - due
    BY <1>4, <2>1, SubtractTakes
  <2>3. OneTurn(acc, n, shift, beyond) = R!Subtract(acc, n, shift)
    BY <1>7 DEF OneTurn
  <2> DEFINE new == R!Number(R!Subtract(acc, n, shift), 2 * MaxLimbs)
  <2>4. TurnTaken(old, new, due)
    <3>1. new = old - due
      BY <2>2
    <3> HIDE DEF new, old, due
    <3> QED
      BY <1>1, <1>3, <3>1 DEF TurnTaken
  <2> QED
    BY <2>2, <2>3, <2>4
<1> QED
  BY <1>6, <1>7

ReduceEnd(a, n, len, beyond) ==
  R!Loop(LAMBDA acc, s : OneTurn(acc, n, len - 1 - s, beyond), a, len)

ReduceRuns(f, a, n, len, beyond) ==
  /\ ReduceEnd(a, n, len, beyond) = f[len] /\ f[0] = a
  /\ \A m \in 0 .. len - 1 : f[m + 1] = OneTurn(f[m], n, len - 1 - m, beyond)

LEMMA ReduceLoop ==
  ASSUME NEW n, Digits(n, KeyLimbs), NEW len \in Nat, len <= LimbBits * (2 * KeyLimbs),
         NEW a \in Accumulator, NEW beyond
  PROVE  \E f \in [0..len -> Accumulator] : ReduceRuns(f, a, n, len, beyond)
<1> DEFINE Initial == a
           After(v, m) == OneTurn(v, n, len - 1 - m, beyond)
           Follows(f) == f[0] = Initial /\ \A m \in 0 .. len - 1 : f[m + 1] = After(f[m], m)
           g == [p \in (0 .. len - 1) \X Accumulator |-> After(p[2], p[1])]
           All(h) == [m \in 0..len |-> IF m = 0 THEN Initial ELSE After(h[m - 1], m - 1)]
           F == CHOOSE h : h = All(h)
<1>1. \E f \in [0..len -> Accumulator] : Follows(f)
  <2>1. \A m \in 0 .. len - 1, v \in Accumulator : After(v, m) \in Accumulator
    <3> SUFFICES ASSUME NEW m \in 0 .. len - 1, NEW v \in Accumulator
                 PROVE  OneTurn(v, n, len - 1 - m, beyond) \in Accumulator
      OBVIOUS
    <3> DEFINE shift == len - 1 - m
               z == LimbBits * (2 * KeyLimbs)
    <3>1. shift \in Nat /\ shift < z
      <4>1. z \in Nat /\ len <= z
        BY Limbed
      <4> HIDE DEF z
      <4> QED
        BY <4>1
    <3> HIDE DEF shift
    <3>2. Reaches(shift)
      BY <3>1, ReachesAll
    <3>3. R!Subtract(v, n, shift) \in Accumulator
      BY <3>1, <3>2, SubtractIsAcc
    <3>4. OneTurn(v, n, shift, beyond) \in Accumulator
      BY <3>3 DEF OneTurn
    <3> QED
      BY <3>4 DEF shift
  <2>2. g \in [(0 .. len - 1) \X Accumulator -> Accumulator]
    BY <2>1
  <2>3. \A m \in 0 .. len - 1, v \in Accumulator : g[<<m, v>>] = After(v, m)
    OBVIOUS
  <2> HIDE DEF g
  <2>4. PICK f \in [0..len -> Accumulator] : Runs(f, Initial, g, len)
    <3>1. Initial \in Accumulator /\ len \in Nat
      OBVIOUS
    <3> QED
      BY <2>2, <3>1, LoopExists, Zenon
  <2>5. ASSUME NEW m \in 0 .. len - 1 PROVE f[m + 1] = After(f[m], m)
    <3>1. f[m] \in Accumulator
      OBVIOUS
    <3> QED
      BY <2>3, <2>4, <3>1 DEF Runs
  <2> QED
    BY <2>4, <2>5 DEF Runs
<1>2. PICK f \in [0..len -> Accumulator] : Follows(f)
  BY <1>1
<1>3. f = All(f)
  <2>1. ASSUME NEW m \in 0..len PROVE f[m] = All(f)[m]
    <3>1. CASE m = 0
      BY <1>2, <3>1
    <3>2. CASE m # 0
      <4>1. m - 1 \in 0 .. len - 1 /\ (m - 1) + 1 = m
        BY <3>2
      <4> QED
        BY <1>2, <3>2, <4>1
    <3> QED
      BY <3>1, <3>2
  <2> QED
    BY <2>1
<1>4. F = All(F)
  BY <1>3
<1>5. ReduceEnd(a, n, len, beyond) = F[len]
  BY DEF ReduceEnd, R!Loop
<1> HIDE DEF F
<1>6. F \in [0..len -> Accumulator] /\ Follows(F)
  <2>1. Follows(F)
    BY <1>4
  <2>2. \A m \in 0..len : F[m] = f[m]
    <3>1. Alike(F, f, len)
      BY <1>2, <2>1 DEF Alike
    <3> QED
      BY <3>1, SameLoop
  <2> QED
    BY <1>4, <2>1, <2>2
<1> QED
  BY <1>5, <1>6 DEF ReduceRuns


(* What the turns leave is less than n, and differs by a multiple of n.     *)
Remains(old, new, m) == new < m /\ \E q \in Int : old = m * q + new

LEMMA ReduceEnds ==
  ASSUME NEW n, Digits(n, KeyLimbs), NEW len \in Nat, len <= LimbBits * (2 * KeyLimbs),
         NEW a \in Accumulator, NEW beyond,
         \A shift \in 0 .. len - 1 : FitsAcc(n, shift) /\ Sees(shift, beyond),
         R!Number(a, 2 * MaxLimbs) < R!Number(n, KeyLimbs) * R!Pow(2, len)
  PROVE  /\ ReduceEnd(a, n, len, beyond) \in Accumulator
         /\ Remains(R!Number(a, 2 * MaxLimbs), R!Number(ReduceEnd(a, n, len, beyond), 2 * MaxLimbs),
                    R!Number(n, KeyLimbs))
<1> USE Limbed
<1> DEFINE M2 == 2 * MaxLimbs
           num == R!Number(n, KeyLimbs)
           old == R!Number(a, M2)
<1>1. PICK f \in [0..len -> Accumulator] : ReduceRuns(f, a, n, len, beyond)
  BY ReduceLoop
<1>2. /\ ReduceEnd(a, n, len, beyond) = f[len] /\ f[0] = a
      /\ \A m \in 0 .. len - 1 : f[m + 1] = OneTurn(f[m], n, len - 1 - m, beyond)
  BY <1>1 DEF ReduceRuns
<1>3. num \in Nat /\ old \in Nat /\ M2 \in Nat
  <2>1. Digits(a, M2) /\ M2 \in Nat
    BY AccDigits
  <2> QED
    BY <2>1, NumberIsInt
<1> DEFINE remains(m) == R!Number(f[m], M2)
           Below(m) == remains(m) < num * R!Pow(2, len - m)
           Off(m) == \E q \in Int : old = num * q + remains(m)
           D == {m \in Nat : m <= len => Below(m) /\ Off(m)}
<1>4. 0 \in D
  <2>1. Below(0)
    BY <1>2
  <2>2. old = num * 0 + remains(0) /\ 0 \in Int
    <3>1. remains(0) = old
      BY <1>2
    <3> HIDE DEF remains, old, num
    <3> QED
      BY <1>3, <3>1
  <2> QED
    BY <2>1, <2>2
<1>5. ASSUME NEW m \in Nat, m \in D PROVE m + 1 \in D
  <2> SUFFICES ASSUME m + 1 <= len PROVE Below(m + 1) /\ Off(m + 1)
    OBVIOUS
  <2> DEFINE shift == len - 1 - m
             z == LimbBits * (2 * KeyLimbs)
             p == R!Pow(2, shift)
  <2>1. /\ shift \in Nat /\ shift < z /\ m \in 0 .. len - 1 /\ m + 1 \in 0..len /\ m \in 0..len
        /\ shift + 1 = len - m /\ shift = len - (m + 1)
    <3>1. z \in Nat /\ len <= z
      OBVIOUS
    <3> HIDE DEF z
    <3> QED
      BY <3>1
  <2>2. Below(m) /\ Off(m)
    BY <1>5, <2>1
  <2>3. f[m] \in Accumulator /\ f[m + 1] = OneTurn(f[m], n, shift, beyond)
    BY <1>2, <2>1
  <2>4. TurnTaken(remains(m), remains(m + 1), num * p)
    <3> DEFINE acc == f[m]
    <3>1. acc \in Accumulator /\ R!Number(acc, 2 * MaxLimbs) < R!Number(n, KeyLimbs) * R!Pow(2, shift + 1)
      BY <2>1, <2>2, <2>3
    <3> HIDE DEF acc, shift
    <3>2. Reaches(shift) /\ FitsAcc(n, shift) /\ Sees(shift, beyond)
      <4>1. shift \in 0 .. len - 1
        BY <2>1
      <4> QED
        BY <2>1, <4>1, ReachesAll
    <3>3. TurnTaken(R!Number(acc, 2 * MaxLimbs), R!Number(OneTurn(acc, n, shift, beyond), 2 * MaxLimbs),
                    R!Number(n, KeyLimbs) * R!Pow(2, shift))
      BY <2>1, <3>1, <3>2, TurnTakes
    <3> QED
      BY <2>3, <3>3 DEF acc
  <2>5. p \in Int /\ remains(m) \in Int
    <3>1. 2 \in Int
      OBVIOUS
    <3>2. p \in Int
      <4> HIDE DEF shift
      <4> QED
        BY <2>1, <3>1, PowStep
    <3>3. Digits(f[m], M2)
      BY <2>3, AccDigits
    <3>4. remains(m) \in Int
      BY <1>3, <3>3, NumberIsInt
    <3> QED
      BY <3>2, <3>4
  <2>6. Below(m + 1)
    BY <2>1, <2>4 DEF TurnTaken
  <2>7. Off(m + 1)
    <3> HIDE DEF remains, num, old, p
    <3>1. PICK q \in Int : old = num * q + remains(m)
      BY <2>2
    <3>2. CASE remains(m + 1) = remains(m)
      BY <3>1, <3>2
    <3>3. CASE remains(m + 1) = remains(m) - num * p
      <4>1. num * (q + p) = num * q + num * p /\ num * q \in Int /\ num * p \in Int
        BY <1>3, <2>5, SMT
      <4> DEFINE m1 == num * (q + p)
                 m2 == num * q
                 m3 == num * p
      <4>2. m1 = m2 + m3 /\ m2 \in Int /\ m3 \in Int
        BY <4>1
      <4>3. old = m2 + remains(m) /\ remains(m + 1) = remains(m) - m3
        BY <3>1, <3>3
      <4> HIDE DEF m1, m2, m3
      <4>4. old = m1 + remains(m + 1)
        BY <2>5, <4>2, <4>3
      <4>5. q + p \in Int
        BY <2>5
      <4> QED
        BY <4>4, <4>5 DEF m1
    <3> QED
      BY <2>4, <3>2, <3>3 DEF TurnTaken
  <2> QED
    BY <2>6, <2>7
<1> HIDE DEF D
<1>6. len \in D
  BY <1>4, <1>5, SetInduction
<1>7. Below(len) /\ Off(len)
  BY <1>6 DEF D
<1>8. remains(len) < num
  <2>1. 2 \in Int /\ len - len = 0
    OBVIOUS
  <2>2. R!Pow(2, 0) = 1
    BY <2>1, PowStep
  <2>3. num * 1 = num
    BY <1>3
  <2> HIDE DEF remains, num
  <2>4. remains(len) < num * R!Pow(2, len - len)
    BY <1>7
  <2> QED
    BY <2>1, <2>2, <2>3, <2>4
<1>9. f[len] \in Accumulator
  OBVIOUS
<1> QED
  BY <1>2, <1>7, <1>8, <1>9 DEF Remains

Widened(p) == [x \in 0 .. 2 * MaxLimbs - 1 |-> IF x < 2 * KeyLimbs THEN p[x] ELSE 0]

LEMMA WidenedNumber ==
  ASSUME NEW p \in Wide
  PROVE  /\ Widened(p) \in Accumulator
         /\ R!Number(Widened(p), 2 * MaxLimbs) = R!Number(p, 2 * KeyLimbs)
<1> USE Limbed
<1> DEFINE K2 == 2 * KeyLimbs
           M2 == 2 * MaxLimbs
           a == Widened(p)
<1>1. K2 \in Nat /\ M2 \in Nat /\ K2 <= M2
  OBVIOUS
<1>2. Digits(p, K2)
  BY WideDigits
<1>3. ASSUME NEW x \in 0 .. M2 - 1
      PROVE  a[x] \in 0 .. R!Base - 1 /\ (x < K2 => a[x] = p[x]) /\ (x >= K2 => a[x] = 0)
  <2>1. a[x] = IF x < K2 THEN p[x] ELSE 0
    BY DEF Widened
  <2>2. x < K2 => p[x] \in 0 .. R!Base - 1
    <3> HIDE DEF K2, M2
    <3> QED
      BY <1>1, <1>2 DEF Digits
  <2>3. 0 \in 0 .. R!Base - 1 /\ (x >= K2 => ~(x < K2))
    <3> HIDE DEF K2, M2
    <3> QED
      BY <1>1, BaseIsNat
  <2> QED
    BY <2>1, <2>2, <2>3
<1>4. a \in Accumulator
  BY <1>3 DEF Accumulator, Widened
<1>5. Digits(a, M2)
  BY <1>4, AccDigits
<1>6. R!Number(a, M2) = R!Number(a, K2)
  <2>1. \A x \in K2 .. M2 - 1 : a[x] = 0
    <3> SUFFICES ASSUME NEW x \in K2 .. M2 - 1 PROVE a[x] = 0
      OBVIOUS
    <3>1. x \in 0 .. M2 - 1 /\ x >= K2
      <4> HIDE DEF K2, M2
      <4> QED
        BY <1>1
    <3> QED
      BY <1>3, <3>1
  <2> HIDE DEF a, K2, M2
  <2> QED
    BY <1>1, <1>5, <2>1, NumberPad
<1>7. R!Number(a, K2) = R!Number(p, K2)
  <2>1. \A x \in 0 .. K2 - 1 : a[x] = p[x]
    <3> SUFFICES ASSUME NEW x \in 0 .. K2 - 1 PROVE a[x] = p[x]
      OBVIOUS
    <3>1. x \in 0 .. M2 - 1 /\ x < K2
      <4> HIDE DEF K2, M2
      <4> QED
        BY <1>1
    <3> QED
      BY <1>3, <3>1
  <2> HIDE DEF a, K2
  <2> QED
    BY <1>1, <1>2, <2>1, NumberSame
<1> QED
  BY <1>4, <1>6, <1>7

(* A remainder that fits in the key's limbs is read from them.              *)
LEMMA LowLimbs ==
  ASSUME NEW a \in Accumulator, R!Number(a, 2 * MaxLimbs) < W(KeyLimbs)
  PROVE  R!Number(a, KeyLimbs) = R!Number(a, 2 * MaxLimbs)
<1> DEFINE M2 == 2 * MaxLimbs
<1>1. M2 \in Nat /\ KeyLimbs \in 0..M2
  BY Limbed
<1>2. Digits(a, M2)
  BY AccDigits
<1>3. R!Number(a, M2) < W(KeyLimbs)
  OBVIOUS
<1> HIDE DEF M2
<1>4. R!Number(a, KeyLimbs) = R!Number(a, M2)
  BY <1>1, <1>2, <1>3, NumberTail
<1> QED
  BY <1>4 DEF M2

LEMMA ReduceUnfolds ==
  ASSUME NEW p, NEW n, NEW beyond, NEW align \in Int,
         align = R!Msb(R!Number(p, 2 * KeyLimbs)) - R!Msb(R!Number(n, KeyLimbs)),
         R!Number(n, KeyLimbs) # 0
  PROVE  /\ align < 0 => R!bn_reduce(p, n, beyond) = Widened(p)
         /\ align >= 0 => R!bn_reduce(p, n, beyond) = ReduceEnd(Widened(p), n, align + 1, beyond)
<1>1. align < 0 => R!bn_reduce(p, n, beyond) = Widened(p)
  BY DEF R!bn_reduce, Widened
<1>2. ASSUME align >= 0
      PROVE  R!bn_reduce(p, n, beyond) = ReduceEnd(Widened(p), n, align + 1, beyond)
  <2>1. ~(align < 0) /\ (align + 1) - 1 = align
    BY <1>2
  <2> QED
    BY <2>1 DEF R!bn_reduce, Widened, ReduceEnd, OneTurn, R!Loop
<1> QED
  BY <1>1, <1>2

(* Where the alignment is negative nothing is to be taken away; else what   *)
(* is there is less than n << (align + 1).                                  *)
LEMMA AlignRange ==
  ASSUME NEW v \in Nat, v < W(2 * KeyLimbs), NEW num \in Nat \ {0}, num < W(2 * KeyLimbs)
  PROVE  /\ R!Msb(v) - R!Msb(num) \in Int
         /\ R!Msb(v) - R!Msb(num) < 0 => v < num
         /\ R!Msb(v) - R!Msb(num) >= 0 =>
              /\ R!Msb(v) - R!Msb(num) + 1 <= LimbBits * (2 * KeyLimbs)
              /\ v < num * R!Pow(2, R!Msb(v) - R!Msb(num) + 1)
              /\ num * R!Pow(2, R!Msb(v) - R!Msb(num)) < W(2 * KeyLimbs)
<1> DEFINE x == R!Msb(v)
           y == R!Msb(num)
           z == LimbBits * (2 * KeyLimbs)
           align == x - y
<1>0. z \in Nat
  BY Limbed
<1>1. /\ v = 0 => x = -1
      /\ v # 0 => x \in 0 .. z - 1 /\ R!Pow(2, x) <= v /\ v < R!Pow(2, x + 1)
  BY MsbIsTop
<1>2. y \in 0 .. z - 1 /\ R!Pow(2, y) <= num /\ num < R!Pow(2, y + 1)
  BY MsbIsTop
<1> HIDE DEF x, y, z
<1>3. y \in Nat /\ R!Pow(2, y) \in Nat \ {0}
  <2>1. y \in Nat /\ 2 \in Nat \ {0}
    BY <1>0, <1>2
  <2> QED
    BY <2>1, PowPositive
<1>4. CASE v = 0
  <2>1. align = -1 - y /\ v < num
    BY <1>1, <1>4
  <2> HIDE DEF align
  <2>2. align \in Int /\ align < 0
    BY <1>3, <2>1
  <2>3. ~(align >= 0)
    BY <2>2
  <2> QED
    BY <2>1, <2>2, <2>3 DEF align, x, y
<1>5. CASE v # 0
  <2>1. x \in Nat /\ x <= z - 1 /\ R!Pow(2, x) <= v /\ v < R!Pow(2, x + 1)
    BY <1>0, <1>1, <1>5
  <2>2. R!Pow(2, x + 1) \in Nat \ {0}
    <3>1. x + 1 \in Nat /\ 2 \in Nat \ {0}
      BY <2>1
    <3> QED
      BY <3>1, PowPositive
  <2>3. align \in Int
    BY <1>3, <2>1
  <2>4. align < 0 => v < num
    <3> SUFFICES ASSUME align < 0 PROVE v < num
      OBVIOUS
    <3>1. x < y
      BY <1>3, <2>1
    <3>2. R!Pow(2, x + 1) <= R!Pow(2, y)
      BY <1>3, <2>1, <3>1, PowGrows
    <3> QED
      BY <1>2, <1>3, <2>1, <2>2, <3>2
  <2>5. ASSUME align >= 0
        PROVE  /\ align + 1 <= z /\ v < num * R!Pow(2, align + 1)
               /\ num * R!Pow(2, align) < W(2 * KeyLimbs)
    <3>1. align + 1 <= z
      BY <1>0, <1>3, <2>1
    <3> DEFINE u == R!Pow(2, y)
               t == R!Pow(2, align + 1)
    <3>2. R!Pow(2, x + 1) = u * t
      <4>1. align + 1 \in Nat /\ 2 \in Int /\ y + (align + 1) = x + 1
        BY <1>3, <2>1, <2>5
      <4> HIDE DEF align
      <4>2. R!Pow(2, y + (align + 1)) = R!Pow(2, y) * R!Pow(2, align + 1)
        BY <1>3, <4>1, PowSum
      <4> QED
        BY <4>1, <4>2
    <3>3. t \in Nat \ {0}
      <4>1. align + 1 \in Nat /\ 2 \in Nat \ {0}
        BY <2>3, <2>5
      <4> HIDE DEF align
      <4> QED
        BY <4>1, PowPositive
    <3>4. u <= num /\ u \in Nat /\ v < u * t
      BY <1>2, <1>3, <2>1, <3>2
    <3> HIDE DEF u, t, align
    <3>5. u * t <= num * t
      BY <3>3, <3>4, SMT
    <3>6. u * t \in Int /\ num * t \in Int
      BY <3>3, <3>4
    <3> DEFINE m1 == u * t
               m2 == num * t
    <3>7. v < m1 /\ m1 <= m2 /\ m1 \in Int /\ m2 \in Int
      BY <3>4, <3>5, <3>6
    <3> HIDE DEF m1, m2
    <3>8. v < m2
      BY <3>7
    <3>9. v < num * R!Pow(2, align + 1)
      BY <3>8 DEF m2, t
    <3>10. num * R!Pow(2, align) < W(2 * KeyLimbs)
      <4> DEFINE q == R!Pow(2, align)
                 y2 == R!Pow(2, y + 1)
                 x2 == R!Pow(2, x + 1)
                 w == W(2 * KeyLimbs)
      <4>1. align \in Nat /\ y + 1 \in Nat /\ (y + 1) + align = x + 1 /\ x + 1 \in Nat /\ x + 1 <= z
            /\ 2 \in Int /\ 2 \in Nat \ {0}
        BY <1>0, <1>3, <2>1, <2>5 DEF align
      <4>2. x2 = y2 * q
        <5> HIDE DEF align
        <5>1. R!Pow(2, (y + 1) + align) = R!Pow(2, y + 1) * R!Pow(2, align)
          BY <4>1, PowSum
        <5> QED
          BY <4>1, <5>1
      <4>3. q \in Nat \ {0} /\ y2 \in Nat \ {0} /\ x2 \in Nat /\ w \in Nat
        <5>1. 2 * KeyLimbs \in Nat
          BY Limbed
        <5> HIDE DEF align
        <5> QED
          BY <4>1, <5>1, PowPositive, Weights
      <4>4. x2 <= w
        <5>1. w = R!Pow(2, z)
          <6>1. 2 * KeyLimbs \in Nat
            BY Limbed
          <6> QED
            BY <6>1, WeightIsPower DEF z
        <5>2. ASSUME x + 1 < z PROVE R!Pow(2, x + 1) < R!Pow(2, z)
          BY <1>0, <4>1, <5>2, PowGrows
        <5>3. x + 1 = z => x2 = R!Pow(2, z)
          OBVIOUS
        <5>4. R!Pow(2, z) \in Nat
          BY <1>0, <4>1, PowPositive
        <5> HIDE DEF x2, w
        <5>5. x + 1 < z \/ x + 1 = z
          BY <1>0, <4>1
        <5> QED
          BY <4>3, <5>1, <5>2, <5>3, <5>4, <5>5 DEF x2
      <4>5. num < y2
        BY <1>2
      <4> HIDE DEF q, y2, x2, w
      <4>6. num * q < y2 * q
        BY <4>3, <4>5, SMT
      <4>7. num * q \in Int
        BY <4>3
      <4> DEFINE m3 == num * q
      <4>8. m3 < x2 /\ m3 \in Int
        BY <4>2, <4>6, <4>7
      <4> HIDE DEF m3
      <4>9. m3 < w
        BY <4>3, <4>4, <4>8
      <4> QED
        BY <4>9 DEF m3, q, w
    <3> QED
      BY <3>1, <3>9, <3>10
  <2> QED
    BY <2>3, <2>4, <2>5 DEF align, x, y, z
<1> QED
  BY <1>4, <1>5

(* A turn that the first one bounds fits.                                   *)
LEMMA FitsAll ==
  ASSUME NEW n, Digits(n, KeyLimbs), NEW align \in Nat, NEW shift \in Nat, shift <= align,
         R!Number(n, KeyLimbs) * R!Pow(2, align) < W(2 * KeyLimbs)
  PROVE  FitsAcc(n, shift)
<1> DEFINE num == R!Number(n, KeyLimbs)
           p == R!Pow(2, shift)
           q == R!Pow(2, align)
           v == W(2 * KeyLimbs)
           w == W(2 * MaxLimbs)
<1>1. num \in Nat /\ v \in Nat /\ w \in Nat /\ v <= w
  <2>1. 2 * KeyLimbs \in Nat /\ 2 * MaxLimbs \in Nat /\ 2 * KeyLimbs <= 2 * MaxLimbs /\ KeyLimbs \in Nat
    BY Limbed
  <2> QED
    BY <2>1, NumberIsInt, Weights, WeightsGrow
<1>2. p \in Nat /\ q \in Nat /\ p <= q
  <2>1. 2 \in Nat \ {0}
    OBVIOUS
  <2>2. p \in Nat /\ q \in Nat
    BY <2>1, PowPositive
  <2>3. CASE shift = align
    BY <2>2, <2>3
  <2>4. CASE shift < align
    BY <2>2, <2>4, PowGrows
  <2> QED
    BY <2>3, <2>4
<1>3. num * q < v
  OBVIOUS
<1> HIDE DEF num, p, q, v, w
<1>4. num * p <= num * q
  BY <1>1, <1>2, SMT
<1>5. num * p \in Int /\ num * q \in Int
  BY <1>1, <1>2
<1> DEFINE m1 == num * p
           m2 == num * q
<1>6. m1 <= m2 /\ m2 < v /\ m1 \in Int /\ m2 \in Int
  BY <1>3, <1>4, <1>5
<1> HIDE DEF m1, m2
<1>7. m1 < w
  BY <1>1, <1>6
<1> QED
  BY <1>7 DEF m1, num, p, w, FitsAcc

(* The first comparison of bn_reduce, of the most shifted modulus, stays    *)
(* inside the accumulator.                                                  *)
Inside(p, n) ==
  (R!Msb(R!Number(p, 2 * KeyLimbs)) - R!Msb(R!Number(n, KeyLimbs))) \div LimbBits + KeyLimbs
    < 2 * MaxLimbs

(* bn_reduce of a product leaves the remainder, for every width, number of  *)
(* limbs and modulus but zero, if its comparisons read nothing behind the   *)
(* accumulator, or nothing but zeros there.  So the limb that they may read *)
(* is all that is wrong with bn_reduce for keys as wide as the numbers.     *)
THEOREM ReduceIsRemainder ==
  ASSUME NEW p \in Wide, NEW n, Digits(n, KeyLimbs), R!Number(n, KeyLimbs) # 0,
         NEW beyond, Inside(p, n) \/ beyond = 0
  PROVE  R!Number(R!bn_reduce(p, n, beyond), KeyLimbs)
           = R!Number(p, 2 * KeyLimbs) % R!Number(n, KeyLimbs)
<1> USE Limbed
<1> DEFINE v == R!Number(p, 2 * KeyLimbs)
           num == R!Number(n, KeyLimbs)
           a == Widened(p)
           align == R!Msb(v) - R!Msb(num)
           r == R!bn_reduce(p, n, beyond)
           w == W(KeyLimbs)
<1>1. v \in Nat /\ v < W(2 * KeyLimbs)
  <2>1. Digits(p, 2 * KeyLimbs) /\ 2 * KeyLimbs \in Nat
    BY WideDigits
  <2> QED
    BY <2>1, NumberIsInt
<1>2. num \in Nat \ {0} /\ num < w /\ w <= W(2 * KeyLimbs) /\ w \in Nat
  <2>1. num \in Nat /\ num < w
    BY NumberIsInt
  <2>2. 2 * KeyLimbs \in Nat /\ KeyLimbs <= 2 * KeyLimbs
    OBVIOUS
  <2>3. w <= W(2 * KeyLimbs)
    BY <2>2, WeightsGrow
  <2> QED
    BY <2>1, <2>3, Weights
<1>3. num < W(2 * KeyLimbs)
  <2>1. 2 * KeyLimbs \in Nat
    OBVIOUS
  <2>2. W(2 * KeyLimbs) \in Nat
    BY <2>1, Weights
  <2> HIDE DEF num, w
  <2> QED
    BY <1>2, <2>2
<1>4. /\ align \in Int
      /\ align < 0 => v < num
      /\ align >= 0 => /\ align + 1 <= LimbBits * (2 * KeyLimbs) /\ v < num * R!Pow(2, align + 1)
                       /\ num * R!Pow(2, align) < W(2 * KeyLimbs)
  <2> HIDE DEF v, num
  <2> QED
    BY <1>1, <1>2, <1>3, AlignRange
<1>5. /\ align < 0 => r = a
      /\ align >= 0 => r = ReduceEnd(a, n, align + 1, beyond)
  BY <1>4, ReduceUnfolds
<1>6. a \in Accumulator /\ R!Number(a, 2 * MaxLimbs) = v
  BY WidenedNumber
<1>7. r \in Accumulator /\ Remains(v, R!Number(r, 2 * MaxLimbs), num)
  <2>1. CASE align < 0
    <3>1. r = a /\ v < num
      BY <1>4, <1>5, <2>1
    <3>2. v = num * 0 + v /\ 0 \in Int
      <4> HIDE DEF v, num
      <4> QED
        BY <1>1, <1>2
    <3>3. Remains(v, v, num)
      BY <3>1, <3>2 DEF Remains
    <3> QED
      BY <1>6, <3>1, <3>3
  <2>2. CASE align >= 0
    <3> DEFINE len == align + 1
    <3>1. len \in Nat /\ len <= LimbBits * (2 * KeyLimbs) /\ v < num * R!Pow(2, len)
      <4>1. len \in Nat
        <5> HIDE DEF align
        <5> QED
          BY <1>4, <2>2
      <4> QED
        BY <1>4, <2>2, <4>1
    <3>2. r = ReduceEnd(a, n, len, beyond)
      BY <1>5, <2>2
    <3>3. R!Number(a, 2 * MaxLimbs) < R!Number(n, KeyLimbs) * R!Pow(2, len)
      BY <1>6, <3>1
    <3>5. \A shift \in 0 .. len - 1 : FitsAcc(n, shift) /\ Sees(shift, beyond)
      <4> SUFFICES ASSUME NEW shift \in 0 .. len - 1 PROVE FitsAcc(n, shift) /\ Sees(shift, beyond)
        OBVIOUS
      <4>1. Sees(align, beyond)
        BY DEF Sees, Inside
      <4>2. num * R!Pow(2, align) < W(2 * KeyLimbs)
        BY <1>4, <2>2
      <4>3. align \in Nat /\ shift \in Nat /\ shift <= align
        <5> HIDE DEF align
        <5> QED
          BY <1>4, <2>2
      <4> HIDE DEF align
      <4> QED
        BY <4>1, <4>2, <4>3, FitsAll, SeesAll
    <3> HIDE DEF len, a
    <3>4. /\ ReduceEnd(a, n, len, beyond) \in Accumulator
          /\ Remains(R!Number(a, 2 * MaxLimbs), R!Number(ReduceEnd(a, n, len, beyond), 2 * MaxLimbs), num)
      BY <1>6, <3>1, <3>3, <3>5, ReduceEnds
    <3> QED
      BY <1>6, <3>2, <3>4
  <2>3. align < 0 \/ align >= 0
    <3> HIDE DEF align
    <3> QED
      BY <1>4
  <2> QED
    BY <2>1, <2>2, <2>3
<1> DEFINE x == R!Number(r, 2 * MaxLimbs)
<1>8. PICK q \in Int : v = num * q + x
  BY <1>7 DEF Remains
<1>9. x \in Nat /\ x < num
  <2>1. x < num
    BY <1>7 DEF Remains
  <2>2. Digits(r, 2 * MaxLimbs) /\ 2 * MaxLimbs \in Nat
    BY <1>7, AccDigits
  <2> HIDE DEF r
  <2> QED
    BY <2>1, <2>2, NumberIsInt
<1>10. R!Number(r, KeyLimbs) = x
  <2>1. x < w
    <3> HIDE DEF x, num, w
    <3> QED
      BY <1>2, <1>9
  <2> HIDE DEF r
  <2> QED
    BY <1>7, <2>1, LowLimbs
<1>11. v % num = x
  <2> HIDE DEF v, num, x
  <2>1. x \in 0 .. num - 1
    BY <1>2, <1>9
  <2> QED
    BY <1>2, <1>8, <2>1, OneQuotient
<1> QED
  BY <1>10, <1>11

----------------------------------------------------------------------------
(* The power: bn_powmod keeps res * sq^(what is left of the exponent).      *)

LEMMA ModTimes ==
  ASSUME NEW x \in Int, NEW y \in Int, NEW m \in Nat \ {0}
  PROVE  ((x % m) * y) % m = (x * y) % m
<1> DEFINE q == x \div m
           s == x % m
<1>1. q \in Int /\ s \in 0 .. m - 1 /\ x = m * q + s
  BY Divided
<1> HIDE DEF q, s
<1>2. s \in Int
  BY <1>1
<1>3. x * y = m * (q * y) + s * y /\ q * y \in Int /\ s * y \in Int
  BY <1>1, <1>2, SMT
<1> DEFINE z == q * y
           t == s * y
<1>4. z \in Int /\ t \in Int /\ x * y = m * z + t
  BY <1>3
<1> HIDE DEF z, t
<1>5. (m * z + t) % m = t % m
  BY <1>4, Turns
<1> QED
  BY <1>4, <1>5 DEF t, s

Congruent(x, u, m) == x % m = u % m

(* Products of the same remainders have the same remainder.                 *)
LEMMA SameTimes ==
  ASSUME NEW x \in Int, NEW u \in Int, NEW y \in Int, NEW v \in Int, NEW m \in Nat \ {0},
         Congruent(x, u, m), Congruent(y, v, m)
  PROVE  Congruent(x * y, u * v, m)
<1>0. x % m = u % m /\ y % m = v % m
  BY DEF Congruent
<1>1. (x * y) % m = (u * y) % m
  <2>1. ((x % m) * y) % m = (x * y) % m
    BY ModTimes
  <2>2. ((u % m) * y) % m = (u * y) % m
    BY ModTimes
  <2> QED
    BY <1>0, <2>1, <2>2
<1>2. (u * y) % m = (u * v) % m
  <2>1. ((y % m) * u) % m = (y * u) % m
    BY ModTimes
  <2>2. ((v % m) * u) % m = (v * u) % m
    BY ModTimes
  <2>3. y * u = u * y /\ v * u = u * v
    BY Associates
  <2> QED
    BY <1>0, <2>1, <2>2, <2>3
<1> QED
  BY <1>1, <1>2 DEF Congruent

LEMMA ModMod ==
  ASSUME NEW x \in Int, NEW m \in Nat \ {0}
  PROVE  x % m \in 0 .. m - 1 /\ (x % m) % m = x % m /\ x % m \in Int
<1>1. x % m \in 0 .. m - 1
  BY Divided
<1> DEFINE s == x % m
<1> HIDE DEF s
<1>2. s \in 0 .. m - 1
  BY <1>1 DEF s
<1>3. s % m = s /\ s \in Int
  BY <1>2, SmallMod
<1> QED
  BY <1>2, <1>3 DEF s

LEMMA PowSame ==
  ASSUME NEW x \in Int, NEW u \in Int, NEW m \in Nat \ {0}, NEW n \in Nat, Congruent(x, u, m)
  PROVE  Congruent(R!Pow(x, n), R!Pow(u, n), m)
<1> DEFINE D == {j \in Nat : Congruent(R!Pow(x, j), R!Pow(u, j), m)}
<1>1. 0 \in D
  BY PowStep DEF Congruent
<1>2. ASSUME NEW j \in Nat, j \in D PROVE j + 1 \in D
  <2> DEFINE p == R!Pow(x, j)
             q == R!Pow(u, j)
  <2>1. p \in Int /\ q \in Int /\ R!Pow(x, j + 1) = p * x /\ R!Pow(u, j + 1) = q * u
    BY PowStep
  <2>2. Congruent(p, q, m)
    BY <1>2
  <2> HIDE DEF p, q
  <2>3. Congruent(p * x, q * u, m)
    BY <2>1, <2>2, SameTimes
  <2> QED
    BY <2>1, <2>3
<1> HIDE DEF D
<1>3. n \in D
  BY <1>1, <1>2, SetInduction
<1> QED
  BY <1>3 DEF D

LEMMA PowDouble ==
  ASSUME NEW x \in Int, NEW n \in Nat
  PROVE  /\ R!Pow(x * x, n) = R!Pow(x, 2 * n) /\ R!Pow(x, 2 * n) \in Int
         /\ R!Pow(x, 2 * n + 1) = R!Pow(x, 2 * n) * x
<1>1. R!Pow(x, 2) = x * x
  <2>1. R!Pow(x, 0) = 1 /\ R!Pow(x, 0 + 1) = R!Pow(x, 0) * x /\ R!Pow(x, 1 + 1) = R!Pow(x, 1) * x
    BY PowStep
  <2>2. 0 + 1 = 1 /\ 1 + 1 = 2 /\ 1 * x = x
    OBVIOUS
  <2> QED
    BY <2>1, <2>2
<1>2. R!Pow(R!Pow(x, 2), n) = R!Pow(x, 2 * n)
  <2>1. 2 \in Nat
    OBVIOUS
  <2> QED
    BY <2>1, PowProduct
<1>3. 2 * n \in Nat
  OBVIOUS
<1>4. R!Pow(x, 2 * n) \in Int /\ R!Pow(x, 2 * n + 1) = R!Pow(x, 2 * n) * x
  <2> DEFINE j == 2 * n
  <2> HIDE DEF j
  <2>1. j \in Nat
    BY <1>3 DEF j
  <2>2. R!Pow(x, j) \in Int /\ R!Pow(x, j + 1) = R!Pow(x, j) * x
    BY <2>1, PowStep
  <2> QED
    BY <2>2 DEF j
<1> QED
  BY <1>1, <1>2, <1>4

PowerRuns(f, x, n, c) ==
  /\ R!Power(x, n, c) = f[n] /\ f[0] = (1 % c)
  /\ \A m \in 0 .. n - 1 : f[m + 1] = (f[m] * x) % c

LEMMA PowerLoop ==
  ASSUME NEW x \in Int, NEW n \in Nat, NEW c \in Nat \ {0}
  PROVE  \E f \in [0..n -> Int] : PowerRuns(f, x, n, c)
<1> DEFINE Initial == (1 % c)
           After(v, m) == (v * x) % c
           Follows(f) == f[0] = Initial /\ \A m \in 0 .. n - 1 : f[m + 1] = After(f[m], m)
           g == [p \in (0 .. n - 1) \X Int |-> After(p[2], p[1])]
           All(h) == [m \in 0..n |-> IF m = 0 THEN Initial ELSE After(h[m - 1], m - 1)]
           F == CHOOSE h : h = All(h)
<1>1. \E f \in [0..n -> Int] : Follows(f)
  <2>1. \A m \in 0 .. n - 1, v \in Int : After(v, m) \in Int
    <3> SUFFICES ASSUME NEW v \in Int PROVE (v * x) % c \in Int
      OBVIOUS
    <3>1. v * x \in Int
      OBVIOUS
    <3> QED
      BY <3>1, ModMod
  <2>2. g \in [(0 .. n - 1) \X Int -> Int]
    BY <2>1
  <2>3. \A m \in 0 .. n - 1, v \in Int : g[<<m, v>>] = After(v, m)
    OBVIOUS
  <2> HIDE DEF g
  <2>4. PICK f \in [0..n -> Int] : Runs(f, Initial, g, n)
    <3>1. Initial \in Int /\ n \in Nat
      BY ModMod
    <3> QED
      BY <2>2, <3>1, LoopExists, Zenon
  <2>5. ASSUME NEW m \in 0 .. n - 1 PROVE f[m + 1] = After(f[m], m)
    <3>1. f[m] \in Int
      OBVIOUS
    <3> QED
      BY <2>3, <2>4, <3>1 DEF Runs
  <2> QED
    BY <2>4, <2>5 DEF Runs
<1>2. PICK f \in [0..n -> Int] : Follows(f)
  BY <1>1
<1>3. f = All(f)
  <2>1. ASSUME NEW m \in 0..n PROVE f[m] = All(f)[m]
    <3>1. CASE m = 0
      BY <1>2, <3>1
    <3>2. CASE m # 0
      <4>1. m - 1 \in 0 .. n - 1 /\ (m - 1) + 1 = m
        BY <3>2
      <4> QED
        BY <1>2, <3>2, <4>1
    <3> QED
      BY <3>1, <3>2
  <2> QED
    BY <2>1
<1>4. F = All(F)
  BY <1>3
<1>5. R!Power(x, n, c) = F[n]
  BY DEF R!Power, R!Loop
<1> HIDE DEF F
<1>6. F \in [0..n -> Int] /\ Follows(F)
  <2>1. Follows(F)
    BY <1>4
  <2>2. \A m \in 0..n : F[m] = f[m]
    <3>1. Alike(F, f, n)
      BY <1>2, <2>1 DEF Alike
    <3> QED
      BY <3>1, SameLoop
  <2> QED
    BY <1>4, <2>1, <2>2
<1> QED
  BY <1>5, <1>6 DEF PowerRuns


(* The power of OpIsPower, reduced at every multiplication, is the power    *)
(* modulo c.                                                                *)
LEMMA PowerIsPow ==
  ASSUME NEW x \in Int, NEW n \in Nat, NEW c \in Nat \ {0}
  PROVE  R!Power(x, n, c) = R!Pow(x, n) % c
<1>1. PICK f \in [0..n -> Int] : PowerRuns(f, x, n, c)
  BY PowerLoop
<1> DEFINE D == {j \in Nat : j <= n => f[j] = R!Pow(x, j) % c}
<1>2. 0 \in D
  <2>1. f[0] = 1 % c /\ R!Pow(x, 0) = 1
    BY <1>1, PowStep DEF PowerRuns
  <2> QED
    BY <2>1
<1>3. ASSUME NEW j \in Nat, j \in D PROVE j + 1 \in D
  <2> SUFFICES ASSUME j + 1 <= n PROVE f[j + 1] = R!Pow(x, j + 1) % c
    OBVIOUS
  <2> DEFINE p == R!Pow(x, j)
  <2>1. j \in 0 .. n - 1
    OBVIOUS
  <2>2. f[j + 1] = (f[j] * x) % c
    BY <1>1, <2>1 DEF PowerRuns
  <2>3. f[j] = p % c
    BY <1>3
  <2>4. p \in Int /\ R!Pow(x, j + 1) = p * x
    BY PowStep
  <2> HIDE DEF p
  <2>5. ((p % c) * x) % c = (p * x) % c
    BY <2>4, ModTimes
  <2> QED
    BY <2>2, <2>3, <2>4, <2>5
<1> HIDE DEF D
<1>4. n \in D
  BY <1>2, <1>3, SetInduction
<1> QED
  BY <1>1, <1>4 DEF D, PowerRuns

(* An exponent is its lowest bit and twice the rest.                        *)
Kept(r, s, e, c) == (r * R!Pow(s, e)) % c

LEMMA EvenKept ==
  ASSUME NEW r \in Int, NEW s \in Int, NEW h \in Nat, NEW c \in Nat \ {0}
  PROVE  Kept(r, s * s, h, c) = Kept(r, s, 2 * h, c)
  BY PowDouble DEF Kept

LEMMA OddKept ==
  ASSUME NEW r \in Int, NEW s \in Int, NEW h \in Nat, NEW c \in Nat \ {0}
  PROVE  Kept((r * s) % c, s * s, h, c) = Kept(r, s, 2 * h + 1, c)
<1> DEFINE p == R!Pow(s, 2 * h)
<1>1. R!Pow(s * s, h) = p /\ p \in Int /\ R!Pow(s, 2 * h + 1) = p * s
  BY PowDouble
<1> HIDE DEF p
<1>2. (((r * s) % c) * p) % c = ((r * s) * p) % c
  <2>1. r * s \in Int
    OBVIOUS
  <2> QED
    BY <1>1, <2>1, ModTimes
<1>3. (r * s) * p = r * (p * s)
  BY <1>1, SMT
<1> QED
  BY <1>1, <1>2, <1>3 DEF Kept

(* Squaring modulo c changes nothing modulo c.                              *)
LEMMA SquareKept ==
  ASSUME NEW r \in Int, NEW s \in Int, NEW h \in Nat, NEW c \in Nat \ {0}
  PROVE  Kept(r, s % c, h, c) = Kept(r, s, h, c)
<1>1. s % c \in Int /\ (s % c) % c = s % c
  BY ModMod
<1> DEFINE u == s % c
           p == R!Pow(u, h)
           q == R!Pow(s, h)
<1> HIDE DEF u
<1>2. u \in Int /\ Congruent(u, s, c) /\ Congruent(r, r, c)
  BY <1>1 DEF u, Congruent
<1>3. Congruent(p, q, c) /\ p \in Int /\ q \in Int
  BY <1>2, PowSame, PowStep
<1> HIDE DEF p, q
<1>4. Congruent(r * p, r * q, c)
  BY <1>2, <1>3, SameTimes
<1> QED
  BY <1>4 DEF Congruent, Kept, p, q, u

LEMMA NothingLeft ==
  ASSUME NEW c \in Nat \ {0}, NEW r \in 0 .. c - 1, NEW s \in Int
  PROVE  Kept(r, s, 0, c) = r
<1>1. R!Pow(s, 0) = 1 /\ r * 1 = r
  BY PowStep
<1>2. r % c = r
  BY SmallMod
<1> QED
  BY <1>1, <1>2 DEF Kept

(* The exponent without its bits below j.                                   *)
LEMMA RestHalves ==
  ASSUME NEW v \in Nat, NEW j \in Nat
  PROVE  /\ v \div R!Pow(2, j) \in Nat /\ v \div R!Pow(2, 0) = v
         /\ v \div R!Pow(2, j)
              = 2 * (v \div R!Pow(2, j + 1)) + ((v \div R!Pow(2, j)) % 2)
         /\ v < R!Pow(2, j) => v \div R!Pow(2, j) = 0
<1> DEFINE p == R!Pow(2, j)
           q == v \div p
           r == v % p
           h == q \div 2
           b == q % 2
<1>1. p \in Nat \ {0} /\ R!Pow(2, j + 1) = p * 2 /\ R!Pow(2, 0) = 1
  <2>1. 2 \in Nat \ {0} /\ 2 \in Int
    OBVIOUS
  <2>2. p \in Nat \ {0}
    BY <2>1, PowPositive
  <2>3. R!Pow(2, j + 1) = p * 2 /\ R!Pow(2, 0) = 1
    BY <2>1, PowStep
  <2> QED
    BY <2>2, <2>3
<1> HIDE DEF p, h, b
<1>2. q \in Int /\ r \in 0 .. p - 1 /\ v = p * q + r
  <2>1. v \in Int
    OBVIOUS
  <2> QED
    BY <1>1, <2>1, Divided
<1> HIDE DEF q, r
<1> USE DEF h, b
<1>3. h \in Int /\ b \in 0..1 /\ q = 2 * h + b
  <2>1. 2 \in Nat \ {0} /\ 2 - 1 = 1
    OBVIOUS
  <2> QED
    BY <1>2, <2>1, Divided
<1> HIDE DEF h, b
<1>4. q \in Nat
  <2>1. q < 0 => p * q <= -p
    BY <1>1, <1>2, SMT
  <2>2. p * q \in Int
    BY <1>1, <1>2
  <2> QED
    BY <1>1, <1>2, <2>1, <2>2
<1>5. v < p => q = 0
  <2>1. q >= 1 => p * q >= p
    BY <1>1, <1>2, SMT
  <2>2. p * q \in Int
    BY <1>1, <1>2
  <2> QED
    BY <1>1, <1>2, <1>4, <2>1, <2>2
<1>6. v \div (p * 2) = h
  <2> DEFINE m == p * 2
             s == p * b + r
  <2>1. m \in Nat \ {0} /\ s \in 0 .. m - 1
    <3>1. b = 0 \/ b = 1
      BY <1>3
    <3>2. p * 0 = 0 /\ p * 1 = p
      BY <1>1
    <3> QED
      BY <1>1, <1>2, <3>1, <3>2
  <2>2. v = m * h + s
    <3>1. p * (2 * h + b) + r = (p * 2) * h + (p * b + r)
      BY <1>1, <1>2, <1>3, SMT
    <3> QED
      BY <1>2, <1>3, <3>1
  <2> HIDE DEF m, s
  <2>3. v \div m = h
    BY <1>3, <2>1, <2>2, Quotient
  <2> QED
    BY <2>3 DEF m
<1>7. v \div 1 = v
  OBVIOUS
<1> QED
  BY <1>1, <1>3, <1>4, <1>5, <1>6, <1>7 DEF p, q, b

(* In an accumulator with room for three keys nothing is read behind it.    *)
LEMMA RoomForThree ==
  ASSUME 3 * KeyLimbs <= 2 * MaxLimbs, NEW p \in Wide, NEW n, Digits(n, KeyLimbs),
         R!Number(n, KeyLimbs) # 0
  PROVE  Inside(p, n)
<1> USE Limbed
<1> DEFINE v == R!Number(p, 2 * KeyLimbs)
           num == R!Number(n, KeyLimbs)
           align == R!Msb(v) - R!Msb(num)
           z == LimbBits * (2 * KeyLimbs)
<1>1. v \in Nat /\ v < W(2 * KeyLimbs)
  <2>1. Digits(p, 2 * KeyLimbs) /\ 2 * KeyLimbs \in Nat
    BY WideDigits
  <2> QED
    BY <2>1, NumberIsInt
<1>2. num \in Nat \ {0} /\ num < W(2 * KeyLimbs)
  <2>1. num \in Nat /\ num < W(KeyLimbs) /\ num # 0
    BY NumberIsInt
  <2>2. 2 * KeyLimbs \in Nat /\ KeyLimbs <= 2 * KeyLimbs
    OBVIOUS
  <2>3. W(KeyLimbs) <= W(2 * KeyLimbs) /\ W(KeyLimbs) \in Nat /\ W(2 * KeyLimbs) \in Nat
    BY <2>2, WeightsGrow, Weights
  <2> HIDE DEF num
  <2> QED
    BY <2>1, <2>3
<1>3. align \in Int /\ (align >= 0 => align + 1 <= z) /\ z \in Nat
  <2>1. z \in Nat
    OBVIOUS
  <2> HIDE DEF v, num
  <2> QED
    BY <1>1, <1>2, <2>1, AlignRange
<1> HIDE DEF align
<1>4. align \div LimbBits <= 2 * KeyLimbs - 1 /\ align \div LimbBits \in Int
  <2>1. CASE align >= 0
    <3>1. align \in Nat /\ align < z
      <4> HIDE DEF z
      <4> QED
        BY <1>3, <2>1
    <3>2. align \div LimbBits \in Nat /\ align \div LimbBits <= 2 * KeyLimbs - 1
      <4>1. align < LimbBits * (2 * KeyLimbs)
        BY <3>1
      <4> HIDE DEF z
      <4> QED
        BY <3>1, <4>1, ReachesAll DEF Reaches
    <3> QED
      BY <3>2
  <2>2. CASE ~(align >= 0)
    <3> DEFINE q == align \div LimbBits
               c == align % LimbBits
    <3>1. q \in Int /\ c \in 0 .. LimbBits - 1 /\ align = LimbBits * q + c
      BY <1>3, Divided
    <3> HIDE DEF q, c
    <3>2. q >= 0 => LimbBits * q >= 0
      BY <3>1, SMT
    <3>3. LimbBits * q \in Int
      BY <3>1
    <3>4. q < 0
      BY <1>3, <2>2, <3>1, <3>2, <3>3
    <3> QED
      BY <3>1, <3>4 DEF q
  <2> QED
    BY <2>1, <2>2
<1> DEFINE y == align \div LimbBits
<1>5. Inside(p, n) <=> y + KeyLimbs < 2 * MaxLimbs
  BY DEF Inside, align
<1> HIDE DEF y
<1>6. y + KeyLimbs < 2 * MaxLimbs
  BY <1>4 DEF y
<1> QED
  BY <1>5, <1>6

(* bn_mulmod: the product of two numbers, modulo the key's.                 *)
LEMMA ProductsIsProduct ==
  ASSUME 3 * KeyLimbs <= 2 * MaxLimbs, k.n \in 1 .. W(KeyLimbs) - 1,
         NEW x \in 0 .. W(KeyLimbs) - 1, NEW y \in 0 .. W(KeyLimbs) - 1
  PROVE  R!Products(x, y) = {(x * y) % k.n}
<1> USE Limbed
<1> DEFINE a == R!Limbs(x, KeyLimbs)
           b == R!Limbs(y, KeyLimbs)
           n == R!Limbs(k.n, KeyLimbs)
           p == R!bn_mul(a, b)
<1>0. W(KeyLimbs) \in Nat \ {0}
  BY Weights
<1>1. k.n \in 0 .. W(KeyLimbs) - 1 /\ k.n # 0
  <2> DEFINE w == W(KeyLimbs)
  <2>1. w \in Nat \ {0}
    BY <1>0
  <2> HIDE DEF w
  <2>2. k.n \in 1 .. w - 1 => k.n \in 0 .. w - 1 /\ k.n # 0
    BY <2>1
  <2> QED
    BY <2>2 DEF w
<1>2. Digits(a, KeyLimbs) /\ R!Number(a, KeyLimbs) = x
  BY LimbsNumber
<1>3. Digits(b, KeyLimbs) /\ R!Number(b, KeyLimbs) = y
  BY LimbsNumber
<1>4. Digits(n, KeyLimbs) /\ R!Number(n, KeyLimbs) = k.n
  BY <1>1, LimbsNumber
<1>5. p \in Wide /\ R!Number(p, 2 * KeyLimbs) = x * y
  <2> HIDE DEF a, b
  <2>1. p \in Wide /\ R!Number(p, 2 * KeyLimbs) = R!Number(a, KeyLimbs) * R!Number(b, KeyLimbs)
    BY <1>2, <1>3, MulIsProduct
  <2> QED
    BY <1>2, <1>3, <2>1
<1>6. ASSUME NEW beyond
      PROVE  R!Number(R!bn_reduce(p, n, beyond), KeyLimbs) = (x * y) % k.n
  <2> HIDE DEF p, n
  <2>1. R!Number(R!bn_reduce(p, n, beyond), KeyLimbs)
          = R!Number(p, 2 * KeyLimbs) % R!Number(n, KeyLimbs)
    BY <1>1, <1>4, <1>5, RoomForThree, ReduceIsRemainder
  <2> QED
    BY <1>4, <1>5, <2>1
<1>7. R!Products(x, y) = {R!Number(R!bn_reduce(p, n, beyond), KeyLimbs) : beyond \in {0}}
  BY DEF R!Products
<1> DEFINE z == R!Number(R!bn_reduce(p, n, 0), KeyLimbs)
<1>8. R!Products(x, y) = {z}
  BY <1>7
<1>9. z = (x * y) % k.n
  BY <1>6
<1> HIDE DEF z
<1> QED
  BY <1>8, <1>9

(* The power that the operation in progress is to compute, and what is left *)
(* of its exponent at bit j.                                                *)
Wanted == R!Pow(input, R!Exponent) % k.n

Rest(j) == R!Exponent \div R!Pow(2, j)

RsaTypeOK ==
  /\ k \in Keys /\ msg \in Messages
  /\ op \in {"pub", "priv"} /\ turn \in {"mul", "square", "done"}
  /\ bit \in Nat /\ bit <= R!Msb(R!Exponent) + 1
  /\ res \in 0 .. k.n - 1 /\ sq \in 0 .. W(KeyLimbs) - 1 /\ input \in 0 .. W(KeyLimbs) - 1

RsaInv ==
  /\ RsaTypeOK
  /\ op = "pub" => input = msg /\ enc = -1 /\ turn # "done"
  /\ op = "priv" => input = enc /\ enc = R!Power(msg, k.e, k.n)
  /\ turn = "done" => dec = R!Power(enc, k.d, k.n)
  /\ turn # "done" => dec = -1
  /\ turn = "mul" => Kept(res, sq, Rest(bit), k.n) = Wanted
  /\ turn = "square" => /\ bit <= R!Msb(R!Exponent)
                        /\ Kept(res, sq * sq, Rest(bit + 1), k.n) = Wanted

LEMMA KeyRange ==
  ASSUME NEW x \in Keys
  PROVE  /\ x.n \in 1 .. W(KeyLimbs) - 1 /\ x.n \in Nat \ {0} /\ 1 \in 0 .. x.n - 1 /\ x.n <= W(KeyLimbs)
         /\ x.e \in Nat /\ x.e < W(2 * KeyLimbs) /\ x.d \in Nat /\ x.d < W(2 * KeyLimbs)
<1> DEFINE w == W(KeyLimbs)
           v == W(2 * KeyLimbs)
<1>1. x.n \in 2 .. w - 1 /\ x.e \in 0 .. w - 1 /\ x.d \in 0 .. w - 1
  BY DemoBounds DEF R!RsaBounds, W
<1>2. w \in Nat /\ v \in Nat /\ w <= v
  <2>1. KeyLimbs \in Nat /\ 2 * KeyLimbs \in Nat /\ KeyLimbs <= 2 * KeyLimbs
    BY Limbed
  <2>2. w <= v
    BY <2>1, WeightsGrow
  <2> QED
    BY <2>1, <2>2, Weights
<1> HIDE DEF w, v
<1>3. /\ x.n \in 1 .. w - 1 /\ x.n \in Nat \ {0} /\ 1 \in 0 .. x.n - 1 /\ x.n <= w
      /\ x.e \in Nat /\ x.e < v /\ x.d \in Nat /\ x.d < v
  BY <1>1, <1>2
<1> QED
  BY <1>3 DEF w, v

LEMMA MsbRange ==
  ASSUME NEW v \in Nat, v < W(2 * KeyLimbs)
  PROVE  R!Msb(v) \in Int /\ R!Msb(v) + 1 \in Nat /\ v < R!Pow(2, R!Msb(v) + 1)
<1>1. CASE v = 0
  <2>1. R!Msb(v) = -1
    BY <1>1, MsbIsTop
  <2>2. R!Pow(2, 0) = 1
    <3>1. 2 \in Int
      OBVIOUS
    <3> QED
      BY <3>1, PowStep
  <2>3. -1 + 1 = 0 /\ -1 \in Int
    OBVIOUS
  <2> QED
    BY <1>1, <2>1, <2>2, <2>3
<1>2. CASE v # 0
  <2> DEFINE z == LimbBits * (2 * KeyLimbs)
             x == R!Msb(v)
  <2>1. x \in 0 .. z - 1 /\ v < R!Pow(2, x + 1)
    BY <1>2, MsbIsTop
  <2>2. z \in Nat
    BY Limbed
  <2> HIDE DEF z, x
  <2>3. x \in Int /\ x + 1 \in Nat
    BY <2>1, <2>2
  <2> QED
    BY <2>1, <2>3 DEF x
<1> QED
  BY <1>1, <1>2

LEMMA ExponentRange ==
  ASSUME RsaTypeOK
  PROVE  /\ R!Exponent \in Nat /\ R!Exponent < W(2 * KeyLimbs)
         /\ R!Msb(R!Exponent) \in Int /\ R!Msb(R!Exponent) + 1 \in Nat
         /\ Rest(R!Msb(R!Exponent) + 1) = 0
<1>1. k \in Keys
  BY DEF RsaTypeOK
<1>2. R!Exponent \in Nat /\ R!Exponent < W(2 * KeyLimbs)
  BY <1>1, KeyRange DEF R!Exponent
<1> DEFINE v == R!Exponent
           j == R!Msb(v) + 1
<1>3. v \in Nat /\ v < W(2 * KeyLimbs)
  BY <1>2
<1> HIDE DEF v
<1>4. R!Msb(v) \in Int /\ j \in Nat /\ v < R!Pow(2, j)
  BY <1>3, MsbRange
<1> HIDE DEF j
<1>5. v \div R!Pow(2, j) = 0
  BY <1>3, <1>4, RestHalves
<1> QED
  BY <1>2, <1>4, <1>5 DEF Rest, v, j

(* Where the exponent ends, the result is the power.                        *)
LEMMA PowerDone ==
  ASSUME RsaInv, turn = "mul", bit > R!Msb(R!Exponent)
  PROVE  res = R!Power(input, R!Exponent, k.n) /\ res \in 0 .. W(KeyLimbs) - 1 /\ res \in Nat
<1> DEFINE top == R!Msb(R!Exponent)
<1>1. /\ k \in Keys /\ bit \in Nat /\ bit <= top + 1 /\ res \in 0 .. k.n - 1
      /\ sq \in 0 .. W(KeyLimbs) - 1 /\ input \in 0 .. W(KeyLimbs) - 1
  BY DEF RsaInv, RsaTypeOK
<1>2. /\ k.n \in Nat \ {0} /\ k.n <= W(KeyLimbs) /\ W(KeyLimbs) \in Nat \ {0}
  BY <1>1, KeyRange, Weights, Limbed
<1>3. R!Exponent \in Nat /\ top \in Int /\ Rest(top + 1) = 0
  BY ExponentRange DEF RsaInv
<1>4. bit = top + 1
  <2> HIDE DEF top
  <2>1. bit > top
    BY DEF top
  <2> QED
    BY <1>1, <1>3, <2>1
<1>5. Kept(res, sq, 0, k.n) = Wanted
  BY <1>3, <1>4 DEF RsaInv
<1>6. sq \in Int /\ input \in Int
  BY <1>1, <1>2
<1>7. Kept(res, sq, 0, k.n) = res
  BY <1>1, <1>2, <1>6, NothingLeft
<1>8. R!Power(input, R!Exponent, k.n) = Wanted
  BY <1>2, <1>3, <1>6, PowerIsPow DEF Wanted
<1>9. res \in 0 .. W(KeyLimbs) - 1 /\ res \in Nat
  BY <1>1, <1>2
<1> QED
  BY <1>5, <1>7, <1>8, <1>9

(* An operation that begins has everything left.                            *)
LEMMA PowerBegins ==
  ASSUME NEW v \in Nat, NEW x \in Int, NEW c \in Nat \ {0}, v < W(2 * KeyLimbs)
  PROVE  /\ 0 <= R!Msb(v) + 1
         /\ Kept(1, x, v \div R!Pow(2, 0), c) = R!Pow(x, v) % c
<1>1. R!Msb(v) + 1 \in Nat
  BY MsbRange
<1>2. v \div R!Pow(2, 0) = v
  <2>1. 0 \in Nat
    OBVIOUS
  <2> QED
    BY <2>1, RestHalves
<1>3. R!Pow(x, v) \in Int
  BY PowStep
<1>4. 1 * R!Pow(x, v) = R!Pow(x, v)
  BY <1>3
<1> QED
  BY <1>1, <1>2, <1>4 DEF Kept

LEMMA RsaInit == Init => RsaInv
<1> SUFFICES ASSUME Init PROVE RsaInv
  OBVIOUS
<1>1. /\ k \in Keys /\ msg \in Messages /\ op = "pub" /\ input = msg /\ bit = 0 /\ turn = "mul"
      /\ res = 1 /\ sq = msg /\ enc = -1 /\ dec = -1
  BY DEF Init, R!Init
<1>2. /\ k.n \in Nat \ {0} /\ 1 \in 0 .. k.n - 1 /\ k.e \in Nat /\ k.e < W(2 * KeyLimbs)
      /\ msg \in 0 .. W(KeyLimbs) - 1 /\ R!Exponent = k.e
  <2>1. msg \in 0 .. W(KeyLimbs) - 1
    BY <1>1, DemoBounds DEF R!RsaBounds, W
  <2>2. R!Exponent = k.e
    BY <1>1 DEF R!Exponent
  <2> QED
    BY <1>1, <2>1, <2>2, KeyRange
<1>3. msg \in Int
  <2>1. W(KeyLimbs) \in Nat
    BY Weights, Limbed
  <2> QED
    BY <1>2, <2>1
<1>4. /\ 0 <= R!Msb(k.e) + 1
      /\ Kept(1, msg, k.e \div R!Pow(2, 0), k.n) = R!Pow(msg, k.e) % k.n
  BY <1>2, <1>3, PowerBegins
<1>5. Kept(res, sq, Rest(bit), k.n) = Wanted
  BY <1>1, <1>2, <1>4 DEF Rest, Wanted
<1>6. RsaTypeOK
  BY <1>1, <1>2, <1>4 DEF RsaTypeOK
<1> QED
  BY <1>1, <1>5, <1>6 DEF RsaInv

(* A bit of the exponent is taken into the result.                          *)
LEMMA MultiplyStep ==
  ASSUME 3 * KeyLimbs <= 2 * MaxLimbs, RsaInv, R!Multiply
  PROVE  RsaInv'
<1>1. /\ turn = "mul" /\ bit <= R!Msb(R!Exponent) /\ turn' = "square"
      /\ k' = k /\ msg' = msg /\ op' = op /\ input' = input /\ bit' = bit /\ sq' = sq
      /\ enc' = enc /\ dec' = dec
      /\ IF R!BitSet(bit) THEN res' \in R!Products(res, sq) ELSE res' = res
  BY DEF R!Multiply
<1>2. /\ k \in Keys /\ bit \in Nat /\ res \in 0 .. k.n - 1 /\ sq \in 0 .. W(KeyLimbs) - 1
      /\ Kept(res, sq, Rest(bit), k.n) = Wanted
  BY <1>1 DEF RsaInv, RsaTypeOK
<1>3. R!Exponent' = R!Exponent /\ Wanted' = Wanted /\ \A j \in Nat : Rest(j)' = Rest(j)
  BY <1>1 DEF R!Exponent, Wanted, Rest
<1>4. /\ k.n \in Nat \ {0} /\ k.n \in 1 .. W(KeyLimbs) - 1 /\ k.n <= W(KeyLimbs)
      /\ W(KeyLimbs) \in Nat
  BY <1>2, KeyRange, Weights, Limbed
<1>5. res \in Int /\ sq \in Int /\ res \in 0 .. W(KeyLimbs) - 1
  BY <1>2, <1>4
<1> DEFINE h == Rest(bit + 1)
           b == Rest(bit) % 2
<1>6. h \in Nat /\ Rest(bit) = 2 * h + b /\ Rest(bit) \in Nat
  <2>1. R!Exponent \in Nat /\ bit + 1 \in Nat
    BY <1>2, ExponentRange DEF RsaInv
  <2> DEFINE v == R!Exponent
  <2> HIDE DEF v
  <2>2. v \in Nat
    BY <2>1 DEF v
  <2>3. v \div R!Pow(2, bit) \in Nat
        /\ v \div R!Pow(2, bit) = 2 * (v \div R!Pow(2, bit + 1)) + ((v \div R!Pow(2, bit)) % 2)
    BY <1>2, <2>2, RestHalves
  <2>4. v \div R!Pow(2, bit + 1) \in Nat
    BY <2>1, <2>2, RestHalves
  <2> QED
    BY <2>3, <2>4 DEF Rest, v
<1>7. R!BitSet(bit) <=> b = 1
  BY DEF R!BitSet, Rest
<1>8. b = 0 \/ b = 1
  <2> DEFINE r == Rest(bit)
  <2>1. r \in Int /\ 2 \in Nat \ {0} /\ 2 - 1 = 1
    BY <1>6
  <2> HIDE DEF r
  <2>2. r % 2 \in 0 .. 1
    BY <2>1, Divided
  <2> QED
    BY <2>2 DEF r
<1> HIDE DEF h, b
<1>9. res' \in 0 .. k.n - 1 /\ Kept(res', sq * sq, h, k.n) = Wanted
  <2>1. CASE b = 1
    <3>1. res' = (res * sq) % k.n
      BY <1>1, <1>2, <1>4, <1>5, <1>7, <2>1, ProductsIsProduct
    <3>2. res * sq \in Int
      BY <1>5
    <3>3. (res * sq) % k.n \in 0 .. k.n - 1
      BY <1>4, <3>2, ModMod
    <3>4. Kept((res * sq) % k.n, sq * sq, h, k.n) = Kept(res, sq, 2 * h + 1, k.n)
      BY <1>4, <1>5, <1>6, OddKept
    <3> QED
      BY <1>2, <1>6, <2>1, <3>1, <3>3, <3>4
  <2>2. CASE b = 0
    <3>1. res' = res
      BY <1>1, <1>7, <2>2
    <3>2. Kept(res, sq * sq, h, k.n) = Kept(res, sq, 2 * h, k.n)
      BY <1>4, <1>5, <1>6, EvenKept
    <3>3. Rest(bit) = 2 * h
      BY <1>6, <2>2
    <3> QED
      BY <1>2, <3>1, <3>2, <3>3
  <2> QED
    BY <1>8, <2>1, <2>2
<1>10. RsaTypeOK'
  BY <1>1, <1>3, <1>9 DEF RsaInv, RsaTypeOK
<1>11. Kept(res, sq * sq, Rest(bit + 1), k.n)' = Wanted'
  <2>1. Rest(bit + 1)' = h
    BY <1>1, <1>3 DEF h, Rest
  <2> QED
    BY <1>1, <1>3, <1>9, <2>1 DEF Kept
<1> QED
  BY <1>1, <1>3, <1>10, <1>11 DEF RsaInv

(* The square goes along, except for the last bit, after which nothing is   *)
(* left for it.                                                             *)
LEMMA SquareStep ==
  ASSUME 3 * KeyLimbs <= 2 * MaxLimbs, RsaInv, R!Square
  PROVE  RsaInv'
<1>1. /\ turn = "square" /\ turn' = "mul" /\ bit' = bit + 1
      /\ k' = k /\ msg' = msg /\ op' = op /\ input' = input /\ res' = res
      /\ enc' = enc /\ dec' = dec
      /\ IF bit < R!Msb(R!Exponent) THEN sq' \in R!Products(sq, sq) ELSE sq' = sq
  BY DEF R!Square
<1>2. /\ k \in Keys /\ bit \in Nat /\ res \in 0 .. k.n - 1 /\ sq \in 0 .. W(KeyLimbs) - 1
      /\ bit <= R!Msb(R!Exponent) /\ Kept(res, sq * sq, Rest(bit + 1), k.n) = Wanted
  BY <1>1 DEF RsaInv, RsaTypeOK
<1>3. R!Exponent' = R!Exponent /\ Wanted' = Wanted /\ \A j \in Nat : Rest(j)' = Rest(j)
  BY <1>1 DEF R!Exponent, Wanted, Rest
<1>4. /\ k.n \in Nat \ {0} /\ k.n \in 1 .. W(KeyLimbs) - 1 /\ k.n <= W(KeyLimbs)
      /\ W(KeyLimbs) \in Nat
  BY <1>2, KeyRange, Weights, Limbed
<1>5. res \in Int /\ sq \in Int /\ sq * sq \in Int /\ bit + 1 \in Nat
  BY <1>2, <1>4
<1>6. /\ R!Exponent \in Nat /\ R!Msb(R!Exponent) \in Int
      /\ Rest(R!Msb(R!Exponent) + 1) = 0 /\ Rest(bit + 1) \in Nat
  <2>1. /\ R!Exponent \in Nat /\ R!Msb(R!Exponent) \in Int
        /\ Rest(R!Msb(R!Exponent) + 1) = 0
    BY ExponentRange DEF RsaInv
  <2>2. Rest(bit + 1) \in Nat
    BY <1>5, <2>1, RestHalves DEF Rest
  <2> QED
    BY <2>1, <2>2
<1> DEFINE h == Rest(bit + 1)
           top == R!Msb(R!Exponent)
<1>7. sq' \in 0 .. W(KeyLimbs) - 1 /\ Kept(res, sq', h, k.n) = Wanted
  <2>1. CASE bit < top
    <3>1. sq' = (sq * sq) % k.n
      BY <1>1, <1>2, <1>4, <2>1, ProductsIsProduct
    <3>2. (sq * sq) % k.n \in 0 .. k.n - 1
      BY <1>4, <1>5, ModMod
    <3>3. (sq * sq) % k.n \in 0 .. W(KeyLimbs) - 1
      <4> DEFINE u == (sq * sq) % k.n
      <4>1. u \in 0 .. k.n - 1
        BY <3>2
      <4> HIDE DEF u
      <4>2. u \in 0 .. W(KeyLimbs) - 1
        BY <1>4, <4>1
      <4> QED
        BY <4>2 DEF u
    <3>4. Kept(res, (sq * sq) % k.n, h, k.n) = Kept(res, sq * sq, h, k.n)
      <4> DEFINE s == sq * sq
      <4>1. s \in Int /\ h \in Nat
        BY <1>5, <1>6
      <4> HIDE DEF s, h
      <4>2. Kept(res, s % k.n, h, k.n) = Kept(res, s, h, k.n)
        BY <1>4, <1>5, <4>1, SquareKept, ZenonT(30)
      <4> QED
        BY <4>2 DEF s
    <3> QED
      BY <1>2, <3>1, <3>3, <3>4
  <2>2. CASE ~(bit < top)
    <3>1. sq' = sq
      BY <1>1, <2>2
    <3>2. h = 0
      <4>1. bit = top
        <5> HIDE DEF top
        <5>1. bit <= top /\ top \in Int
          BY <1>2, <1>6 DEF top
        <5> QED
          BY <1>2, <2>2, <5>1
      <4> QED
        BY <1>6, <4>1
    <3>3. Kept(res, sq, 0, k.n) = res
      BY <1>2, <1>4, <1>5, NothingLeft
    <3>4. Kept(res, sq * sq, 0, k.n) = res
      <4> DEFINE s == sq * sq
      <4>1. s \in Int
        BY <1>5
      <4> HIDE DEF s
      <4>2. Kept(res, s, 0, k.n) = res
        BY <1>2, <1>4, <4>1, NothingLeft
      <4> QED
        BY <4>2 DEF s
    <3> QED
      BY <1>2, <3>1, <3>2, <3>3, <3>4
  <2> QED
    BY <2>1, <2>2
<1>8. bit + 1 <= top + 1
  <2> HIDE DEF top
  <2>1. bit <= top /\ top \in Int
    BY <1>2, <1>6 DEF top
  <2> QED
    BY <1>2, <2>1
<1>9. RsaTypeOK'
  BY <1>1, <1>3, <1>5, <1>7, <1>8 DEF RsaInv, RsaTypeOK
<1>10. Kept(res, sq, Rest(bit), k.n)' = Wanted'
  <2>1. Rest(bit)' = h
    BY <1>1, <1>3, <1>5 DEF Rest
  <2> QED
    BY <1>1, <1>3, <1>7, <2>1 DEF Kept
<1> QED
  BY <1>1, <1>9, <1>10 DEF RsaInv

LEMMA PubStep == ASSUME RsaInv, R!PubDone PROVE RsaInv'
<1>1. /\ op = "pub" /\ turn = "mul" /\ bit > R!Msb(R!Exponent)
      /\ enc' = res /\ op' = "priv" /\ input' = res /\ bit' = 0 /\ turn' = "mul"
      /\ res' = 1 /\ sq' = res /\ k' = k /\ msg' = msg /\ dec' = dec
  BY DEF R!PubDone, R!Begin
<1>2. k \in Keys /\ msg \in Messages /\ input = msg /\ dec = -1
  BY <1>1 DEF RsaInv, RsaTypeOK
<1>3. res = R!Power(input, R!Exponent, k.n) /\ res \in 0 .. W(KeyLimbs) - 1 /\ res \in Nat
  BY <1>1, PowerDone
<1>4. R!Exponent = k.e /\ R!Exponent' = k.d
  BY <1>1 DEF R!Exponent
<1>5. k.n \in Nat \ {0} /\ 1 \in 0 .. k.n - 1 /\ k.d \in Nat /\ k.d < W(2 * KeyLimbs) /\ res \in Int
  BY <1>2, <1>3, KeyRange
<1>6. /\ 0 <= R!Msb(k.d) + 1
      /\ Kept(1, res, k.d \div R!Pow(2, 0), k.n) = R!Pow(res, k.d) % k.n
  BY <1>5, PowerBegins
<1>7. Kept(res, sq, Rest(bit), k.n)' = Wanted'
  BY <1>1, <1>4, <1>6 DEF Kept, Rest, Wanted
<1>8. RsaTypeOK'
  BY <1>1, <1>2, <1>3, <1>4, <1>5, <1>6 DEF RsaTypeOK
<1> QED
  BY <1>1, <1>2, <1>3, <1>4, <1>7, <1>8 DEF RsaInv

LEMMA PrivStep == ASSUME RsaInv, R!PrivDone PROVE RsaInv'
<1>1. /\ op = "priv" /\ turn = "mul" /\ bit > R!Msb(R!Exponent)
      /\ dec' = res /\ turn' = "done" /\ op' = op
      /\ k' = k /\ msg' = msg /\ input' = input /\ bit' = bit /\ res' = res /\ sq' = sq /\ enc' = enc
  BY DEF R!PrivDone
<1>2. res = R!Power(input, R!Exponent, k.n)
  BY <1>1, PowerDone
<1>3. R!Exponent = k.d /\ R!Exponent' = R!Exponent /\ input = enc
  BY <1>1 DEF R!Exponent, RsaInv
<1>4. RsaTypeOK'
  BY <1>1, <1>3 DEF RsaInv, RsaTypeOK
<1> QED
  BY <1>1, <1>2, <1>3, <1>4 DEF RsaInv

LEMMA RsaNext ==
  ASSUME 3 * KeyLimbs <= 2 * MaxLimbs, RsaInv, [R!Next]_rsa
  PROVE  RsaInv'
<1>1. CASE UNCHANGED rsa
  <2>1. /\ k' = k /\ msg' = msg /\ op' = op /\ input' = input /\ bit' = bit /\ turn' = turn
        /\ res' = res /\ sq' = sq /\ enc' = enc /\ dec' = dec
    BY <1>1 DEF rsa
  <2>2. R!Exponent' = R!Exponent
    BY <2>1 DEF R!Exponent
  <2>3. RsaTypeOK'
    BY <2>1, <2>2 DEF RsaInv, RsaTypeOK
  <2>4. Wanted' = Wanted /\ Rest(bit)' = Rest(bit) /\ Rest(bit + 1)' = Rest(bit + 1)
    BY <2>1, <2>2 DEF Wanted, Rest
  <2> QED
    BY <2>1, <2>2, <2>3, <2>4 DEF RsaInv, Kept
<1>2. CASE R!Next
  BY <1>2, MultiplyStep, SquareStep, PubStep, PrivStep DEF R!Next
<1> QED
  BY <1>1, <1>2

LEMMA PowersRight == RsaInv => OpIsPower
<1> SUFFICES ASSUME RsaInv PROVE R!OpIsPower
  BY DEF OpIsPower
<1>1. op = "pub" \/ op = "priv"
  BY DEF RsaInv, RsaTypeOK
<1>2. k \in Keys /\ msg \in Messages
  BY DEF RsaInv, RsaTypeOK
<1>3. enc # -1 => enc = R!Power(msg, k.e, k.n)
  BY <1>1 DEF RsaInv
<1>4. ASSUME dec # -1
      PROVE  dec = R!Power(enc, k.d, k.n) /\ (msg < k.n => dec = msg)
  <2>1. turn = "done" /\ op = "priv"
    BY <1>1, <1>4 DEF RsaInv
  <2>2. dec = R!Power(enc, k.d, k.n) /\ enc = R!Power(msg, k.e, k.n)
    BY <2>1 DEF RsaInv
  <2>3. msg < k.n => R!Power(R!Power(msg, k.e, k.n), k.d, k.n) = msg
    BY <1>2, DemoBounds DEF R!RsaBounds
  <2> QED
    BY <2>2, <2>3
<1> QED
  BY <1>3, <1>4 DEF R!OpIsPower

(* RSA_PubOp and RSA_PrivOp are powers modulo n, and so the private         *)
(* operation undoes the public one on the test vectors, for every width of  *)
(* a limb, every number of limbs, every modulus, exponent and message, if   *)
(* the accumulator of 2 * MaxLimbs limbs has room for three keys.           *)
THEOREM PowersAreRight ==
  ASSUME 3 * KeyLimbs <= 2 * MaxLimbs
  PROVE  Spec => []OpIsPower
<1>1. Init => RsaInv
  BY RsaInit
<1>2. RsaInv /\ [Next]_vars => RsaInv'
  BY RsaNext, ImageStep
<1>3. RsaInv => OpIsPower
  BY PowersRight
<1> QED
  BY <1>1, <1>2, <1>3, PTL DEF Spec

================================================================================
