--------------------------- MODULE BootWindowProofs ---------------------------
(***************************************************************************)
(* What the clock of BootWindow promises, for every width of the counter    *)
(* and every choice of the times: the window closes when it should, and     *)
(* READY lines come neither too late nor too early.                         *)
(***************************************************************************)
EXTENDS BootWindow, TLAPS

----------------------------------------------------------------------------
(* The inductive invariant *)

(* Cycles since the counter read t, as long as they fit.                    *)
Since(t) == Minus(cyc, t)

TypeOK ==
  /\ forever \in BOOLEAN /\ isOpen \in BOOLEAN /\ openEvent \in BOOLEAN
  /\ cyc \in 0 .. Wrap - 1 /\ now \in 0 .. Wrap - 1
  /\ deadline \in 0 .. Wrap - 1 /\ readyLast \in 0 .. Wrap - 1
  /\ left \in Int /\ sinceOpen \in Nat /\ sinceReady \in Nat
  /\ pc \in {"Flush", "Test", "Service", "Poll", "Announce", "Button"} \cup Ended
  /\ pc \in {"Poll", "Announce"} => now = cyc

(* The deadline is what is left of the window ahead of the counter, and     *)
(* the loop never lets it fall further behind than a turn.                  *)
DeadlineInv ==
  /\ pc = "NONE" => ~forever
  /\ ~forever =>
       /\ deadline = (cyc + left) % Wrap
       /\ left <= WAIT \/ left <= GRACE
       /\ left > -Slack
       /\ pc \in {"Flush", "Service"} => left > 0
       /\ pc \in {"Poll", "Announce"} => left > -Slice
       /\ pc = "NONE" => left <= 0

(* The event of an opened port is taken before READY is looked at again.    *)
OpenInv ==
  /\ openEvent => pc # "Announce"
  /\ openEvent /\ pc \notin Ended => sinceOpen <= Slack + Slice
  /\ openEvent /\ pc \in {"Flush", "Test", "Service", "Button"} => sinceOpen <= Slack
  /\ openEvent /\ pc = "Flush" => sinceOpen = 0

(* While a host may wait for READY, ready_last is not older than REPEAT and *)
(* a turn - so it cannot wrap - and it is the time of the last line, or     *)
(* DELAY from due since the opening was noticed.                            *)
ReadyInv ==
  ~openEvent /\ (forever \/ isOpen) /\ pc \notin Ended =>
    /\ pc = "Flush" => readyLast = cyc
    /\ Since(readyLast) <= REPEAT + Slice
    /\ pc \notin {"Poll", "Announce"} => Since(readyLast) <= REPEAT
    /\ \/ sinceReady = Since(readyLast)
       \/ sinceOpen + REPEAT <= Since(readyLast) + DELAY + Slack + Slice

(* For the first DELAY of an opened port READY is not due.                  *)
FreshInv ==
  ~openEvent /\ sinceOpen < DELAY => Since(readyLast) + DELAY <= REPEAT + sinceOpen

IInv == TypeOK /\ DeadlineInv /\ OpenInv /\ ReadyInv /\ FreshInv
----------------------------------------------------------------------------
(* The counter *)

(* The assumption, taken apart.                                             *)
LEMMA Sizes ==
  /\ Wrap \in Nat \ {0} /\ 2 * (Wrap \div 2) = Wrap /\ Wrap \div 2 \in Nat
  /\ WAIT \in Nat \ {0} /\ GRACE \in Nat \ {0} /\ REPEAT \in Nat \ {0} /\ DELAY \in Nat \ {0}
  /\ Slice \in Nat \ {0} /\ WriteTime \in Nat
  /\ Slack = Slice + WriteTime /\ Slack \in Nat
  /\ Long = REPEAT + DELAY + 2 * Slack /\ Long \in Nat
  /\ DELAY <= REPEAT /\ Slice <= REPEAT /\ WriteTime <= REPEAT
  /\ WAIT + Slack < Wrap \div 2 /\ GRACE + Slack < Wrap \div 2 /\ REPEAT + Slack < Wrap \div 2
  <1>1. /\ Wrap \in Nat /\ Wrap % 2 = 0 /\ WriteTime \in Nat
        /\ DELAY <= REPEAT /\ Slice <= REPEAT /\ WriteTime <= REPEAT
        /\ WAIT \in Nat \ {0} /\ GRACE \in Nat \ {0} /\ REPEAT \in Nat \ {0} /\ DELAY \in Nat \ {0}
        /\ Slice \in Nat \ {0}
        /\ WAIT + Slack < Wrap \div 2 /\ GRACE + Slack < Wrap \div 2 /\ REPEAT + Slack < Wrap \div 2
    BY TimingAssumption
  <1>2. Wrap # 0
    BY <1>1 DEF Slack
  <1> QED
    BY <1>1, <1>2 DEF Slack, Long

(* Within a turn around the counter, % is a correction by one turn.         *)
LEMMA Around ==
  ASSUME NEW x \in Int, -Wrap <= x, x < 2 * Wrap
  PROVE  x % Wrap = IF x < 0 THEN x + Wrap ELSE IF x < Wrap THEN x ELSE x - Wrap
  <1>1. CASE x < 0
    BY <1>1, Sizes
  <1>2. CASE x >= 0 /\ x < Wrap
    BY <1>2, Sizes
  <1>3. CASE x >= Wrap
    BY <1>3, Sizes
  <1> QED
    BY <1>1, <1>2, <1>3, Sizes

(* The difference of two readings grows with time, as long as it fits.      *)
LEMMA SinceGrows ==
  ASSUME NEW c \in 0 .. Wrap - 1, NEW t \in 0 .. Wrap - 1, NEW d \in Nat, Minus(c, t) + d < Wrap
  PROVE  Minus((c + d) % Wrap, t) = Minus(c, t) + d
  <1>1. Minus(c, t) = IF c < t THEN c - t + Wrap ELSE c - t
    BY Around, Sizes DEF Minus
  <1>2. d < Wrap
    BY <1>1, Sizes
  <1> DEFINE e == (c + d) % Wrap
  <1>3. e = IF c + d < Wrap THEN c + d ELSE c + d - Wrap
    BY <1>2, Around, Sizes
  <1>4. e \in 0 .. Wrap - 1
    BY <1>2, <1>3, Sizes
  <1> HIDE DEF e
  <1>5. Minus(e, t) = IF e < t THEN e - t + Wrap ELSE e - t
    BY <1>4, Around, Sizes DEF Minus
  <1>6. Minus(e, t) = Minus(c, t) + d
    BY <1>1, <1>2, <1>3, <1>5, Sizes
  <1> QED
    BY <1>6 DEF e

(* A moment x away stays the same moment when d has passed.                 *)
LEMMA MomentStays ==
  ASSUME NEW c \in 0 .. Wrap - 1, NEW x \in Int, NEW d \in Nat,
         -(Wrap \div 2) < x - d, x < Wrap \div 2
  PROVE  (((c + d) % Wrap) + (x - d)) % Wrap = (c + x) % Wrap
  <1>1. d < Wrap
    BY Sizes
  <1>2. (c + d) % Wrap = IF c + d < Wrap THEN c + d ELSE c + d - Wrap
    BY <1>1, Around, Sizes
  <1>3. /\ -Wrap <= c + x /\ c + x < 2 * Wrap
        /\ -Wrap <= ((c + d) % Wrap) + (x - d) /\ ((c + d) % Wrap) + (x - d) < 2 * Wrap
    BY <1>1, <1>2, Sizes
  <1> DEFINE y == ((c + d) % Wrap) + (x - d)
             z == c + x
  <1>4. z \in Int /\ y \in Int /\ (y = z \/ y = z - Wrap)
    BY <1>2, Sizes
  <1>5. y % Wrap = IF y < 0 THEN y + Wrap ELSE IF y < Wrap THEN y ELSE y - Wrap
    BY <1>3, <1>4, Around
  <1>6. z % Wrap = IF z < 0 THEN z + Wrap ELSE IF z < Wrap THEN z ELSE z - Wrap
    BY <1>3, <1>4, Around
  <1> HIDE DEF y, z
  <1>7. y % Wrap = z % Wrap
    BY <1>3, <1>4, <1>5, <1>6, Sizes DEF y, z
  <1> QED
    BY <1>7 DEF y, z

(* (int32_t)(a - b) < 0 says which of two moments is first, if they are     *)
(* less than half the counter apart.                                        *)
LEMMA BeforeIsLess ==
  ASSUME NEW c \in 0 .. Wrap - 1, NEW x \in Int, NEW y \in Int,
         -(Wrap \div 2) < x - y, x - y < Wrap \div 2,
         -(Wrap \div 2) < x, x < Wrap \div 2, -(Wrap \div 2) < y, y < Wrap \div 2
  PROVE  Before((c + x) % Wrap, (c + y) % Wrap) <=> x < y
  <1> DEFINE a == (c + x) % Wrap
             b == (c + y) % Wrap
  <1>1. a = IF c + x < 0 THEN c + x + Wrap ELSE IF c + x < Wrap THEN c + x ELSE c + x - Wrap
    BY Around, Sizes
  <1>2. b = IF c + y < 0 THEN c + y + Wrap ELSE IF c + y < Wrap THEN c + y ELSE c + y - Wrap
    BY Around, Sizes
  <1>3. a \in 0 .. Wrap - 1 /\ b \in 0 .. Wrap - 1
    BY <1>1, <1>2, Sizes
  <1> HIDE DEF a, b
  <1>4. Minus(a, b) = IF a < b THEN a - b + Wrap ELSE a - b
    BY <1>3, Around, Sizes DEF Minus
  <1>5. Before(a, b) <=> x < y
    BY <1>1, <1>2, <1>3, <1>4, Sizes DEF Before
  <1> QED
    BY <1>5 DEF a, b

LEMMA MaxOfTwo ==
  ASSUME NEW a \in Int, NEW b \in Int
  PROVE  Max({a, b}) = IF a >= b THEN a ELSE b
  <1> DEFINE P(x) == x \in {a, b} /\ \A y \in {a, b} : x >= y
  <1>1. \E x : P(x)
    OBVIOUS
  <1>2. P(CHOOSE x : P(x))
    BY <1>1, Zenon
  <1>3. Max({a, b}) = CHOOSE x : P(x)
    BY Zenon DEF Max
  <1> QED
    BY <1>2, <1>3

LEMMA MinOfTwo ==
  ASSUME NEW a \in Int, NEW b \in Int
  PROVE  Min({a, b}) = IF a <= b THEN a ELSE b
  <1> DEFINE P(x) == x \in {a, b} /\ \A y \in {a, b} : x <= y
  <1>1. \E x : P(x)
    OBVIOUS
  <1>2. P(CHOOSE x : P(x))
    BY <1>1, Zenon
  <1>3. Min({a, b}) = CHOOSE x : P(x)
    BY Zenon DEF Min
  <1> QED
    BY <1>2, <1>3

----------------------------------------------------------------------------
(* Time passes *)

(* The clocks after d: each d later, or started anew by an opening.         *)
LEMMA Passing ==
  ASSUME TypeOK, NEW d \in 0 .. Slack, NEW ready \in Nat, Pass(d, ready)
  PROVE  /\ cyc' = (cyc + d) % Wrap /\ cyc' \in 0 .. Wrap - 1
         /\ left' \in Int /\ (left - d > -Long => left' = left - d)
         /\ sinceOpen' \in Nat /\ sinceReady' \in Nat
         /\ isOpen' \in BOOLEAN /\ openEvent' \in BOOLEAN
         /\ \/ openEvent' /\ sinceOpen' <= d
            \/ /\ openEvent' = openEvent /\ (isOpen' => isOpen)
               /\ sinceOpen' <= sinceOpen + d
               /\ sinceOpen' < DELAY => sinceOpen' = sinceOpen + d
               /\ ready + d <= REPEAT + Slice => sinceReady' = ready + d
  <1>1. d \in Nat /\ d <= Slack /\ Long \in Nat /\ Wrap \in Nat \ {0}
    BY Sizes
  <1>2. cyc' = (cyc + d) % Wrap /\ cyc' \in 0 .. Wrap - 1
    <2>1. cyc' = (cyc + d) % Wrap /\ cyc + d \in Int
      BY <1>1 DEF Pass, TypeOK
    <2> QED
      BY <1>1, <2>1
  <1>3. left' \in Int /\ (left - d > -Long => left' = left - d)
    <2>1. left' = Max({left - d, -Long}) /\ left - d \in Int /\ -Long \in Int
      BY <1>1 DEF Pass, TypeOK
    <2> QED
      BY <2>1, MaxOfTwo, <1>1 DEF TypeOK
  <1>4. CASE isOpen' = TRUE /\ openEvent' = TRUE /\ sinceOpen' \in 0 .. d /\ sinceReady' = Long
    <2>1. sinceOpen' \in Nat /\ sinceReady' \in Nat /\ sinceOpen' <= d
      BY <1>1, <1>4
    <2>2. isOpen' \in BOOLEAN /\ openEvent' \in BOOLEAN /\ openEvent'
      BY <1>4
    <2> QED
      BY <1>2, <1>3, <2>1, <2>2
  <1>5. CASE /\ isOpen' \in {isOpen, FALSE} /\ UNCHANGED openEvent
             /\ sinceOpen' = Min({sinceOpen + d, Long})
             /\ sinceReady' = Min({ready + d, Long})
    <2>1. sinceOpen' = IF sinceOpen + d <= Long THEN sinceOpen + d ELSE Long
      BY <1>1, <1>5, MinOfTwo DEF TypeOK
    <2>2. sinceReady' = IF ready + d <= Long THEN ready + d ELSE Long
      BY <1>1, <1>5, MinOfTwo
    <2>3. sinceOpen' \in Nat /\ sinceReady' \in Nat /\ sinceOpen' <= sinceOpen + d
      BY <1>1, <2>1, <2>2 DEF TypeOK
    <2>4. sinceOpen' < DELAY => sinceOpen' = sinceOpen + d
      BY <2>1, Sizes DEF TypeOK
    <2>5. ready + d <= REPEAT + Slice => sinceReady' = ready + d
      BY <1>1, <2>2, Sizes
    <2>6. isOpen' \in BOOLEAN /\ openEvent' \in BOOLEAN /\ openEvent' = openEvent /\ (isOpen' => isOpen)
      <3>1. isOpen \in BOOLEAN /\ openEvent \in BOOLEAN /\ openEvent' = openEvent
        BY <1>5 DEF TypeOK
      <3>2. CASE isOpen' = isOpen
        BY <3>1, <3>2
      <3>3. CASE isOpen' = FALSE
        BY <3>1, <3>3
      <3> QED
        BY <1>5, <3>2, <3>3
    <2> QED
      BY <1>2, <1>3, <2>3, <2>4, <2>5, <2>6
  <1> QED
    BY <1>4, <1>5 DEF Pass

(* The deadline stays where it is while the window gets shorter.            *)
LEMMA DeadlineStays ==
  ASSUME TypeOK, DeadlineInv, ~forever, NEW d \in 0 .. Slack, NEW ready \in Nat, Pass(d, ready),
         left - d > -Slack, UNCHANGED deadline
  PROVE  /\ left' = left - d
         /\ deadline' = (cyc' + left') % Wrap
         /\ left' <= WAIT \/ left' <= GRACE
  <1>1. /\ left \in Int /\ deadline = (cyc + left) % Wrap /\ (left <= WAIT \/ left <= GRACE)
        /\ cyc \in 0 .. Wrap - 1 /\ d \in Nat
    BY Sizes DEF TypeOK, DeadlineInv
  <1>2. left' = left - d
    BY <1>1, Passing, Sizes
  <1>3. cyc' = (cyc + d) % Wrap
    BY Passing
  <1>4. -(Wrap \div 2) < left - d /\ left < Wrap \div 2
    BY <1>1, Sizes
  <1>5. (((cyc + d) % Wrap) + (left - d)) % Wrap = (cyc + left) % Wrap
    BY <1>1, <1>4, MomentStays
  <1> QED
    BY <1>1, <1>2, <1>3, <1>5, Sizes

(* While ready_last stays and cannot wrap, time keeps READY's promises.     *)
LEMMA ReadyStays ==
  ASSUME TypeOK, NEW d \in 0 .. Slice, Pass(d, sinceReady), UNCHANGED <<forever, readyLast>>,
         ReadyInv, FreshInv, pc \notin Ended \cup {"Poll", "Announce"}
  PROVE  /\ FreshInv'
         /\ ~openEvent' /\ (forever' \/ isOpen') =>
              /\ Since(readyLast)' <= REPEAT + Slice
              /\ \/ sinceReady' = Since(readyLast)'
                 \/ sinceOpen' + REPEAT <= Since(readyLast)' + DELAY + Slack + Slice
  <1> DEFINE e == Minus(cyc, readyLast)
  <1>1. /\ d \in 0 .. Slack /\ d \in Nat /\ readyLast \in 0 .. Wrap - 1 /\ cyc \in 0 .. Wrap - 1
        /\ sinceOpen \in Nat /\ sinceReady \in Nat /\ e \in 0 .. Wrap - 1
    BY Sizes DEF TypeOK, Minus
  <1>2. e + d < Wrap => Since(readyLast)' = e + d
    BY <1>1, SinceGrows, Passing DEF Since, Minus
  <1>3. CASE openEvent'
    BY <1>3 DEF FreshInv
  <1>4. CASE ~openEvent'
    <2>1. /\ ~openEvent /\ (isOpen' => isOpen) /\ sinceOpen' \in Nat /\ sinceOpen' <= sinceOpen + d
          /\ sinceOpen' < DELAY => sinceOpen' = sinceOpen + d
          /\ sinceReady + d <= REPEAT + Slice => sinceReady' = sinceReady + d
      BY <1>1, <1>4, Passing
    <2>2. FreshInv'
      <3>1. SUFFICES ASSUME sinceOpen' < DELAY PROVE Since(readyLast)' + DELAY <= REPEAT + sinceOpen'
        BY DEF FreshInv
      <3>2. sinceOpen' = sinceOpen + d /\ sinceOpen < DELAY
        BY <1>1, <2>1, <3>1, Sizes
      <3>3. e + DELAY <= REPEAT + sinceOpen
        BY <2>1, <3>2 DEF FreshInv, Since
      <3> HIDE DEF e
      <3> QED
        BY <1>1, <1>2, <3>1, <3>2, <3>3, Sizes
    <2>3. ASSUME forever' \/ isOpen'
          PROVE  /\ Since(readyLast)' <= REPEAT + Slice
                 /\ \/ sinceReady' = Since(readyLast)'
                    \/ sinceOpen' + REPEAT <= Since(readyLast)' + DELAY + Slack + Slice
      <3>1. /\ e <= REPEAT
            /\ sinceReady = e \/ sinceOpen + REPEAT <= e + DELAY + Slack + Slice
        BY <2>1, <2>3 DEF ReadyInv, Since
      <3> HIDE DEF e
      <3> QED
        BY <1>1, <1>2, <2>1, <3>1, Sizes
    <2> QED
      BY <2>2, <2>3
  <1> QED
    BY <1>3, <1>4

----------------------------------------------------------------------------
(* The invariant holds at first and is kept by every step *)

LEMMA InitInv == Init => IInv
  <1> SUFFICES ASSUME Init PROVE IInv
    OBVIOUS
  <1>1. /\ cyc \in 0 .. Wrap - 1 /\ now = cyc /\ readyLast = cyc /\ left = WAIT /\ pc = "Flush"
        /\ deadline = (cyc + WAIT) % Wrap /\ sinceReady = 0
        /\ sinceOpen = IF openEvent THEN 0 ELSE Long
    BY DEF Init
  <1>2. Since(readyLast) = 0
    BY <1>1, Sizes DEF Since, Minus
  <1>3. TypeOK
    <2>1. deadline \in 0 .. Wrap - 1
      <3>1. cyc + WAIT \in Int
        BY <1>1, Sizes
      <3> QED
        BY <1>1, <3>1, Sizes
    <2>2. sinceOpen \in Nat /\ sinceReady \in Nat /\ left \in Int
      BY <1>1, Sizes
    <2> QED
      BY <1>1, <2>1, <2>2 DEF Init, TypeOK
  <1>4. DeadlineInv
    BY <1>1, Sizes DEF DeadlineInv
  <1>5. OpenInv
    BY <1>1, Sizes DEF OpenInv, Ended
  <1>6. ReadyInv
    BY <1>1, <1>2, Sizes DEF ReadyInv
  <1>7. FreshInv
    BY <1>1, <1>2, Sizes DEF FreshInv
  <1> QED
    BY <1>3, <1>4, <1>5, <1>6, <1>7 DEF IInv

LEMMA FlushInv ==
  ASSUME IInv, Flush
  PROVE  IInv'
  <1>1. /\ TypeOK /\ DeadlineInv /\ OpenInv /\ ReadyInv /\ FreshInv /\ pc = "Flush" /\ pc' = "Test"
        /\ UNCHANGED <<forever, now, deadline, readyLast>>
    BY DEF IInv, Flush
  <1>2. PICK d \in 0 .. Slice : Pass(d, sinceReady)
    BY DEF Flush
  <1>3. d \in 0 .. Slack /\ sinceReady \in Nat
    BY <1>1, <1>2, Sizes DEF TypeOK
  <1>4. TypeOK'
    BY <1>1, <1>2, <1>3, Passing DEF TypeOK
  <1>5. DeadlineInv'
    <2>1. SUFFICES ASSUME ~forever PROVE DeadlineInv'
      BY <1>1 DEF DeadlineInv
    <2>2. left > 0 /\ left \in Int /\ d \in Int /\ left - d > -Slack
      BY <1>1, <1>2, <2>1, Sizes DEF DeadlineInv, TypeOK
    <2>3. left' = left - d /\ deadline' = (cyc' + left') % Wrap /\ (left' <= WAIT \/ left' <= GRACE)
      BY <1>1, <1>2, <1>3, <2>1, <2>2, DeadlineStays
    <2> QED
      BY <1>1, <2>2, <2>3 DEF DeadlineInv
  <1>6. OpenInv'
    BY <1>1, <1>2, <1>3, Passing, Sizes DEF OpenInv, Ended, TypeOK
  <1>7. FreshInv' /\ ReadyInv'
    <2>1. pc \notin Ended \cup {"Poll", "Announce"}
      BY <1>1 DEF Ended
    <2>2. /\ FreshInv'
          /\ ~openEvent' /\ (forever' \/ isOpen') =>
               /\ Since(readyLast)' <= REPEAT + Slice
               /\ \/ sinceReady' = Since(readyLast)'
                  \/ sinceOpen' + REPEAT <= Since(readyLast)' + DELAY + Slack + Slice
      BY <1>1, <1>2, <2>1, ReadyStays
    <2>3. ASSUME ~openEvent', forever' \/ isOpen' PROVE Since(readyLast)' <= REPEAT
      <3>1. ~openEvent /\ (isOpen' => isOpen)
        BY <1>1, <1>2, <1>3, <2>3, Passing
      <3>2. readyLast = cyc /\ cyc \in 0 .. Wrap - 1
        BY <1>1, <2>1, <2>3, <3>1 DEF ReadyInv, TypeOK
      <3>3. Minus(cyc, cyc) = 0 /\ d \in Nat /\ d < Wrap /\ d <= REPEAT
        BY <1>2, <3>2, Sizes DEF Minus
      <3>4. Minus((cyc + d) % Wrap, cyc) = d
        BY <3>2, <3>3, SinceGrows
      <3>5. cyc' = (cyc + d) % Wrap /\ readyLast' = cyc
        BY <1>1, <1>2, <1>3, <3>2, Passing
      <3> QED
        BY <3>3, <3>4, <3>5 DEF Since
    <2> QED
      BY <1>1, <2>2, <2>3 DEF ReadyInv
  <1> QED
    BY <1>4, <1>5, <1>6, <1>7 DEF IInv

LEMMA TestInv ==
  ASSUME IInv, Test
  PROVE  IInv'
  <1>1. pc = "Test" /\ UNCHANGED <<forever, cyc, now, deadline, readyLast, openEvent, isOpen,
                                   left, sinceOpen, sinceReady>>
    BY DEF Test
  <1>2. ~forever => (Before(cyc, deadline) <=> left > 0)
    <2>1. SUFFICES ASSUME ~forever PROVE Before(cyc, deadline) <=> left > 0
      OBVIOUS
    <2>2. /\ cyc \in 0 .. Wrap - 1 /\ left \in Int /\ deadline = (cyc + left) % Wrap
          /\ -(Wrap \div 2) < left /\ left < Wrap \div 2
      BY <1>1, <2>1, Sizes DEF IInv, TypeOK, DeadlineInv
    <2>3. (cyc + 0) % Wrap = cyc
      BY <2>2, Sizes
    <2>4. ASSUME NEW x \in Int, x = 0
          PROVE  Before((cyc + x) % Wrap, (cyc + left) % Wrap) <=> x < left
      <3>1. /\ -(Wrap \div 2) < x - left /\ x - left < Wrap \div 2
            /\ -(Wrap \div 2) < x /\ x < Wrap \div 2
        BY <2>2, <2>4, Sizes
      <3> QED
        BY <2>2, <3>1, BeforeIsLess
    <2> QED
      BY <2>2, <2>3, <2>4
  <1>3. /\ pc' \in {"Service", "NONE"}
        /\ ~forever /\ pc' = "Service" => left > 0
        /\ pc' = "NONE" => ~forever /\ left <= 0
    BY <1>2 DEF Test, IInv, TypeOK
  <1>4. TypeOK' /\ DeadlineInv'
    BY <1>1, <1>3 DEF IInv, TypeOK, DeadlineInv, Ended
  <1>5. OpenInv' /\ ReadyInv' /\ FreshInv'
    BY <1>1, <1>3 DEF IInv, OpenInv, ReadyInv, FreshInv, Ended, Since
  <1> QED
    BY <1>4, <1>5 DEF IInv

LEMMA ServiceInv ==
  ASSUME IInv, Service
  PROVE  IInv'
  <1>1. /\ TypeOK /\ DeadlineInv /\ OpenInv /\ ReadyInv /\ FreshInv /\ pc = "Service" /\ pc' = "Poll"
        /\ now' = cyc' /\ UNCHANGED <<forever, deadline, readyLast>>
    BY DEF IInv, Service
  <1>2. PICK d \in 1 .. Slice : Pass(d, sinceReady)
    BY DEF Service
  <1>3. d \in 0 .. Slack /\ d \in 0 .. Slice /\ sinceReady \in Nat
    BY <1>1, <1>2, Sizes DEF TypeOK
  <1>4. TypeOK'
    BY <1>1, <1>2, <1>3, Passing DEF TypeOK
  <1>5. DeadlineInv'
    <2>1. SUFFICES ASSUME ~forever PROVE DeadlineInv'
      BY <1>1 DEF DeadlineInv
    <2>2. left > 0 /\ left \in Int /\ d \in Int /\ left - d > -Slack /\ left - d > -Slice
      BY <1>1, <1>2, <2>1, Sizes DEF DeadlineInv, TypeOK
    <2>3. left' = left - d /\ deadline' = (cyc' + left') % Wrap /\ (left' <= WAIT \/ left' <= GRACE)
      BY <1>1, <1>2, <1>3, <2>1, <2>2, DeadlineStays
    <2> QED
      BY <1>1, <2>2, <2>3 DEF DeadlineInv
  <1>6. OpenInv'
    BY <1>1, <1>2, <1>3, Passing, Sizes DEF OpenInv, Ended, TypeOK
  <1>7. FreshInv' /\ ReadyInv'
    <2>1. pc \notin Ended \cup {"Poll", "Announce"} /\ pc' # "Flush"
      BY <1>1 DEF Ended
    <2> QED
      BY <1>1, <1>2, <1>3, <2>1, ReadyStays DEF ReadyInv
  <1> QED
    BY <1>4, <1>5, <1>6, <1>7 DEF IInv

(* The end of the wait by a request or the button.                          *)
LEMMA EndsInv ==
  ASSUME IInv, Request \/ (Button /\ pc' = "BUTTON")
  PROVE  IInv'
  BY DEF Request, Button, IInv, TypeOK, DeadlineInv, OpenInv, ReadyInv, FreshInv, Since, Ended

LEMMA ButtonInv ==
  ASSUME IInv, Button, pc' = "Test"
  PROVE  IInv'
  BY DEF Button, IInv, TypeOK, DeadlineInv, OpenInv, ReadyInv, FreshInv, Since, Ended

LEMMA TakeOpenEventInv ==
  ASSUME IInv, TakeOpenEvent
  PROVE  IInv'
  <1>1. /\ TypeOK /\ DeadlineInv /\ OpenInv /\ ReadyInv /\ FreshInv /\ pc = "Poll" /\ pc' = "Announce"
        /\ now = cyc /\ openEvent' = FALSE
        /\ UNCHANGED <<forever, cyc, now, isOpen, sinceOpen, sinceReady>>
    BY DEF IInv, TakeOpenEvent, TypeOK
  <1>2. CASE ~openEvent
    <2>1. UNCHANGED <<deadline, readyLast, left>>
      BY <1>2 DEF TakeOpenEvent
    <2>2. TypeOK' /\ DeadlineInv' /\ OpenInv'
      BY <1>1, <2>1 DEF TypeOK, DeadlineInv, OpenInv, Ended
    <2>3. ReadyInv' /\ FreshInv'
      BY <1>1, <1>2, <2>1 DEF ReadyInv, FreshInv, Since, Ended
    <2> QED
      BY <2>2, <2>3 DEF IInv
  <1>3. CASE openEvent
    <2>1. TakeOpen
      BY <1>3 DEF TakeOpenEvent
    <2>2. sinceOpen <= Slack + Slice /\ sinceOpen \in Nat
      BY <1>1, <1>3 DEF OpenInv, TypeOK, Ended
    <2>3. readyLast' \in 0 .. Wrap - 1 /\ Since(readyLast)' = REPEAT - DELAY
      <3>1. cyc \in 0 .. Wrap - 1 /\ cyc' = cyc /\ readyLast' = (cyc - (REPEAT - DELAY)) % Wrap
        BY <1>1, <2>1 DEF TypeOK, TakeOpen, Minus
      <3> DEFINE r == (cyc - (REPEAT - DELAY)) % Wrap
      <3>2. r = IF cyc - (REPEAT - DELAY) < 0 THEN cyc - (REPEAT - DELAY) + Wrap ELSE cyc - (REPEAT - DELAY)
        BY <3>1, Around, Sizes
      <3>3. r \in 0 .. Wrap - 1
        BY <3>1, <3>2, Sizes
      <3> HIDE DEF r
      <3>4. Minus(cyc, r) = REPEAT - DELAY
        BY <3>1, <3>2, <3>3, Around, Sizes DEF Minus
      <3> QED
        BY <3>1, <3>3, <3>4 DEF r, Since
    <2>4. /\ deadline' \in 0 .. Wrap - 1 /\ left' \in Int
          /\ ~forever => /\ deadline' = (cyc' + left') % Wrap
                         /\ left' <= WAIT \/ left' <= GRACE
                         /\ left' > -Slice /\ left' > -Slack
      <3>1. /\ cyc \in 0 .. Wrap - 1 /\ cyc' = cyc /\ left \in Int /\ deadline \in 0 .. Wrap - 1
            /\ left' = IF forever THEN left ELSE Max({left, GRACE})
        BY <1>1, <2>1 DEF TypeOK, TakeOpen
      <3>2. CASE forever
        BY <2>1, <3>1, <3>2 DEF TakeOpen
      <3>3. CASE ~forever
        <4>1. left' = IF left >= GRACE THEN left ELSE GRACE
          BY <3>1, <3>3, MaxOfTwo, Sizes
        <4>2. /\ deadline = (cyc + left) % Wrap /\ (left <= WAIT \/ left <= GRACE)
              /\ left > -Slack /\ left > -Slice
          BY <1>1, <3>3 DEF DeadlineInv
        <4>3. Before(deadline, (cyc + GRACE) % Wrap) <=> left < GRACE
          <5>1. /\ -(Wrap \div 2) < left - GRACE /\ left - GRACE < Wrap \div 2
                /\ -(Wrap \div 2) < left /\ left < Wrap \div 2
                /\ -(Wrap \div 2) < GRACE /\ GRACE < Wrap \div 2 /\ GRACE \in Int
            BY <3>1, <4>2, Sizes
          <5> QED
            BY <3>1, <4>2, <5>1, BeforeIsLess
        <4>4. /\ left < GRACE => deadline' = (cyc + GRACE) % Wrap
              /\ ~(left < GRACE) => deadline' = deadline
          BY <1>1, <2>1, <3>3, <4>3 DEF TakeOpen
        <4>5. left' \in Int /\ (left' <= WAIT \/ left' <= GRACE) /\ left' > -Slice /\ left' > -Slack
          BY <3>1, <4>1, <4>2, Sizes
        <4>6. CASE left < GRACE
          <5>1. left' = GRACE /\ deadline' = (cyc + GRACE) % Wrap /\ cyc + GRACE \in Int
            BY <3>1, <4>1, <4>4, <4>6, Sizes
          <5>2. (cyc + GRACE) % Wrap \in 0 .. Wrap - 1
            BY <5>1, Sizes
          <5> QED
            BY <3>1, <4>5, <5>1, <5>2
        <4>7. CASE ~(left < GRACE)
          <5>1. left' = left /\ deadline' = deadline
            BY <3>1, <4>1, <4>4, <4>7, Sizes
          <5> QED
            BY <3>1, <4>2, <4>5, <5>1
        <4> QED
          BY <4>6, <4>7
      <3> QED
        BY <3>2, <3>3
    <2>5. TypeOK'
      BY <1>1, <2>3, <2>4 DEF TypeOK
    <2>6. DeadlineInv'
      BY <1>1, <2>4 DEF DeadlineInv
    <2>7. OpenInv'
      BY <1>1 DEF OpenInv
    <2>8. ReadyInv' /\ FreshInv'
      <3>1. sinceOpen' = sinceOpen /\ REPEAT - DELAY <= REPEAT
        BY <1>1, Sizes
      <3>2. sinceOpen' + REPEAT <= Since(readyLast)' + DELAY + Slack + Slice
        BY <2>2, <2>3, <3>1, Sizes
      <3>3. Since(readyLast)' <= REPEAT /\ Since(readyLast)' <= REPEAT + Slice
        BY <2>3, Sizes
      <3>4. Since(readyLast)' + DELAY <= REPEAT + sinceOpen'
        BY <2>2, <2>3, <3>1, Sizes
      <3> QED
        BY <1>1, <3>2, <3>3, <3>4 DEF ReadyInv, FreshInv
    <2> QED
      BY <2>5, <2>6, <2>7, <2>8 DEF IInv
  <1> QED
    BY <1>2, <1>3

LEMMA AnnounceInv ==
  ASSUME IInv, Announce
  PROVE  IInv'
  <1>1. /\ TypeOK /\ DeadlineInv /\ OpenInv /\ ReadyInv /\ FreshInv /\ pc = "Announce"
        /\ pc' \in {"Test", "Button"} /\ now = cyc /\ ~openEvent
        /\ UNCHANGED <<forever, now, deadline>>
    BY DEF IInv, Announce, TypeOK, OpenInv
  <1>2. CASE ~ReadyDue /\ UNCHANGED <<cyc, readyLast, openEvent, isOpen, left, sinceOpen, sinceReady>>
    <2>1. forever \/ isOpen => Since(readyLast) <= REPEAT
      <3>1. cyc \in 0 .. Wrap - 1 /\ readyLast \in 0 .. Wrap - 1 /\ (forever \/ isOpen => ~(Minus(cyc, readyLast) >= REPEAT))
        BY <1>1, <1>2 DEF ReadyDue, TypeOK
      <3>2. Minus(cyc, readyLast) \in Int
        BY <3>1, Sizes DEF Minus
      <3> QED
        BY <3>1, <3>2, Sizes DEF Since
    <2>2. TypeOK' /\ OpenInv'
      BY <1>1, <1>2 DEF TypeOK, OpenInv
    <2>3. DeadlineInv'
      <3>1. ~forever => left > -Slack
        BY <1>1 DEF DeadlineInv
      <3> QED
        BY <1>1, <1>2, <3>1 DEF DeadlineInv
    <2>4. ReadyInv' /\ FreshInv'
      BY <1>1, <1>2, <2>1 DEF ReadyInv, FreshInv, Since, Ended
    <2> QED
      BY <2>2, <2>3, <2>4 DEF IInv
  <1>3. ASSUME ReadyDue, readyLast' = now, NEW d \in 0 .. WriteTime, Pass(d, 0)
        PROVE  IInv'
    <2>1. d \in 0 .. Slack /\ d \in Nat /\ d < Wrap /\ d <= REPEAT /\ d <= WriteTime /\ 0 \in Nat
      BY Sizes
    <2>2. /\ cyc' = (cyc + d) % Wrap /\ cyc' \in 0 .. Wrap - 1
          /\ left' \in Int /\ (left - d > -Long => left' = left - d)
          /\ sinceOpen' \in Nat /\ sinceReady' \in Nat
          /\ isOpen' \in BOOLEAN /\ openEvent' \in BOOLEAN
          /\ \/ openEvent' /\ sinceOpen' <= d
             \/ /\ openEvent' = openEvent /\ (isOpen' => isOpen)
                /\ sinceOpen' <= sinceOpen + d
                /\ sinceOpen' < DELAY => sinceOpen' = sinceOpen + d
                /\ 0 + d <= REPEAT + Slice => sinceReady' = 0 + d
      BY <1>1, <1>3, <2>1, Passing
    <2>3. readyLast' \in 0 .. Wrap - 1 /\ Since(readyLast)' = d
      <3>1. cyc \in 0 .. Wrap - 1 /\ readyLast' = cyc
        BY <1>1, <1>3 DEF TypeOK
      <3>2. Minus(cyc, cyc) = 0
        BY <3>1, Sizes DEF Minus
      <3>3. Minus((cyc + d) % Wrap, cyc) = d
        BY <2>1, <3>1, <3>2, SinceGrows
      <3> QED
        BY <2>2, <3>1, <3>3 DEF Since
    <2>4. TypeOK'
      BY <1>1, <2>2, <2>3 DEF TypeOK
    <2>5. DeadlineInv'
      <3>1. SUFFICES ASSUME ~forever PROVE DeadlineInv'
        BY <1>1 DEF DeadlineInv
      <3>2. left > -Slice /\ left \in Int
        BY <1>1, <3>1 DEF DeadlineInv, TypeOK
      <3>3. left - d > -Slack
        BY <2>1, <3>2, Sizes
      <3>4. left' = left - d /\ deadline' = (cyc' + left') % Wrap /\ (left' <= WAIT \/ left' <= GRACE)
        BY <1>1, <1>3, <2>1, <3>1, <3>3, DeadlineStays
      <3> QED
        BY <1>1, <3>3, <3>4 DEF DeadlineInv
    <2>6. OpenInv'
      BY <1>1, <2>1, <2>2, Sizes DEF OpenInv
    <2>7. ReadyInv'
      <3>1. SUFFICES ASSUME ~openEvent' PROVE ReadyInv'
        BY DEF ReadyInv
      <3>2. sinceReady' = d /\ d <= REPEAT + Slice
        BY <2>1, <2>2, <3>1, Sizes
      <3> QED
        BY <1>1, <2>1, <2>3, <3>2 DEF ReadyInv
    <2>8. FreshInv'
      <3>1. SUFFICES ASSUME ~openEvent', sinceOpen' < DELAY PROVE Since(readyLast)' + DELAY <= REPEAT + sinceOpen'
        BY DEF FreshInv
      <3>2. sinceOpen' = sinceOpen + d /\ sinceOpen \in Nat
        BY <1>1, <2>2, <3>1 DEF TypeOK
      <3> QED
        BY <2>1, <2>3, <3>2, Sizes
    <2> QED
      BY <2>4, <2>5, <2>6, <2>7, <2>8 DEF IInv
  <1> QED
    BY <1>2, <1>3 DEF Announce

LEMMA NextInv == IInv /\ [Next]_vars => IInv'
  <1> SUFFICES ASSUME IInv, [Next]_vars PROVE IInv'
    OBVIOUS
  <1>1. CASE Button
    BY <1>1, ButtonInv, EndsInv DEF Button
  <1>2. CASE UNCHANGED vars
    BY <1>2 DEF vars, IInv, TypeOK, DeadlineInv, OpenInv, ReadyInv, FreshInv, Since
  <1> QED
    BY <1>1, <1>2, FlushInv, TestInv, ServiceInv, TakeOpenEventInv, AnnounceInv, EndsInv
       DEF Next, Loop

----------------------------------------------------------------------------
(* What follows for every wait *)

(* The clocks of the code and the real times they stand for never part.     *)
THEOREM Inductive == Spec => []IInv
  BY InitInv, NextInv, PTL DEF Spec

(* BL_WaitForUpdateRequest keeps the window open for BL_WAIT_MS, and for    *)
(* BL_USB_OPEN_GRACE_MS after each opening of the port, and closes it no    *)
(* more than a turn later, wherever the counter wraps.                      *)
THEOREM ClosesInTime == Spec => []ClosesOnTime
  <1>1. IInv => ClosesOnTime
    BY DEF IInv, DeadlineInv, ClosesOnTime
  <1> QED
    BY <1>1, Inductive, PTL

(* A host that waits is sent a READY line again and again.                  *)
THEOREM ReadyKeepsComing == Spec => []ReadyRepeats
  <1>1. IInv => ReadyRepeats
    <2> SUFFICES ASSUME IInv, forever \/ isOpen, pc \notin Ended
                 PROVE  sinceReady <= REPEAT + Slice \/ sinceOpen <= DELAY + Slack + 2 * Slice
      BY DEF ReadyRepeats
    <2>1. CASE openEvent
      <3>1. sinceOpen <= Slack + Slice /\ sinceOpen \in Nat
        BY <2>1 DEF IInv, TypeOK, OpenInv
      <3> QED
        BY <3>1, Sizes
    <2>2. CASE ~openEvent
      <3>1. /\ Since(readyLast) <= REPEAT + Slice
            /\ \/ sinceReady = Since(readyLast)
               \/ sinceOpen + REPEAT <= Since(readyLast) + DELAY + Slack + Slice
        BY <2>2 DEF IInv, ReadyInv
      <3>2. Since(readyLast) \in Int /\ sinceOpen \in Nat
        <4>1. cyc \in 0 .. Wrap - 1 /\ readyLast \in 0 .. Wrap - 1 /\ sinceOpen \in Nat
          BY DEF IInv, TypeOK
        <4> QED
          BY <4>1, Sizes DEF Since, Minus
      <3> QED
        BY <3>1, <3>2, Sizes
    <2> QED
      BY <2>1, <2>2
  <1> QED
    BY <1>1, Inductive, PTL

(* A host that has just opened the port has had BL_USB_READY_DELAY_MS to    *)
(* discard what it received before the first READY line is written.         *)
THEOREM ReadyIsHeard == Spec => []ReadyNotDiscarded
  <1>1. IInv => ReadyNotDiscarded
    <2> SUFFICES ASSUME IInv, pc = "Announce", ReadyDue
                 PROVE  sinceOpen >= DELAY
      BY DEF ReadyNotDiscarded
    <2>1. now = cyc /\ ~openEvent /\ sinceOpen \in Nat /\ cyc \in 0 .. Wrap - 1 /\ readyLast \in 0 .. Wrap - 1
      BY DEF IInv, TypeOK, OpenInv
    <2>2. Since(readyLast) >= REPEAT /\ Since(readyLast) \in Int
      BY <2>1, Sizes DEF ReadyDue, Since, Minus
    <2>3. sinceOpen < DELAY => Since(readyLast) + DELAY <= REPEAT + sinceOpen
      BY <2>1 DEF IInv, FreshInv
    <2> QED
      BY <2>1, <2>2, <2>3, Sizes
  <1> QED
    BY <1>1, Inductive, PTL
=============================================================================
