------------------------------ MODULE BootWindow ------------------------------
(***************************************************************************)
(* The clock of BL_WaitForUpdateRequest (Projects/Bootloader/src): the     *)
(* deadline of the boot window, the time it grants a host that opens the   *)
(* USB port, and the READY lines, all of them differences of a cycle       *)
(* counter that wraps.                                                     *)
(*                                                                         *)
(* cyc is the counter; left, sinceOpen and sinceReady are the real times   *)
(* the code's differences stand for. Time passes while USB is served and   *)
(* while a READY line is written, where a host may open and close the port.*)
(***************************************************************************)
EXTENDS Integers, FiniteSetsExt

CONSTANTS
  Wrap,      \* values of the cycle counter
  WAIT,      \* BL_WAIT_MS
  GRACE,     \* BL_USB_OPEN_GRACE_MS
  REPEAT,    \* BL_READY_REPEAT_MS
  DELAY,     \* BL_USB_READY_DELAY_MS
  Slice,     \* longest turn of the loop without a READY line
  WriteTime  \* longest writing of a READY line (USB_CDC_WRITE_TIMEOUT_MS)

Slack == Slice + WriteTime
Long  == REPEAT + DELAY + 2 * Slack   \* "so long ago that it does not matter"

ASSUME TimingAssumption ==
  /\ {WAIT, GRACE, REPEAT, DELAY, Slice} \subseteq Nat \ {0} /\ WriteTime \in Nat
  /\ Wrap \in Nat /\ Wrap % 2 = 0
  /\ DELAY <= REPEAT /\ Slice <= REPEAT /\ WriteTime <= REPEAT
  /\ \A span \in {WAIT, GRACE, REPEAT} : span + Slack < Wrap \div 2

VARIABLES
  forever,     \* timeout_ms = BL_WAIT_FOREVER
  cyc,         \* DWT_CYCCNT
  pc,          \* where the loop is, or what the wait returned
  now, deadline, readyLast,  \* now, deadline, ready_last
  openEvent,   \* s_open_event
  isOpen,      \* DTR: USB_CDC_IsOpen
  left,        \* time until the window should close (negative: since then)
  sinceOpen,   \* time since the port was opened
  sinceReady   \* time since the host of the open port was sent a READY line

vars == <<forever, cyc, pc, now, deadline, readyLast, openEvent, isOpen,
          left, sinceOpen, sinceReady>>

Ended == {"NONE", "REQUEST", "BUTTON"}

----------------------------------------------------------------------------
(* The counter *)

Minus(a, b) == (a - b) % Wrap

(* (int32_t)(a - b) < 0, and the comparison that does not survive a wrap.   *)
BeforeUnsigned(a, b) == a < b   \* mutant
Before(a, b) == Minus(a, b) >= Wrap \div 2

(* d passes after a moment `ready` after the last READY line; the host      *)
(* opens the port in that time, closes it, or does neither.                 *)
Pass(d, ready) ==
  /\ cyc' = (cyc + d) % Wrap
  /\ left' = Max({left - d, -Long})
  /\ \/ /\ isOpen' = TRUE /\ openEvent' = TRUE
        /\ sinceOpen' \in 0 .. d
        /\ sinceReady' = Long
     \/ /\ isOpen' \in {isOpen, FALSE} /\ UNCHANGED openEvent
        /\ sinceOpen' = Min({sinceOpen + d, Long})
        /\ sinceReady' = Min({ready + d, Long})

----------------------------------------------------------------------------
(* The loop *)

(* BL_FlushRx, with now, deadline and ready_last set before it. *)
Flush ==
  /\ pc = "Flush"
  /\ \E d \in 0 .. Slice : Pass(d, sinceReady)
  /\ pc' = "Test"
  /\ UNCHANGED <<forever, now, deadline, readyLast>>

Test ==
  /\ pc = "Test"
  /\ pc' = IF forever \/ Before(cyc, deadline) THEN "Service" ELSE "NONE"
  /\ UNCHANGED <<forever, cyc, now, deadline, readyLast, openEvent, isOpen,
                 left, sinceOpen, sinceReady>>

(* BL_Service, and `now` after it. *)
Service ==
  /\ pc = "Service"
  /\ \E d \in 1 .. Slice : Pass(d, sinceReady)
  /\ now' = cyc'
  /\ pc' = "Poll"
  /\ UNCHANGED <<forever, deadline, readyLast>>

(* 'u' on one of the links. *)
Request ==
  /\ pc = "Poll"
  /\ pc' = "REQUEST"
  /\ UNCHANGED <<forever, cyc, now, deadline, readyLast, openEvent, isOpen,
                 left, sinceOpen, sinceReady>>

(* Mutants: READY is due at once; ready_last is kept. *)
TakeOpenReadyAtOnce ==
  /\ readyLast' = Minus(now, REPEAT)
  /\ IF ~forever /\ Before(deadline, (now + GRACE) % Wrap)
       THEN deadline' = (now + GRACE) % Wrap
       ELSE UNCHANGED deadline
  /\ left' = IF forever THEN left ELSE Max({left, GRACE})

TakeOpenKeepsReady ==
  /\ UNCHANGED readyLast
  /\ IF ~forever /\ Before(deadline, (now + GRACE) % Wrap)
       THEN deadline' = (now + GRACE) % Wrap
       ELSE UNCHANGED deadline
  /\ left' = IF forever THEN left ELSE Max({left, GRACE})

(* An opened port: a READY line after DELAY, and GRACE to answer it.        *)
TakeOpen ==
  /\ readyLast' = Minus(now, REPEAT - DELAY)
  /\ IF ~forever /\ Before(deadline, (now + GRACE) % Wrap)
       THEN deadline' = (now + GRACE) % Wrap
       ELSE UNCHANGED deadline
  /\ left' = IF forever THEN left ELSE Max({left, GRACE})

(* Mutant: time is granted as long as the port is open. *)
TakeOpenState ==
  /\ pc = "Poll"
  /\ openEvent' = FALSE
  /\ IF isOpen THEN TakeOpen ELSE UNCHANGED <<deadline, readyLast, left>>
  /\ pc' = "Announce"
  /\ UNCHANGED <<forever, cyc, now, isOpen, sinceOpen, sinceReady>>

TakeOpenEvent ==
  /\ pc = "Poll"
  /\ openEvent' = FALSE
  /\ IF openEvent THEN TakeOpen ELSE UNCHANGED <<deadline, readyLast, left>>
  /\ pc' = "Announce"
  /\ UNCHANGED <<forever, cyc, now, isOpen, sinceOpen, sinceReady>>

ReadyDue == (forever \/ isOpen) /\ Minus(now, readyLast) >= REPEAT

Announce ==
  /\ pc = "Announce"
  /\ \/ /\ ReadyDue
        /\ readyLast' = now
        /\ \E d \in 0 .. WriteTime : Pass(d, 0)
     \/ /\ ~ReadyDue
        /\ UNCHANGED <<cyc, readyLast, openEvent, isOpen, left, sinceOpen, sinceReady>>
  /\ pc' = IF forever THEN "Test" ELSE "Button"
  /\ UNCHANGED <<forever, now, deadline>>

(* B1, looked at in the window only. *)
Button ==
  /\ pc = "Button"
  /\ pc' \in {"Test", "BUTTON"}
  /\ UNCHANGED <<forever, cyc, now, deadline, readyLast, openEvent, isOpen,
                 left, sinceOpen, sinceReady>>
----------------------------------------------------------------------------

(* The wait begins at any value of the counter, right after main's READY    *)
(* line; the event of an earlier opening may still be there.                *)
Init ==
  /\ forever \in BOOLEAN
  /\ cyc \in 0 .. Wrap - 1
  /\ pc = "Flush"
  /\ now = cyc /\ readyLast = cyc
  /\ deadline = (cyc + WAIT) % Wrap /\ left = WAIT
  /\ isOpen \in BOOLEAN /\ openEvent \in BOOLEAN
  /\ sinceOpen = IF openEvent THEN 0 ELSE Long
  /\ sinceReady = 0

Loop == Flush \/ Test \/ Service \/ TakeOpenEvent \/ Announce \/ Button

Next == Loop \/ Request

(* The loop runs; nobody has to send 'u'.                                   *)
Spec == Init /\ [][Next]_vars /\ WF_vars(Loop)

----------------------------------------------------------------------------
(* Properties *)

(* The window closes neither before BL_WAIT_MS, nor before a host that has  *)
(* opened the port had BL_USB_OPEN_GRACE_MS; and it closes within a turn of *)
(* the loop after that.  A bootloader that stays never closes it.           *)
ClosesOnTime ==
  /\ pc = "NONE" => ~forever /\ left <= 0
  /\ ~forever => left > -Slack

(* A host that opened the port and any host of a board that stays is sent a *)
(* READY line every BL_READY_REPEAT_MS, late by a turn of the loop at most; *)
(* the first BL_USB_READY_DELAY_MS after the opening was noticed, which     *)
(* takes up to a line and two turns, late by another one at most.           *)
ReadyRepeats ==
  (forever \/ isOpen) /\ pc \notin Ended =>
    sinceReady <= REPEAT + Slice \/ sinceOpen <= DELAY + Slack + 2 * Slice

(* No READY line is written in the time in which the host, having opened    *)
(* the port, discards its input (bootloader.c:236-239).                     *)
ReadyNotDiscarded == pc = "Announce" /\ ReadyDue => sinceOpen >= DELAY

(* The window ends, if hosts stop opening the port again and again.         *)
WindowEnds == <>[](~openEvent) => forever \/ <>(pc \in Ended)
=============================================================================
