--------------------------------- MODULE Ticks ----------------------------------
(***************************************************************************)
(* Time: the SysTick driver (systick.c) and the millisecond clock of the    *)
(* USB link (usb_cdc.c).  Time passes one cycle at a time, between any two  *)
(* steps of the program; a millisecond is Period cycles.  Everything that   *)
(* counts is 32 bits wide in C and wraps: milliseconds at TickMod, cycles   *)
(* at CycleMod, microseconds at MicroMod, which is counted in cycles, too.  *)
(***************************************************************************)
EXTENDS Integers

CONSTANTS
  Period,    \* SystemCoreClock / 1000
  TickMod,   \* bound: values of s_tick_ms, and of the milliseconds of the USB clock
  CycleMod,  \* bound: values of CYCCNT, and of the sum of cycles not yet counted
  MicroMod,  \* bound: cycles in as many microseconds as uint32_t has values
  Delays,    \* the milliseconds asked of a delay
  Horizon    \* bound: cycles of the USB clock, and of a timer

TicksBounds ==
  /\ Period \in Nat \ {0, 1} /\ TickMod \in Nat \ {0} /\ CycleMod \in Nat /\ CycleMod > Period
  /\ MicroMod \in Nat \ {0}
  /\ Delays \subseteq 1..(TickMod - 1) /\ Horizon \in Nat /\ Horizon < TickMod * Period

VARIABLES
  val,       \* SysTick VAL; LOAD is Period - 1
  ctrl,      \* CTRL: "off", "count" (ENABLE) or "irq" (ENABLE and TICKINT)
  flag,      \* CTRL.COUNTFLAG
  pending,   \* the SysTick exception is pending
  ticks,     \* s_tick_ms
  start,     \* the snapshot of SysTick_delay_ms_irq, or handle->start_tick
  ms, i,     \* the delay asked for, and the loop of SysTick_delay_ms
  pc,
  timed,     \* no delay has stopped the counter since SysTick_StartTimer
  spent,     \* cycles since the delay was called or the timer started
  seen,      \* SysTick_GetElapsedTime_us: VAL, s_tick_ms and spent when it read VAL
  cycles, since, prompt, \* all cycles, those since the last call; no call was late
  last, millis, rem      \* last_cyc, ms, rem

timer == <<val, ctrl, flag, pending, ticks>>
delay == <<start, ms, i, timed>>
usb   == <<cycles, since, prompt, last, millis, rem>>
vars  == <<val, ctrl, flag, pending, ticks, start, ms, i, pc, timed, spent, seen,
           cycles, since, prompt, last, millis, rem>>

----------------------------------------------------------------------------
(* The counter: it reloads after zero and raises COUNTFLAG, and with        *)
(* TICKINT the exception, when it reaches zero.  The core keeps up: what a  *)
(* tick made ready is done within the millisecond, and the few lines before *)
(* a delay restarts the counter, or after the timer started it, take less   *)
(* than one.                                                                *)
Elapsed == (ticks - start) % TickMod >= ms

Late == pending \/ (pc = "poll" /\ flag) \/ (pc = "wait" /\ Elapsed)

Slow == pc \in {"begin", "beginIrq", "starting"} /\ spent >= Period - 1

Cycle ==
  /\ ctrl # "off" /\ ~(val = 1 /\ Late) /\ ~Slow
  /\ pc \in {"idle", "starting", "reading"} => spent < Horizon
  /\ val' = IF val = 0 THEN Period - 1 ELSE val - 1
  /\ flag' = (flag \/ val = 1)
  /\ pending' = (pending \/ (val = 1 /\ ctrl = "irq"))
  /\ spent' = spent + 1
  /\ UNCHANGED <<ctrl, ticks, delay, pc, seen, usb>>

SysTick_Handler ==
  /\ pending
  /\ pending' = FALSE
  /\ ticks' = (ticks + 1) % TickMod
  /\ UNCHANGED <<val, ctrl, flag, delay, pc, spent, seen, usb>>

----------------------------------------------------------------------------
(* Main                                                                     *)

At(p) == ~pending /\ pc = p

(* LOAD, VAL (which clears COUNTFLAG) and CTRL                              *)
RestartKeepingVal(mode) ==   \* mutant: VAL is not written
  /\ ctrl' = mode
  /\ UNCHANGED <<val, flag>>

Restart(mode) ==
  /\ val' = 0
  /\ flag' = FALSE
  /\ ctrl' = mode

StartTimer ==
  /\ At("idle")
  /\ Restart("irq")
  /\ pc' = "starting"
  /\ timed' = FALSE /\ spent' = 0
  /\ UNCHANGED <<pending, ticks, start, ms, i, seen, usb>>

(* start_tick, when the counter runs already                                *)
Snapshot ==
  /\ At("starting")
  /\ start' = ticks
  /\ timed' = TRUE
  /\ pc' = "idle"
  /\ UNCHANGED <<timer, ms, i, spent, seen, usb>>

(* A counter that StartTimer left running still counts until the delay      *)
(* restarts it.                                                             *)
CallDelay ==
  /\ At("idle")
  /\ ms' \in Delays
  /\ i' = 0
  /\ timed' = FALSE /\ spent' = 0
  /\ \/ pc' = "begin" /\ UNCHANGED start
     \/ pc' = "beginIrq" /\ start' = ticks
  /\ UNCHANGED <<timer, seen, usb>>

Begin ==
  /\ \/ At("begin") /\ pc' = "poll" /\ Restart("count")
     \/ At("beginIrq") /\ pc' = "wait" /\ Restart("irq")
  /\ UNCHANGED <<pending, ticks, delay, spent, seen, usb>>

(* The counter is off; the locals of the delay are gone.                    *)
Return == /\ pc' = "idle" /\ ctrl' = "off"
          /\ start' = 0 /\ ms' = 1 /\ i' = 0 /\ spent' = 0

(* SysTick_delay_ms: reading CTRL clears COUNTFLAG.                         *)
PollFlag ==
  /\ At("poll") /\ flag
  /\ flag' = FALSE
  /\ IF i + 1 < ms THEN i' = i + 1 /\ UNCHANGED <<pc, ctrl, start, ms, spent>> ELSE Return
  /\ UNCHANGED <<val, pending, ticks, timed, seen, usb>>

(* SysTick_delay_ms_irq                                                     *)
WaitTicks ==
  /\ At("wait") /\ Elapsed
  /\ Return
  /\ UNCHANGED <<val, flag, pending, ticks, timed, seen, usb>>

NothingSeen == [val |-> 0, ticks |-> 0, at |-> 0]

(* SysTick_GetElapsedTime_us: VAL, then s_tick_ms                           *)
ReadVal ==
  /\ At("idle") /\ timed
  /\ seen' = [val |-> val, ticks |-> ticks, at |-> spent]
  /\ pc' = "reading"
  /\ UNCHANGED <<timer, delay, spent, usb>>

ReadingTicksFirst ==   \* mutant: s_tick_ms is read before VAL
  (((seen.ticks - start) % TickMod) * Period + (Period - 1 - val)) % MicroMod

(* full_ms * 1000 + sub_us, in cycles                                       *)
Reading ==
  (((ticks - start) % TickMod) * Period + (Period - 1 - seen.val)) % MicroMod

ReadTicks ==
  /\ At("reading") /\ pc' = "idle"
  /\ seen' = NothingSeen
  /\ UNCHANGED <<timer, delay, spent, usb>>

----------------------------------------------------------------------------
(* tusb_time_millis_api.  Its image runs without SysTick.  A call is late   *)
(* when the cycles since the last one, with up to Period - 1 of before, may *)
(* not fit the sum (2^32 cycles are some 89 s at 48 MHz).                   *)
Prompt == since <= CycleMod - Period

UsbCycle ==
  /\ pc = "usb" /\ cycles < Horizon
  /\ cycles' = cycles + 1
  /\ since' = since + 1
  /\ UNCHANGED <<timer, delay, pc, spent, seen, prompt, last, millis, rem>>

SumOfNew == (cycles - last) % CycleMod   \* mutant: rem is set, not added to
Sum == (rem + cycles - last) % CycleMod

Millis ==
  /\ pc = "usb" /\ since > 0
  /\ last' = cycles % CycleMod
  /\ millis' = (millis + Sum \div Period) % TickMod
  /\ rem' = Sum % Period
  /\ since' = 0
  /\ prompt' = (prompt /\ Prompt)
  /\ UNCHANGED <<timer, delay, pc, spent, seen, cycles>>

----------------------------------------------------------------------------
Init ==
  /\ val = 0 /\ ctrl = "off" /\ flag = FALSE /\ pending = FALSE /\ ticks = 0
  /\ start = 0 /\ ms = 1 /\ i = 0 /\ timed = FALSE
  /\ pc \in {"idle", "usb"} /\ spent = 0 /\ seen = NothingSeen
  /\ cycles = 0 /\ since = 0 /\ prompt = TRUE /\ last = 0 /\ millis = 0 /\ rem = 0

Main == StartTimer \/ Snapshot \/ CallDelay \/ Begin \/ PollFlag \/ WaitTicks \/ ReadVal \/ ReadTicks
Next == Cycle \/ SysTick_Handler \/ Main \/ UsbCycle \/ Millis

Spec == Init /\ [][Next]_vars
----------------------------------------------------------------------------
(* SysTick_delay_ms(n) takes at least n milliseconds.  SysTick_delay_ms_irq *)
(* may count a tick of a counter that was already running, which takes up   *)
(* to one off, and none for a wrap of s_tick_ms.  Neither takes more than   *)
(* two milliseconds too many.                                               *)
DelayReturns == pc' = "idle" /\ (pc = "poll" \/ pc = "wait")
DelayLasts ==
  [][DelayReturns => /\ spent >= (IF pc = "poll" THEN ms ELSE ms - 1) * Period
                     /\ spent <= (ms + 2) * Period]_vars

(* The elapsed time is never behind (it may be a cycle) what had passed     *)
(* when VAL was read, and no more than a millisecond ahead of what has      *)
(* passed: that much when the tick falls between the two reads.  When the   *)
(* microseconds wrap, it is such a time less what they wrapped by.          *)
ReadingBounds ==
  [][pc = "reading" /\ pc' = "idle" =>
       \E c \in 0..(spent + Period) : c >= seen.at - 1 /\ Reading = c % MicroMod]_vars

(* The USB clock has counted every cycle up to its last call, whether       *)
(* CYCCNT wrapped since or not, as long as no call was late.  It is never   *)
(* ahead: a late call can only lose cycles.                                 *)
Counted == millis * Period + rem
MillisExact ==
  /\ Counted <= cycles - since /\ rem < Period
  /\ prompt => Counted = cycles - since
================================================================================
