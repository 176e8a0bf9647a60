--------------------------------- MODULE Button ---------------------------------
(***************************************************************************)
(* The user button on EXTI line 13 and the LED on PA5: the dispatch table   *)
(* of nvic.c under the interrupt demo of GPIO/src/main.c (whose main blinks *)
(* the LED too) and the one of NVIC/src/main.c (which only prints).           *)
(* One core: main stands still while the handler runs.  The button does not *)
(* wait for anybody, and each read-modify-write of ODR is two steps.        *)
(***************************************************************************)
EXTENDS Integers

CONSTANT Presses   \* bound: presses in a behaviour

PressesBound == Presses \in Nat \ {0}

VARIABLES
  demo,     \* the image: "gpio" or "nvic"
  presses,  \* presses so far
  fpr,      \* EXTI FPR1, bit 13
  owed,     \* a press since the line was set up has no toggle after it
  table,    \* s_table[20]: the callback is registered
  enabled,  \* the interrupt is enabled in the NVIC
  odr,      \* ODR of port A, bit 5
  toggles,  \* toggles by the callback
  pc, temp, \* main, and the ODR it read
  hpc, htemp \* the handler, and the ODR it read

lamp == <<odr, toggles>>
vars == <<demo, presses, fpr, owed, table, enabled, odr, toggles, pc, temp, hpc, htemp>>

Press ==
  /\ presses < Presses
  /\ presses' = presses + 1
  /\ fpr' = (fpr \/ pc # "route")   \* no edge is latched before FTSR1 selects it
  /\ owed' = (owed \/ pc \notin {"route", "clear"})
  /\ UNCHANGED <<demo, table, enabled, lamp, pc, temp, hpc, htemp>>

----------------------------------------------------------------------------
(* The handler: EXTI13_IRQHandler, dispatch, the callback                   *)

Dispatch ==
  /\ hpc = "idle" /\ fpr /\ enabled
  /\ hpc' = IF table THEN "callback" ELSE "return"
  /\ UNCHANGED <<demo, presses, fpr, owed, table, enabled, lamp, pc, temp, htemp>>

ClearPending ==
  /\ hpc = "callback" /\ hpc' = "read"
  /\ fpr' = FALSE
  /\ UNCHANGED <<demo, presses, owed, table, enabled, lamp, pc, temp, htemp>>

ReadODR ==
  /\ hpc = "read" /\ hpc' = "write"
  /\ htemp' = odr
  /\ UNCHANGED <<demo, presses, fpr, owed, table, enabled, lamp, pc, temp>>

WriteODR ==
  /\ hpc = "write" /\ hpc' = "return"
  /\ odr' = ~htemp
  /\ owed' = FALSE
  /\ toggles' = toggles + 1
  /\ UNCHANGED <<demo, presses, fpr, table, enabled, pc, temp, htemp>>

ReturnClearing ==   \* mutant: the pending bit is cleared last
  /\ hpc = "return" /\ hpc' = "idle"
  /\ fpr' = FALSE
  /\ UNCHANGED <<demo, presses, owed, table, enabled, lamp, pc, temp, htemp>>

Return ==
  /\ hpc = "return" /\ hpc' = "idle"
  /\ UNCHANGED <<demo, presses, fpr, owed, table, enabled, lamp, pc, temp, htemp>>

Handler == Dispatch \/ ClearPending \/ ReadODR \/ WriteODR \/ Return

----------------------------------------------------------------------------
(* Main: NVIC_EXTI_Enable, then the blink of the GPIO demo, then the loop   *)

At(p) == hpc = "idle" /\ pc = p

RouteAndTrigger ==
  /\ At("route") /\ pc' = "clear"
  /\ UNCHANGED <<demo, presses, fpr, owed, table, enabled, lamp, temp, hpc, htemp>>

ClearStale ==
  /\ At("clear") /\ pc' = "register"
  /\ fpr' = FALSE
  /\ UNCHANGED <<demo, presses, owed, table, enabled, lamp, temp, hpc, htemp>>

RegisterEnablingFirst ==   \* mutant: the interrupt is enabled before the entry is written
  \/ /\ At("register") /\ pc' = "enable"
     /\ enabled' = TRUE
     /\ UNCHANGED <<demo, presses, fpr, owed, table, lamp, temp, hpc, htemp>>
  \/ /\ At("enable") /\ pc' = IF demo = "gpio" THEN "blink1" ELSE "loop"
     /\ table' = TRUE
     /\ UNCHANGED <<demo, presses, fpr, owed, enabled, lamp, temp, hpc, htemp>>

NVIC_RegisterHandler ==
  \/ /\ At("register") /\ pc' = "enable"
     /\ table' = TRUE
     /\ UNCHANGED <<demo, presses, fpr, owed, enabled, lamp, temp, hpc, htemp>>
  \/ /\ At("enable") /\ pc' = IF demo = "gpio" THEN "blink1" ELSE "loop"
     /\ enabled' = TRUE
     /\ UNCHANGED <<demo, presses, fpr, owed, table, lamp, temp, hpc, htemp>>

(* GPIO_TogglePin, twice                                                    *)
BlinkReads ==
  /\ pc \in {"blink1", "blink2"} /\ At(pc)
  /\ temp' = odr
  /\ pc' = IF pc = "blink1" THEN "write1" ELSE "write2"
  /\ UNCHANGED <<demo, presses, fpr, owed, table, enabled, lamp, hpc, htemp>>

BlinkWrites ==
  /\ pc \in {"write1", "write2"} /\ At(pc)
  /\ odr' = ~temp
  /\ pc' = IF pc = "write1" THEN "blink2" ELSE "loop"
  /\ UNCHANGED <<demo, presses, fpr, owed, table, enabled, toggles, temp, hpc, htemp>>

Main == RouteAndTrigger \/ ClearStale \/ NVIC_RegisterHandler \/ BlinkReads \/ BlinkWrites

----------------------------------------------------------------------------
Init ==
  /\ demo \in {"gpio", "nvic"}
  /\ presses = 0 /\ fpr = FALSE /\ owed = FALSE
  /\ table = FALSE /\ enabled = FALSE
  /\ odr = FALSE /\ toggles = 0
  /\ pc = "route" /\ temp = FALSE /\ hpc = "idle" /\ htemp = FALSE

Next == Press \/ Handler \/ Main

Spec == Init /\ [][Next]_vars /\ WF_vars(Handler) /\ WF_vars(Main)
----------------------------------------------------------------------------
AtRest == pc = "loop" /\ hpc = "idle" /\ ~fpr

(* Every press after the line was set up is followed by a toggle of the     *)
(* LED, also one that comes while the callback of the last one runs, and    *)
(* main gets to its loop.                                                   *)
PressAnswered == (owed ~> ~owed) /\ <>(pc = "loop")

(* The callback is the only one to toggle the LED for good (the blink of    *)
(* the GPIO demo toggles it twice): at rest the LED shows whether the       *)
(* number of its toggles is odd ("The callback toggles the LED on each      *)
(* button press").                                                          *)
TogglesEachPress == AtRest => odr = (toggles % 2 = 1)
================================================================================
