------------------------------ MODULE ActiveSlot ------------------------------
(***************************************************************************)
(* What the bootloader promises about the active slot, without saying how: *)
(* the contents change only while an update has the slot open, a power cut *)
(* in that time may leave anything, an update is answered "ok" only over a *)
(* seal that fits the contents, and the application starts only from a     *)
(* closed slot that is sealed, intact and bootable, and then owns it.      *)
(***************************************************************************)
CONSTANTS Contents, Seals, Blank, SealOf(_), CanStart(_)

VARIABLES
  store,   \* contents of the slot
  seal,    \* its seal; Blank: none
  phase,   \* "closed", "open" to an update, or "running" the application
  answer   \* of the last update: "ok", "failed", or "none" since the reset

slotVars == <<store, seal, phase, answer>>

Startable == seal # Blank /\ seal = SealOf(store) /\ CanStart(store)

Init ==
  /\ store \in Contents
  /\ seal \in Seals
  /\ phase = "closed"
  /\ answer = "none"

Request ==
  /\ phase = "closed"
  /\ answer' = "none"
  /\ UNCHANGED <<store, seal, phase>>

Open ==
  /\ phase = "closed"
  /\ phase' = "open"
  /\ UNCHANGED <<store, seal, answer>>

Write ==
  /\ phase = "open"
  /\ store' \in Contents
  /\ seal' \in Seals
  /\ UNCHANGED <<phase, answer>>

Accept ==
  /\ phase = "open"
  /\ phase' = "closed"
  /\ seal' = SealOf(store)
  /\ answer' = "ok"
  /\ UNCHANGED store

Refuse ==
  /\ phase \in {"closed", "open"}
  /\ phase' = "closed"
  /\ answer' = "failed"
  /\ store' \in Contents
  /\ seal' \in Seals
  /\ phase = "closed" => UNCHANGED <<store, seal>>

Start ==
  /\ phase = "closed"
  /\ Startable
  /\ phase' = "running"
  /\ UNCHANGED <<store, seal, answer>>

Reset ==
  /\ phase' = "closed"
  /\ answer' = "none"
  /\ store' \in Contents
  /\ seal' \in Seals
  /\ phase # "open" => UNCHANGED <<store, seal>>

Next == Request \/ Open \/ Write \/ Accept \/ Refuse \/ Start \/ Reset

Spec == Init /\ [][Next]_slotVars
=============================================================================
