----------------------------- MODULE SecureUpdate -----------------------------
(***************************************************************************)
(* The board as a whole: the resident image at the reset address, the image *)
(* it hands over to, the interrupts that go with them, the update demo that *)
(* writes the fallback slot, and the programmer that writes the active slot *)
(* and its tag in two steps.  The session of the resident Bootloader is     *)
(* taken as what ActiveSlot promises; FLASH_ErasePage is in detail in       *)
(* FlashDriver, and keeps here what the hand-over can break: its interrupt. *)
(***************************************************************************)
EXTENDS Vectors

CONSTANTS
  ActiveSectors,   \* sectors of the active slot
  TagSector,       \* the sector of its tag
  FallbackFirst,   \* first sector of the fallback slot
  SecureFirst,     \* first Secure sector (0x08060000)
  Sectors,         \* sectors of the flash; 0 is the resident image's
  ImageWords       \* words of DEMO_FIRMWARE

ASSUME SectorsAssumption ==
  /\ TagSector \in Nat /\ FallbackFirst \in Nat /\ SecureFirst \in Nat /\ Sectors \in Nat
  /\ ImageWords \in Nat \ {0}
  /\ ActiveSectors \subseteq 1 .. TagSector - 1
  /\ TagSector < FallbackFirst /\ FallbackFirst < SecureFirst /\ SecureFirst < Sectors

VARIABLES
  resident,  \* the image at the reset address
  signed,    \* the image whose SHA-256 the resident Secure_Boot was built with
  slot,      \* head: the image it starts with, "part" of one, or "erased";
             \* rest: "erased" behind that, or "other"
  tag,       \* the image whose padded CRC the tag sector holds, or "blank"
  fallback,  \* what each sector of the fallback slot holds
  runs, pc,  \* the image whose code runs, and where
  vtor,      \* the image whose vector table is used
  primask,   \* interrupts are masked
  enabled, pending,  \* interrupts in the NVIC
  eopie, eop,        \* EOPIE, and flash.c's s_flash_eop
  sector, word,      \* of the update's loops
  erasing,   \* the controller erases that sector
  job        \* what the programmer has left to do

flash   == <<resident, signed, slot, tag, fallback>>
nvic    == <<vtor, primask, enabled, pending>>
control == <<eopie, eop, erasing>>
loop    == <<sector, word>>
vars    == <<resident, signed, slot, tag, fallback, runs, pc, vtor, primask, enabled,
             pending, eopie, eop, sector, word, erasing, job>>

Fallback == FallbackFirst .. Sectors - 1

Sealed(i) == [head |-> i, rest |-> "erased"]
TagFits   == tag \in SlotImages /\ slot = Sealed(tag)

Init ==
  /\ resident \in Loaders \cup Standalone
  /\ signed \in IF resident = "Secure_Boot" THEN SlotImages ELSE {"App_Demo"}
  /\ slot = [head |-> "erased", rest |-> "erased"]
  /\ tag = "blank"
  /\ fallback = [s \in Fallback |-> "old"]
  /\ runs = resident /\ pc = "Reset" /\ vtor = resident
  /\ primask = FALSE /\ enabled = {} /\ pending = {}
  /\ eopie = FALSE /\ eop = FALSE /\ erasing = {}
  /\ sector = FallbackFirst /\ word = 0
  /\ job = "none"

----------------------------------------------------------------------------
(* Reset, interrupts, and the flash controller *)

Goto(l) == pc' = l /\ UNCHANGED runs

(* At any step.  An erase it cuts off leaves the sector as it was or torn.  *)
Restart ==
  /\ runs' = resident /\ pc' = "Reset" /\ vtor' = resident
  /\ primask' = FALSE /\ enabled' = {} /\ pending' = {}
  /\ eopie' = FALSE /\ eop' = FALSE /\ erasing' = {}
  /\ sector' = FallbackFirst /\ word' = 0

ResetBoard ==
  /\ pc # "Reset"
  /\ Restart
  /\ \/ UNCHANGED fallback
     \/ fallback' = [s \in Fallback |-> IF s \in erasing THEN "torn" ELSE fallback[s]]
  /\ UNCHANGED <<resident, signed, slot, tag, job>>

(* Peripherals request what the running image set them up for, from the     *)
(* moment it has; the flash controller only while EOPIE is set.             *)
RequestInterrupt ==
  /\ runs \in Images /\ pc # "Reset"
  /\ \E i \in (Requests(runs) \cap (enabled \cup {SysTick})) \ {FlashIrq} :
       pending' = pending \cup {i}
  /\ UNCHANGED <<flash, runs, pc, vtor, primask, enabled, control, loop, job>>

(* The interrupt is taken through the table of VTOR.  FLASH_IRQHandler      *)
(* clears EOPIE and tells the erase that waits; the others keep to          *)
(* themselves what they do.                                                 *)
TakeInterrupt(i) ==
  /\ ~primask /\ pc \notin {"HardFault", "SecureFault", "Held"}
  /\ i \in pending \cap (enabled \cup {SysTick})
  /\ pending' = pending \ {i}
  /\ IF i \notin Table[vtor]
       THEN Goto("HardFault") /\ UNCHANGED <<eopie, eop>>
       ELSE /\ UNCHANGED <<runs, pc>>
            /\ IF i = FlashIrq THEN eopie' = FALSE /\ eop' = TRUE
                               ELSE UNCHANGED <<eopie, eop>>
  /\ UNCHANGED <<flash, vtor, primask, enabled, erasing, loop, job>>

(* The erase ends: of whichever sector the driver asked for.                *)
EraseEnds ==
  \E s \in erasing :
    /\ erasing' = {}
    /\ fallback' = [f \in Fallback |-> IF f = s THEN "erased" ELSE fallback[f]]
    /\ slot'     = IF s \in ActiveSectors THEN [slot EXCEPT !.head = "erased"] ELSE slot
    /\ tag'      = IF s = TagSector THEN "blank" ELSE tag
    /\ resident' = IF s = 0 THEN "erased" ELSE resident
    /\ pending'  = IF eopie THEN pending \cup {FlashIrq} ELSE pending
    /\ UNCHANGED <<signed, runs, pc, vtor, primask, enabled, eopie, eop, loop, job>>

----------------------------------------------------------------------------
(* The resident image *)

(* Reset_Handler and the constructors of main: an image sets up all its     *)
(* interrupts before its main loop.                                         *)
Main ==
  /\ pc = "Reset"
  /\ enabled' = Enables(runs) \ {SysTick}
  /\ Goto(IF runs = "Bootloader" THEN "Wait"
          ELSE IF runs = "Secure_Boot" THEN "Check" ELSE "Running")
  /\ UNCHANGED <<flash, vtor, primask, pending, control, loop, job>>

(* BL_ReceiveImage as ActiveSlot has it: refused before or after the slot   *)
(* was opened, or accepted.                                                 *)
Session ==
  /\ runs = "Bootloader" /\ pc = "Wait"
  /\ \/ UNCHANGED <<slot, tag>>
     \/ \E i \in SlotImages : slot' = Sealed(i) /\ tag' = i
     \/ slot' \in {Sealed("erased"), Sealed("part")} /\ tag' \in {tag, "blank"}
  /\ Goto("Verify")
  /\ UNCHANGED <<resident, signed, fallback, nvic, control, loop, job>>

(* The window of the Bootloader ends; a board that waits is reset.          *)
WindowEnds ==
  /\ runs = "Bootloader" /\ pc = "Wait"
  /\ Goto("Verify")
  /\ UNCHANGED <<flash, nvic, control, loop, job>>

(* Mutant: the CRC is not compared. *)
VerifyMSPOnly ==
  /\ runs = "Bootloader" /\ pc = "Verify"
  /\ Goto(IF tag # "blank" /\ slot.head # "erased" THEN "Drain" ELSE "Wait")
  /\ UNCHANGED <<flash, nvic, control, loop, job>>

VerifyActiveSlot ==
  /\ runs = "Bootloader" /\ pc = "Verify"
  /\ Goto(IF TagFits THEN "Drain" ELSE "Wait")
  /\ UNCHANGED <<flash, nvic, control, loop, job>>

(* SEC_BOOT_Boot: an erased slot has no stack pointer; then the SHA-256 of  *)
(* the first APP_DEMO_SIZE bytes, whatever follows them.                    *)
SEC_BOOT_Boot ==
  /\ runs = "Secure_Boot" /\ pc = "Check"
  /\ Goto(IF slot.head = signed THEN "Jump" ELSE "Halted")
  /\ UNCHANGED <<flash, nvic, control, loop, job>>

----------------------------------------------------------------------------
(* The hand-over *)

(* Mutant: VTOR is moved before USB is down. *)
DrainRelocated ==
  /\ pc = "Drain"
  /\ vtor' = slot.head
  /\ Goto("Detach")
  /\ UNCHANGED <<flash, primask, enabled, pending, control, loop, job>>

(* BL_JumpToApplication lets the host read the last bytes: USB works on.    *)
Drain ==
  /\ pc = "Drain"
  /\ Goto("Detach")
  /\ UNCHANGED <<flash, nvic, control, loop, job>>

(* USB_CDC_Deinit; the interrupt may be requested again until USB is reset. *)
Detach ==
  /\ pc = "Detach"
  /\ enabled' = enabled \ {UsbIrq}
  /\ pending' \in {pending, pending \ {UsbIrq}}
  /\ Goto("Disable")
  /\ UNCHANGED <<flash, vtor, primask, control, loop, job>>

(* With USART2 and USB off nothing requests any more; cpsid, SysTick off,   *)
(* and every ICER and ICPR.                                                 *)
Disable ==
  /\ pc = "Disable"
  /\ primask' = TRUE
  /\ enabled' = {} /\ pending' = {}
  /\ Goto("Handed")
  /\ UNCHANGED <<flash, vtor, control, loop, job>>

(* VTOR, MSP, cpsie, and the branch.                                        *)
Branch ==
  /\ pc = "Handed"
  /\ vtor' = slot.head /\ primask' = FALSE
  /\ runs' = slot.head /\ pc' = "Start"
  /\ UNCHANGED <<flash, enabled, pending, control, loop, job>>

(* SEC_BOOT_Jump: masked, and masked it stays; the NVIC as it was.          *)
SEC_BOOT_Jump ==
  /\ pc = "Jump"
  /\ primask' = TRUE
  /\ vtor' = slot.head
  /\ runs' = slot.head /\ pc' = "Start"
  /\ UNCHANGED <<flash, enabled, pending, control, loop, job>>

----------------------------------------------------------------------------
(* The images of the active slot *)

(* main: the console, and from there on no more than it prints.             *)
StartPlain(i) ==
  /\ runs = i /\ pc = "Start"
  /\ enabled' = enabled \cup Enables(i)
  /\ Goto("Running")
  /\ UNCHANGED <<flash, vtor, primask, pending, control, loop, job>>

StartAppDemo     == StartPlain("App_Demo")

(* Its measurements - UID, RDP level and the CRC of the slot - only read.   *)
StartRootOfTrust == StartPlain("Root_of_Trust")

(* Mutant: main without its first statement. *)
StartUpdateMasked ==
  /\ runs = "Secure_FW_Update" /\ pc = "Start"
  /\ enabled' = enabled \cup Enables(runs)
  /\ Goto("Unlock")
  /\ UNCHANGED <<flash, vtor, primask, pending, control, loop, job>>

(* Secure_FW_Update: cpsie, the drivers, and the signature - which, with no *)
(* HASH handle, is always good.                                             *)
StartUpdate ==
  /\ runs = "Secure_FW_Update" /\ pc = "Start"
  /\ primask' = FALSE
  /\ enabled' = enabled \cup Enables(runs)
  /\ Goto("Unlock")
  /\ UNCHANGED <<flash, vtor, pending, control, loop, job>>

(* SFU_WriteAndSealFallback returns -1 when the unlock fails: main stops.   *)
Unlock ==
  /\ pc = "Unlock"
  /\ pc' \in {"Erase", "Aborted"} /\ UNCHANGED runs
  /\ UNCHANGED <<flash, nvic, control, loop, job>>

(* The sector an address lies in, as SNB takes it. *)
SNBOfBank(s) == s % FallbackFirst     \* mutant: numbered within its bank
SNB(s)       == s

(* One turn of the erase loop, up to the wait in FLASH_ErasePage; to touch  *)
(* a Secure sector is a fault, and the board resets.                        *)
ErasePage ==
  /\ pc = "Erase"
  /\ IF sector >= SecureFirst THEN Goto("Program") /\ UNCHANGED control
     ELSE IF SNB(sector) >= SecureFirst THEN Goto("SecureFault") /\ UNCHANGED control
     ELSE /\ eop' = FALSE /\ eopie' = TRUE /\ erasing' = {SNB(sector)}
          /\ Goto("Await")
  /\ UNCHANGED <<flash, nvic, loop, job>>

(* while (!s_flash_eop); the result is not looked at.                       *)
Await ==
  /\ pc = "Await" /\ eop
  /\ sector' = sector + 1
  /\ Goto("Erase")
  /\ UNCHANGED <<flash, nvic, control, word, job>>

(* One turn of the write loop: the word, or something else - the result is  *)
(* not looked at either.  No tag is written; the flash is locked, -2 is     *)
(* returned, and main says DONE.                                            *)
ProgramWord ==
  /\ pc = "Program"
  /\ IF word < ImageWords
       THEN /\ \E v \in {"image", "torn"} :
                 fallback' = [fallback EXCEPT ![FallbackFirst] =
                                IF @ \in {"erased", "image"} THEN v ELSE "torn"]
            /\ word' = word + 1
            /\ UNCHANGED <<runs, pc>>
       ELSE Goto("Done") /\ UNCHANGED <<fallback, word>>
  /\ UNCHANGED <<resident, signed, slot, tag, nvic, control, sector, job>>

----------------------------------------------------------------------------
(* The programmer: it holds the board, and writes the slot or the tag; it   *)
(* may fail, or be stopped, in every step.                                  *)

Hold == /\ resident \in Loaders /\ pc # "Held"
        /\ runs' = "none" /\ pc' = "Held" /\ erasing' = {}
        /\ UNCHANGED <<resident, signed, fallback, nvic, eopie, eop, loop>>

(* seal.py, first call: the padded image, sectors 8-29; no reset.           *)
SealImage ==
  /\ Hold
  /\ job = "none"
  /\ UNCHANGED tag
  /\ \E i \in SlotImages :
       \/ slot' = Sealed(i) /\ job' = i
       \/ slot' \in {slot, Sealed("erased"), Sealed("part")} /\ job' = "none"

(* seal.py, second call: the tag, and a reset.                              *)
SealTag ==
  /\ job \in SlotImages
  /\ \/ tag' = job
     \/ tag' \in {tag, "blank"}
  /\ job' = "none"
  /\ Restart
  /\ UNCHANGED <<resident, signed, slot, fallback>>

(* `make flash`: the image without its padding - what lies behind it stays -*)
(* and a reset: the board runs while the tag waits to be cleared.           *)
FlashImage ==
  /\ resident \in Loaders /\ pc # "Held"
  /\ job = "none"
  /\ \E i \in SlotImages, h \in {"image", "part", "erased"} :
       /\ slot' \in [head : {IF h = "image" THEN i ELSE h},
                     rest : CASE slot.head \in {"erased", i} -> {slot.rest}
                              [] slot.head = "part" -> {slot.rest, "other"}
                              [] OTHER -> {"other"}]
       /\ job' = IF h = "image" THEN "clear" ELSE "none"
  /\ Restart
  /\ UNCHANGED <<resident, signed, tag, fallback>>

(* POST_FLASH, clear_tag.py: the tag word is blanked, and a reset.          *)
ClearTag ==
  /\ job = "clear"
  /\ tag' = "blank"
  /\ job' = "none"
  /\ Restart
  /\ UNCHANGED <<resident, signed, slot, fallback>>

(* The tool stops between its two calls.                                    *)
ToolStops ==
  /\ job # "none"
  /\ job' = "none"
  /\ UNCHANGED <<flash, runs, pc, nvic, control, loop>>

----------------------------------------------------------------------------
Programmer == SealImage \/ SealTag \/ FlashImage \/ ClearTag \/ ToolStops

Handover == Drain \/ Detach \/ Disable \/ Branch \/ SEC_BOOT_Jump

Update == StartUpdate \/ Unlock \/ ErasePage \/ Await \/ ProgramWord

CPU == Main \/ VerifyActiveSlot \/ SEC_BOOT_Boot \/ Handover \/ StartAppDemo \/ StartRootOfTrust \/ Update

Next ==
  \/ CPU \/ Session \/ WindowEnds
  \/ RequestInterrupt \/ \E i \in pending : TakeInterrupt(i)
  \/ EraseEnds \/ ResetBoard \/ Programmer

(* The CPU runs, the interrupt of the flash is taken when nothing masks it  *)
(* and an erase ends.  Nobody has to reset or to program the board.         *)
Spec ==
  /\ Init /\ [][Next]_vars
  /\ WF_vars(CPU) /\ WF_vars(EraseEnds) /\ WF_vars(TakeInterrupt(FlashIrq))

----------------------------------------------------------------------------
(* Properties *)

InSlot   == runs \in SlotImages
Updating == InSlot /\ pc \in {"Start", "Unlock", "Erase", "Await", "Program"}

(* No interrupt is taken through a null entry - not one the resident image  *)
(* enabled, in the table of the image it hands over to, nor one a demo      *)
(* enables that its own startup.c forgot - and no Secure sector is touched  *)
(* by the update of the fallback slot.                                      *)
NoFault == pc \notin {"HardFault", "SecureFault"}

(* What runs from the slot was checked as it is: the tag of exactly these   *)
(* contents under the Bootloader, the image it was built for under          *)
(* Secure_Boot - whatever the tools left behind between their steps.        *)
RunsTrusted ==
  InSlot => /\ runs = slot.head
            /\ resident = "Bootloader" => TagFits
            /\ resident = "Secure_Boot" => slot.head = signed

(* "TrustZone boundary respected - board remains bootable" (main.c:114): as *)
(* long as an image of the slot runs, no step and no erase it has started   *)
(* changes what the next reset boots.                                       *)
StaysBootable == [][InSlot /\ runs' = runs => UNCHANGED <<resident, slot, tag>>]_vars

(* The update demo comes to its end under either loader - also the one that *)
(* hands over with interrupts masked, where the wait for the end of an      *)
(* erase needs them.                                                        *)
UpdateEnds == Updating ~> ~Updating
=============================================================================
