-------------------------- MODULE SecureUpdateProofs --------------------------
(***************************************************************************)
(* What SecureUpdate promises, for every number of sectors and words: no    *)
(* interrupt meets an empty vector, what runs from the slot was checked,    *)
(* and a running image leaves alone what the next reset boots.              *)
(***************************************************************************)
EXTENDS SecureUpdate, TLAPS

----------------------------------------------------------------------------
(* The inductive invariant *)

HandingOver == {"Drain", "Detach", "Disable", "Handed"}
InUpdate    == {"Unlock", "Erase", "Await", "Program", "Done", "Aborted"}

(* Which image runs, by the place in the code, and through whose vectors.   *)
PlaceInv ==
  /\ resident \in Loaders \cup Standalone
  /\ signed \in SlotImages
  /\ runs \in {resident, "none"} \cup SlotImages
  /\ vtor \in Images
  /\ runs # "none" => vtor = runs
  /\ runs = "none" => pc = "Held"
  /\ pc = "Reset" => runs = resident
  /\ pc \in {"Wait", "Verify"} \cup HandingOver => runs = "Bootloader"
  /\ pc \in {"Check", "Jump"} => runs = "Secure_Boot"
  /\ pc = "Start" => runs \in SlotImages
  /\ pc \in InUpdate => runs = "Secure_FW_Update"

(* The check of the slot holds on until its image runs, and while it does.  *)
TrustInv ==
  /\ pc \in HandingOver => TagFits
  /\ pc = "Jump" => slot.head = signed
  /\ runs \in SlotImages => resident \in Loaders
  /\ RunsTrusted

(* What is pending was requested for the vectors in use; at the branch      *)
(* nothing is, and nothing can be.                                          *)
VectorInv ==
  /\ pending \subseteq Requests(vtor)
  /\ pc = "Handed" => pending = {} /\ enabled = {}
  /\ eopie \in BOOLEAN
  /\ eopie => vtor = "Secure_FW_Update"

(* The update erases Non-Secure sectors of the fallback slot.               *)
SectorInv ==
  /\ sector \in Nat /\ sector >= FallbackFirst
  /\ erasing \subseteq FallbackFirst .. SecureFirst - 1

(* Together, and no fault: inductive.                                       *)
IInv == PlaceInv /\ TrustInv /\ VectorInv /\ SectorInv /\ NoFault

----------------------------------------------------------------------------
(* The images and their tables *)

(* The groups of images are apart from one another.                         *)
LEMMA ImageGroups ==
  /\ Loaders \subseteq Images /\ SlotImages \subseteq Images /\ Standalone \subseteq Images
  /\ Loaders \cap SlotImages = {} /\ Standalone \cap (Loaders \cup SlotImages) = {}
  /\ "none" \notin Images /\ "erased" \notin Images /\ "part" \notin Images /\ "blank" \notin Images
  BY DEF Loaders, SlotImages, Standalone, Images, Table

(* Every startup.c has a handler for each interrupt its image asks for.     *)
LEMMA RequestsHandled == \A i \in Images : Requests(i) \subseteq Table[i]
  BY DEF Images, Table, Requests, Requesting, SysTick, FlashIrq, UsbIrq, RngIrq, HashIrq, Exti, Lpdma, Fdcan, Usarts,
     AesTable, CrcTable, GpioTable, EcdsaTable, RsaTable, DmaTable, FdcanTable, HashTable, NvicTable,
     RngTable, SysTickTable, UartTable, UsbTable, FlashTable, BootloaderTable, SecureBootTable,
     AppDemoTable, RootOfTrustTable, SecureFwUpdateTable

(* What the loaders and the update demo ask for.                            *)
LEMMA LoaderRequests ==
  /\ Requests("Bootloader") = {FlashIrq, UsbIrq}
  /\ Requests("Secure_Boot") = {}
  /\ Requests("Secure_FW_Update") = {FlashIrq}
  /\ SysTick \notin Requests("Bootloader")
  BY DEF Requests, Requesting, FlashIrq, UsbIrq, SysTick

----------------------------------------------------------------------------
(* The invariant holds at first and is kept by every step *)

USE DEF HandingOver, InUpdate, InSlot

(* No session, no image of the slot and no interrupt at power-on.           *)
LEMMA InitInv == Init => IInv
  <1> SUFFICES ASSUME Init PROVE IInv
    OBVIOUS
  <1>1. /\ resident \in Loaders \cup Standalone /\ resident \notin SlotImages /\ resident \in Images
        /\ signed \in SlotImages
    BY ImageGroups DEF Init, SlotImages
  <1>2. PlaceInv
    BY <1>1, ImageGroups DEF Init, PlaceInv
  <1>3. TrustInv
    BY <1>1 DEF Init, TrustInv, RunsTrusted
  <1>4. VectorInv
    BY DEF Init, VectorInv
  <1>5. SectorInv /\ NoFault
    BY SectorsAssumption DEF Init, SectorInv, NoFault
  <1> QED
    BY <1>2, <1>3, <1>4, <1>5 DEF IInv

(* A reset, whatever it finds in the slot.                                  *)
LEMMA RestartInv ==
  ASSUME IInv, Restart, UNCHANGED <<resident, signed>>
  PROVE  IInv'
  <1>1. /\ resident \in Loaders \cup Standalone /\ resident \notin SlotImages /\ resident \in Images
        /\ signed \in SlotImages
    BY ImageGroups DEF IInv, PlaceInv
  <1>2. PlaceInv'
    BY <1>1, ImageGroups DEF Restart, PlaceInv
  <1>3. TrustInv'
    BY <1>1 DEF Restart, TrustInv, RunsTrusted
  <1>4. VectorInv'
    BY DEF Restart, VectorInv
  <1>5. SectorInv' /\ NoFault'
    BY SectorsAssumption DEF Restart, SectorInv, NoFault
  <1> QED
    BY <1>2, <1>3, <1>4, <1>5 DEF IInv

(* The programmer holds the board: nothing runs that would have to be       *)
(* trusted, and the erase is over.                                          *)
LEMMA HoldInv ==
  ASSUME IInv, Hold
  PROVE  IInv'
  BY ImageGroups
  DEF Hold, nvic, loop, IInv, PlaceInv, TrustInv, VectorInv, SectorInv, NoFault, RunsTrusted

(* Every way a reset comes about, and every call of the programmer.         *)
LEMMA ProgrammerInv ==
  ASSUME IInv, ResetBoard \/ Programmer
  PROVE  IInv'
  <1>1. CASE ResetBoard
    BY <1>1, RestartInv DEF ResetBoard
  <1>2. CASE SealImage
    BY <1>2, HoldInv DEF SealImage
  <1>3. CASE SealTag
    BY <1>3, RestartInv DEF SealTag
  <1>4. CASE FlashImage
    BY <1>4, RestartInv DEF FlashImage
  <1>5. CASE ClearTag
    BY <1>5, RestartInv DEF ClearTag
  <1>6. CASE ToolStops
    BY <1>6 DEF ToolStops, flash, nvic, control, loop, IInv, PlaceInv, TrustInv, VectorInv, SectorInv,
                NoFault, RunsTrusted, TagFits, Sealed
  <1> QED
    BY <1>1, <1>2, <1>3, <1>4, <1>5, <1>6 DEF Programmer

(* An interrupt is requested for the vectors in use; none in the moment     *)
(* before the branch.                                                       *)
LEMMA RequestInv ==
  ASSUME IInv, RequestInterrupt
  PROVE  IInv'
  <1>1. UNCHANGED <<flash, runs, pc, vtor, primask, enabled, control, loop, job>>
    BY DEF RequestInterrupt
  <1>2. PlaceInv' /\ TrustInv' /\ SectorInv' /\ NoFault'
    BY <1>1 DEF flash, control, loop, IInv, PlaceInv, TrustInv, SectorInv, NoFault, RunsTrusted, TagFits, Sealed
  <1>3. VectorInv'
    <2>1. runs # "none" /\ vtor = runs
      BY ImageGroups DEF RequestInterrupt, IInv, PlaceInv
    <2>2. PICK i \in (Requests(runs) \cap (enabled \cup {SysTick})) \ {FlashIrq} : pending' = pending \cup {i}
      BY DEF RequestInterrupt
    <2>3. pc # "Handed"
      <3>1. SUFFICES ASSUME pc = "Handed" PROVE FALSE
        OBVIOUS
      <3>2. runs = "Bootloader" /\ enabled = {}
        BY <3>1 DEF IInv, PlaceInv, VectorInv
      <3> QED
        BY <2>2, <3>2, LoaderRequests
    <2> QED
      BY <1>1, <2>1, <2>2, <2>3 DEF control, IInv, VectorInv
  <1> QED
    BY <1>2, <1>3 DEF IInv

(* It is taken through a table that has a handler for it.                   *)
LEMMA TakeInv ==
  ASSUME IInv, NEW i, TakeInterrupt(i)
  PROVE  IInv'
  <1>1. i \in Table[vtor]
    BY RequestsHandled DEF TakeInterrupt, IInv, PlaceInv, VectorInv
  <1>2. /\ pending' = pending \ {i} /\ (eopie' = FALSE \/ eopie' = eopie)
        /\ UNCHANGED <<flash, runs, pc, vtor, enabled, erasing, loop>>
    BY <1>1 DEF TakeInterrupt, Goto
  <1>3. PlaceInv' /\ TrustInv' /\ SectorInv' /\ NoFault'
    BY <1>2 DEF flash, loop, IInv, PlaceInv, TrustInv, SectorInv, NoFault, RunsTrusted, TagFits, Sealed
  <1>4. VectorInv'
    <2>1. pending' \subseteq Requests(vtor') /\ (pc' = "Handed" => pending' = {} /\ enabled' = {})
      BY <1>2 DEF IInv, VectorInv
    <2>2. eopie' \in BOOLEAN /\ (eopie' => vtor' = "Secure_FW_Update")
      <3>1. eopie \in BOOLEAN /\ (eopie => vtor = "Secure_FW_Update") /\ vtor' = vtor
        BY <1>2 DEF IInv, VectorInv
      <3>2. CASE eopie' = FALSE
        BY <3>2
      <3>3. CASE eopie' = eopie
        BY <3>1, <3>3
      <3> QED
        BY <1>2, <3>2, <3>3
    <2> QED
      BY <2>1, <2>2 DEF VectorInv
  <1> QED
    BY <1>3, <1>4 DEF IInv

(* The end of an erase changes a sector of the fallback slot.               *)
LEMMA EraseStays ==
  ASSUME IInv, EraseEnds
  PROVE  UNCHANGED <<resident, slot, tag>>
  <1>1. PICK s \in erasing :
          /\ slot'     = IF s \in ActiveSectors THEN [slot EXCEPT !.head = "erased"] ELSE slot
          /\ tag'      = IF s = TagSector THEN "blank" ELSE tag
          /\ resident' = IF s = 0 THEN "erased" ELSE resident
    BY DEF EraseEnds
  <1>2. s \in Int /\ s > TagSector /\ TagSector \in Nat
    BY SectorsAssumption DEF IInv, SectorInv
  <1>3. s \notin ActiveSectors /\ s # TagSector /\ s # 0
    BY <1>2, SectorsAssumption
  <1> QED
    BY <1>1, <1>3

(* Its interrupt comes only to the update demo.                             *)
LEMMA EraseEndsInv ==
  ASSUME IInv, EraseEnds
  PROVE  IInv'
  <1>1. UNCHANGED <<resident, slot, tag, signed, runs, pc, vtor, enabled, eopie, loop>> /\ erasing' = {}
    BY EraseStays DEF EraseEnds, loop
  <1>2. PlaceInv' /\ TrustInv' /\ SectorInv' /\ NoFault'
    BY <1>1 DEF loop, IInv, PlaceInv, TrustInv, SectorInv, NoFault, RunsTrusted, TagFits, Sealed
  <1>3. pending' = IF eopie THEN pending \cup {FlashIrq} ELSE pending
    BY DEF EraseEnds
  <1>4. VectorInv'
    <2>1. CASE eopie
      <3>1. vtor = "Secure_FW_Update" /\ pc # "Handed"
        BY <2>1 DEF IInv, VectorInv, PlaceInv
      <3> QED
        BY <1>1, <1>3, <2>1, <3>1, LoaderRequests DEF IInv, VectorInv
    <2>2. CASE ~eopie
      BY <1>1, <1>3, <2>2 DEF IInv, VectorInv
    <2> QED
      BY <2>1, <2>2
  <1> QED
    BY <1>2, <1>4 DEF IInv

(* The places of a program: what a step that only goes on has to keep.      *)
LEMMA GotoInv ==
  ASSUME IInv, NEW l, Goto(l), UNCHANGED <<resident, signed, slot, tag, vtor, pending, eopie, sector, erasing>>,
         l \notin {"Handed", "HardFault", "SecureFault", "Reset"},
         runs # "none",
         l \in {"Wait", "Verify"} \cup HandingOver => runs = "Bootloader",
         l \in {"Check", "Jump"} => runs = "Secure_Boot",
         l # "Start",
         l \in InUpdate => runs = "Secure_FW_Update",
         l \in HandingOver => TagFits,
         l = "Jump" => slot.head = signed
  PROVE  IInv'
  <1>1. PlaceInv'
    BY DEF Goto, IInv, PlaceInv
  <1>2. TrustInv'
    BY DEF Goto, IInv, TrustInv, RunsTrusted, TagFits, Sealed
  <1>3. VectorInv' /\ SectorInv' /\ NoFault'
    BY DEF Goto, IInv, VectorInv, SectorInv, NoFault
  <1> QED
    BY <1>1, <1>2, <1>3 DEF IInv

(* The loaders up to their decision: the hand-over begins only after the    *)
(* check.                                                                   *)
LEMMA LoaderInv ==
  ASSUME IInv, Main \/ Session \/ WindowEnds \/ VerifyActiveSlot \/ SEC_BOOT_Boot
  PROVE  IInv'
  <1>1. CASE Main
    BY <1>1, GotoInv DEF Main, Goto, flash, control, loop, IInv, PlaceInv
  <1>2. CASE Session
    <2>1. runs = "Bootloader" /\ runs \notin SlotImages
      BY <1>2, ImageGroups DEF Session, Loaders
    <2>2. Goto("Verify") /\ UNCHANGED <<resident, signed, vtor, pending, enabled, eopie, sector, erasing>>
      BY <1>2 DEF Session, nvic, control, loop
    <2>3. PlaceInv' /\ VectorInv' /\ SectorInv' /\ NoFault'
      BY <2>1, <2>2 DEF Goto, IInv, PlaceInv, VectorInv, SectorInv, NoFault
    <2>4. TrustInv'
      BY <2>1, <2>2 DEF Goto, TrustInv, RunsTrusted
    <2> QED
      BY <2>3, <2>4 DEF IInv
  <1>3. CASE WindowEnds
    BY <1>3, GotoInv DEF WindowEnds, flash, nvic, control, loop, IInv, PlaceInv
  <1>4. CASE VerifyActiveSlot
    BY <1>4, GotoInv DEF VerifyActiveSlot, flash, nvic, control, loop, IInv, PlaceInv
  <1>5. CASE SEC_BOOT_Boot
    BY <1>5, GotoInv DEF SEC_BOOT_Boot, flash, nvic, control, loop, IInv, PlaceInv
  <1> QED
    BY <1>1, <1>2, <1>3, <1>4, <1>5

(* The hand-over: the image that was checked is the one that starts, and    *)
(* with its vectors nothing is pending that it did not ask for.             *)
LEMMA HandoverInv ==
  ASSUME IInv, Handover
  PROVE  IInv'
  <1>1. CASE Drain
    BY <1>1, GotoInv DEF Drain, flash, nvic, control, loop, IInv, PlaceInv, TrustInv
  <1>2. CASE Detach
    <2>1. pending' \subseteq pending /\ Goto("Disable") /\ pc = "Detach"
          /\ UNCHANGED <<flash, vtor, control, loop>>
      BY <1>2 DEF Detach
    <2>2. PlaceInv' /\ TrustInv'
      BY <2>1 DEF Goto, flash, IInv, PlaceInv, TrustInv, RunsTrusted, TagFits, Sealed
    <2>3. VectorInv' /\ SectorInv' /\ NoFault'
      BY <2>1 DEF Goto, control, loop, IInv, VectorInv, SectorInv, NoFault
    <2> QED
      BY <2>2, <2>3 DEF IInv
  <1>3. CASE Disable
    <2>1. pending' = {} /\ enabled' = {} /\ Goto("Handed") /\ pc = "Disable"
          /\ UNCHANGED <<flash, vtor, control, loop>>
      BY <1>3 DEF Disable
    <2>2. PlaceInv' /\ TrustInv'
      BY <2>1 DEF Goto, flash, IInv, PlaceInv, TrustInv, RunsTrusted, TagFits, Sealed
    <2>3. VectorInv' /\ SectorInv' /\ NoFault'
      BY <2>1 DEF Goto, control, loop, IInv, VectorInv, SectorInv, NoFault
    <2> QED
      BY <2>2, <2>3 DEF IInv
  <1>4. CASE Branch
    <2>1. /\ runs = "Bootloader" /\ resident = "Bootloader" /\ vtor = "Bootloader"
          /\ TagFits /\ pending = {} /\ ~eopie
      BY <1>4, ImageGroups DEF Branch, IInv, PlaceInv, TrustInv, VectorInv, Loaders, SlotImages
    <2>2. slot.head \in SlotImages
      BY <2>1 DEF TagFits, Sealed
    <2>3. /\ runs' = slot.head /\ vtor' = slot.head /\ pc' = "Start"
          /\ UNCHANGED <<flash, pending, control, loop>>
      BY <1>4 DEF Branch
    <2>4. PlaceInv'
      BY <2>1, <2>2, <2>3, ImageGroups DEF flash, IInv, PlaceInv
    <2>5. TrustInv'
      BY <2>1, <2>2, <2>3 DEF flash, TrustInv, RunsTrusted, TagFits, Sealed, Loaders
    <2>6. VectorInv' /\ SectorInv' /\ NoFault'
      BY <2>1, <2>3 DEF control, loop, IInv, VectorInv, SectorInv, NoFault
    <2> QED
      BY <2>4, <2>5, <2>6 DEF IInv
  <1>5. CASE SEC_BOOT_Jump
    <2>1. /\ runs = "Secure_Boot" /\ resident = "Secure_Boot" /\ vtor = "Secure_Boot"
          /\ slot.head = signed /\ signed \in SlotImages /\ pending = {} /\ ~eopie
      BY <1>5, ImageGroups, LoaderRequests
      DEF SEC_BOOT_Jump, IInv, PlaceInv, TrustInv, VectorInv, Loaders, SlotImages
    <2>2. /\ runs' = slot.head /\ vtor' = slot.head /\ pc' = "Start"
          /\ UNCHANGED <<flash, pending, control, loop>>
      BY <1>5 DEF SEC_BOOT_Jump
    <2>3. PlaceInv'
      BY <2>1, <2>2, ImageGroups DEF flash, IInv, PlaceInv
    <2>4. TrustInv'
      BY <2>1, <2>2 DEF flash, TrustInv, RunsTrusted, Loaders
    <2>5. VectorInv' /\ SectorInv' /\ NoFault'
      BY <2>1, <2>2 DEF control, loop, IInv, VectorInv, SectorInv, NoFault
    <2> QED
      BY <2>3, <2>4, <2>5 DEF IInv
  <1> QED
    BY <1>1, <1>2, <1>3, <1>4, <1>5 DEF Handover

(* The images of the slot: the update demo erases sectors of the fallback   *)
(* slot below the Secure ones, and no other.                                *)
LEMMA ImagesInv ==
  ASSUME IInv, StartAppDemo \/ StartRootOfTrust \/ Update
  PROVE  IInv'
  <1>1. ASSUME NEW i, StartPlain(i) PROVE IInv'
    BY <1>1, GotoInv DEF StartPlain, flash, control, loop, IInv, PlaceInv
  <1>2. CASE StartUpdate
    BY <1>2, GotoInv DEF StartUpdate, flash, control, loop, IInv, PlaceInv
  <1>3. CASE Unlock
    BY <1>3, GotoInv DEF Unlock, Goto, flash, nvic, control, loop, IInv, PlaceInv
  <1>4. CASE ErasePage
    <2>1. runs = "Secure_FW_Update" /\ vtor = "Secure_FW_Update" /\ sector \in Nat /\ sector >= FallbackFirst
      BY <1>4 DEF ErasePage, IInv, PlaceInv, SectorInv
    <2>2. CASE sector >= SecureFirst
      BY <1>4, <2>1, <2>2, GotoInv DEF ErasePage, flash, nvic, control, loop, IInv, PlaceInv
    <2>3. CASE ~(sector >= SecureFirst)
      <3>1. /\ eopie' = TRUE /\ erasing' = {sector} /\ Goto("Await") /\ pc = "Erase"
            /\ UNCHANGED <<flash, nvic, loop>>
        BY <1>4, <2>3 DEF ErasePage, SNB
      <3>2. PlaceInv' /\ TrustInv'
        BY <2>1, <3>1 DEF Goto, flash, nvic, IInv, PlaceInv, TrustInv, RunsTrusted, TagFits, Sealed
      <3>3. VectorInv' /\ NoFault'
        BY <2>1, <3>1 DEF Goto, nvic, IInv, VectorInv, NoFault
      <3>4. SectorInv'
        BY <2>1, <2>3, <3>1, SectorsAssumption DEF loop, SectorInv
      <3> QED
        BY <3>2, <3>3, <3>4 DEF IInv
    <2> QED
      BY <2>2, <2>3
  <1>5. CASE Await
    <2>1. sector' = sector + 1 /\ Goto("Erase") /\ pc = "Await" /\ UNCHANGED <<flash, nvic, control>>
      BY <1>5 DEF Await
    <2>2. PlaceInv' /\ TrustInv'
      BY <2>1 DEF Goto, flash, nvic, IInv, PlaceInv, TrustInv, RunsTrusted, TagFits, Sealed
    <2>3. VectorInv' /\ NoFault'
      BY <2>1 DEF Goto, nvic, control, IInv, VectorInv, NoFault
    <2>4. SectorInv'
      BY <2>1, SectorsAssumption DEF control, IInv, SectorInv
    <2> QED
      BY <2>2, <2>3, <2>4 DEF IInv
  <1>6. CASE ProgramWord
    <2>1. Goto(pc') /\ pc' \in {"Program", "Done"} /\ pc = "Program"
          /\ UNCHANGED <<resident, signed, slot, tag, nvic, control, sector>>
      BY <1>6 DEF ProgramWord, Goto
    <2> QED
      BY <2>1, GotoInv DEF nvic, control, IInv, PlaceInv
  <1> QED
    BY <1>1, <1>2, <1>3, <1>4, <1>5, <1>6 DEF Update, StartAppDemo, StartRootOfTrust

(* One lemma for each kind of step.                                         *)
LEMMA NextInv == IInv /\ [Next]_vars => IInv'
  <1> SUFFICES ASSUME IInv, [Next]_vars PROVE IInv'
    OBVIOUS
  <1>1. CASE UNCHANGED vars
    BY <1>1 DEF vars, IInv, PlaceInv, TrustInv, VectorInv, SectorInv, NoFault, RunsTrusted, TagFits, Sealed
  <1>2. CASE CPU
    BY <1>2, LoaderInv, HandoverInv, ImagesInv DEF CPU
  <1>3. CASE Session \/ WindowEnds
    BY <1>3, LoaderInv
  <1>4. CASE RequestInterrupt
    BY <1>4, RequestInv
  <1>5. CASE \E i \in pending : TakeInterrupt(i)
    BY <1>5, TakeInv
  <1>6. CASE EraseEnds
    BY <1>6, EraseEndsInv
  <1>7. CASE ResetBoard \/ Programmer
    BY <1>7, ProgrammerInv
  <1> QED
    BY <1>1, <1>2, <1>3, <1>4, <1>5, <1>6, <1>7 DEF Next

----------------------------------------------------------------------------
(* Results *)

(* The inductive invariant holds in every reachable state.                  *)
THEOREM Inductive == Spec => []IInv
  <1>1. Init => IInv
    BY InitInv
  <1>2. IInv /\ [Next]_vars => IInv'
    BY NextInv
  <1> QED
    BY <1>1, <1>2, PTL DEF Spec

(* No interrupt is ever taken through an empty vector, and no Secure sector *)
(* is touched: the tables of every startup.c serve what its image enables,  *)
(* and the hand-over of both loaders leaves nothing that another's would    *)
(* have to serve.                                                           *)
THEOREM NeverFaults == Spec => []NoFault
  <1>1. IInv => NoFault
    BY DEF IInv
  <1> QED
    BY Inductive, <1>1, PTL

(* What runs from the slot was checked as it is, by either loader, wherever *)
(* the tools were stopped between their steps.                              *)
THEOREM OnlyTrustedRuns == Spec => []RunsTrusted
  <1>1. IInv => RunsTrusted
    BY DEF IInv, TrustInv
  <1> QED
    BY Inductive, <1>1, PTL

(* Steps of the board leave the slot, its tag and the resident image alone; *)
(* the sessions and the tools change them, but not while an image of the    *)
(* slot goes on running.                                                    *)
LEMMA BootableStep ==
  ASSUME IInv, Next, InSlot, runs' = runs
  PROVE  UNCHANGED <<resident, slot, tag>>
  <1>1. resident \notin SlotImages /\ runs # "Bootloader" /\ runs # "none"
    BY ImageGroups DEF IInv, PlaceInv, Loaders
  <1>2. CASE CPU
    BY <1>2 DEF CPU, Main, VerifyActiveSlot, SEC_BOOT_Boot, Handover, Drain, Detach, Disable, Branch,
                SEC_BOOT_Jump, StartAppDemo, StartRootOfTrust, StartPlain, Update, StartUpdate, Unlock,
                ErasePage, Await, ProgramWord, flash
  <1>3. CASE Session \/ WindowEnds
    BY <1>1, <1>3 DEF Session, WindowEnds
  <1>4. CASE RequestInterrupt
    BY <1>4 DEF RequestInterrupt, flash
  <1>5. CASE \E i \in pending : TakeInterrupt(i)
    BY <1>5 DEF TakeInterrupt, flash
  <1>6. CASE EraseEnds
    BY <1>6, EraseStays
  <1>7. CASE ResetBoard
    BY <1>7 DEF ResetBoard
  <1>8. CASE ToolStops
    BY <1>8 DEF ToolStops, flash
  <1>9. CASE SealImage
    BY <1>1, <1>9 DEF SealImage, Hold
  <1>10. CASE SealTag \/ FlashImage \/ ClearTag
    BY <1>1, <1>10 DEF SealTag, FlashImage, ClearTag, Restart
  <1> QED
    BY <1>2, <1>3, <1>4, <1>5, <1>6, <1>7, <1>8, <1>9, <1>10 DEF Next, Programmer

(* "Board remains bootable": as long as an image of the slot runs, nothing  *)
(* changes what the next reset boots.                                       *)
THEOREM BoardStaysBootable == Spec => StaysBootable
  <1>1. IInv /\ [Next]_vars => [InSlot /\ runs' = runs => UNCHANGED <<resident, slot, tag>>]_vars
    BY BootableStep
  <1> QED
    BY Inductive, <1>1, PTL DEF Spec, StaysBootable
=============================================================================
