--------------------------- MODULE BootloaderProofs ---------------------------
(***************************************************************************)
(* Proofs about Bootloader for every geometry, checksum and host.          *)
(***************************************************************************)
EXTENDS Bootloader, SequenceTheorems, TLAPS

----------------------------------------------------------------------------
(* Arithmetic of flash words and sectors *)

(* Integer division rounds down by less than one divisor. *)
LEMMA DivBounds ==
  ASSUME NEW a \in Nat, NEW c \in Nat \ {0}
  PROVE  /\ a \div c \in Nat
         /\ (a \div c) * c <= a
         /\ a < (a \div c) * c + c
  OBVIOUS

(* A positive factor can be cancelled. *)
LEMMA MulLess ==
  ASSUME NEW a \in Int, NEW b \in Int, NEW c \in Nat \ {0}, a * c < b * c
  PROVE  a < b
  OBVIOUS

(* One more multiple. *)
LEMMA MulNext ==
  ASSUME NEW a \in Int, NEW c \in Int
  PROVE  (a + 1) * c = a * c + c
  OBVIOUS

(* Multiplication distributes. *)
LEMMA MulSum ==
  ASSUME NEW a \in Int, NEW b \in Int, NEW c \in Int
  PROVE  (a + b) * c = a * c + b * c
  OBVIOUS

(* Products of positive numbers are positive. *)
LEMMA MulNat ==
  ASSUME NEW a \in Nat \ {0}, NEW c \in Nat \ {0}
  PROVE  a * c \in Nat \ {0}
  OBVIOUS

(* The slot and a chunk have a positive number of words and bytes. *)
LEMMA Geometry ==
  /\ SlotSectors \in Nat \ {0} /\ SectorWords \in Nat \ {0}
  /\ WordBytes \in Nat \ {0} /\ ChunkWords \in Nat \ {0}
  /\ SlotWords \in Nat \ {0} /\ SlotBytes \in Nat \ {0} /\ ChunkBytes \in Nat \ {0}
  BY GeometryAssumption, MulNat DEF SlotWords, SlotBytes, ChunkBytes

----------------------------------------------------------------------------
(* The inductive invariant *)

Writing == {"Chunk", "Program", "Crc", "Seal"}

(* A session starts from a clean slate. *)
StartInv ==
  pc = "Size" =>
    /\ size = 0 /\ received = 0 /\ addr = 0 /\ sector = 0
    /\ chunk = <<>> /\ image = ErasedSlot

(* The sectors the erase has passed are erased. *)
EraseInv ==
  pc = "Erase" =>
    /\ sector <= TagSector
    /\ size > 0 /\ received = 0 /\ addr = 0
    /\ chunk = <<>> /\ image = ErasedSlot
    /\ \A w \in FlashWord : w < sector * SectorWords => writes[w] = 0
    /\ \A w \in SlotWord : w < sector * SectorWords => slot[w] = Erased

(* Below addr the slot is the image; from addr on it is still erased, and   *)
(* the image there is the rest of the chunk, then erased bytes.             *)
WriteInv ==
  pc \in Writing =>
    /\ tag = NoTag
    /\ \A w \in FlashWord : w >= addr => writes[w] = 0
    /\ \A w \in SlotWord : w < addr => slot[w] = image[w]
    /\ \A w \in SlotWord : w >= addr => slot[w] = Erased
    /\ \A w \in SlotWord : w >= addr + Len(chunk) => image[w] = Erased
    /\ \A i \in 1 .. Len(chunk) : addr + i - 1 \in SlotWord => image[addr + i - 1] = chunk[i]
    /\ pc # "Program" => chunk = <<>>

(* A full chunk ends on a flash word, so bytes received and words           *)
(* programmed agree whenever another chunk is to come.                      *)
LoopInv ==
  /\ pc = "Chunk" => received < size /\ received = addr * WordBytes
  /\ pc = "Program" =>
       /\ received < size
       /\ chunk # <<>>
       /\ addr + Len(chunk) <= SlotWords
       /\ ChunkLen = ChunkBytes => received + ChunkBytes = (addr + Len(chunk)) * WordBytes

SealInv   == pc = "Seal" => hostCrc = Crc(slot)
ResultInv == pc \in InSession => result = "NONE"

IInv ==
  /\ TypeOK
  /\ StartInv /\ EraseInv /\ WriteInv /\ LoopInv /\ SealInv /\ ResultInv
  /\ LockedOutsideWriting
  /\ WriteOnce
  /\ RunsValidImage
  /\ AcceptedIsDelivered

(* An erased slot is a slot. *)
LEMMA ErasedSlotType == ErasedSlot \in Contents
  BY DataAssumption DEF ErasedSlot, Contents

(* The invariant holds at power-up. *)
LEMMA InitInv == Init => IInv
<1> SUFFICES ASSUME Init PROVE IInv
  OBVIOUS
<1>1. TypeOK
  <2>1. slot \in Contents /\ tag \in CrcValue /\ writes \in [FlashWord -> Nat]
    BY DEF Init
  <2>2. chunk \in Seq(Word) /\ hostCrc \in CrcValue /\ image \in Contents
    BY DataAssumption, ErasedSlotType DEF Init
  <2>3. pc \in Control /\ stay \in BOOLEAN /\ lock \in BOOLEAN
        /\ result \in Failures \cup {"NONE", "OK"}
    BY DEF Init, Control
  <2>4. size \in 0 .. SlotBytes /\ received \in 0 .. SlotBytes
        /\ addr \in 0 .. SlotWords /\ sector \in 0 .. TagSector + 1
    BY Geometry DEF Init, TagSector
  <2> QED
    BY <2>1, <2>2, <2>3, <2>4 DEF TypeOK
<1>2. WriteOnce
  BY DEF Init, WriteOnce
<1>3. LockedOutsideWriting
  BY DEF Init, LockedOutsideWriting, InSession, Reading
<1> QED
  BY <1>1, <1>2, <1>3
  DEF Init, IInv, StartInv, EraseInv, WriteInv, LoopInv, SealInv, ResultInv,
      RunsValidImage, AcceptedIsDelivered, InSession, Reading, Writing

(* The invariant is about nothing but the variables. *)
LEMMA StutterInv == IInv /\ UNCHANGED vars => IInv'
  BY DEF vars, IInv, TypeOK, StartInv, EraseInv, WriteInv, LoopInv, SealInv, ResultInv,
         LockedOutsideWriting, WriteOnce, RunsValidImage, AcceptedIsDelivered,
         ChunkLen, Valid

(* Steps that leave the flash alone and end outside a session, or at its    *)
(* very start. *)
LEMMA IdleInv ==
  ASSUME IInv, UNCHANGED flash, TypeOK', lock' = TRUE,
         pc' \in {"Reset", "Wait", "Verify", "App", "Size"},
         StartInv', ResultInv', RunsValidImage',
         result' = "OK" => result = "OK" /\ UNCHANGED image
  PROVE  IInv'
  BY DEF IInv, EraseInv, WriteInv, LoopInv, SealInv, Writing, flash, Valid,
         LockedOutsideWriting, InSession, Reading, WriteOnce, AcceptedIsDelivered

(* main's start keeps the invariant. *)
LEMMA BootInv == IInv /\ Boot => IInv'
<1> SUFFICES ASSUME IInv, Boot PROVE IInv'
  OBVIOUS
<1>1. lock = TRUE
  BY DEF Boot, IInv, TypeOK, LockedOutsideWriting, InSession, Reading
<1>2. TypeOK'
  BY DEF Boot, IInv, TypeOK, flash, session, Control, InSession, Reading
<1> QED
  BY <1>1, <1>2, IdleInv
  DEF Boot, session, StartInv, ResultInv, RunsValidImage, InSession, Reading

(* A 'u' keeps the invariant. *)
LEMMA RequestInv == IInv /\ UpdateRequested => IInv'
<1> SUFFICES ASSUME IInv, UpdateRequested PROVE IInv'
  OBVIOUS
<1>1. lock = TRUE
  BY DEF UpdateRequested, IInv, TypeOK, LockedOutsideWriting, InSession, Reading
<1>2. TypeOK'
  BY Geometry, DataAssumption, ErasedSlotType
  DEF UpdateRequested, ClearSession, IInv, TypeOK, flash, Control, InSession, Reading, TagSector
<1> QED
  BY <1>1, <1>2, IdleInv
  DEF UpdateRequested, ClearSession, StartInv, ResultInv, RunsValidImage

(* The other ends of the wait window keep the invariant. *)
LEMMA WindowInv == IInv /\ (ButtonPressed \/ WindowExpires) => IInv'
<1> SUFFICES ASSUME IInv, ButtonPressed \/ WindowExpires PROVE IInv'
  OBVIOUS
<1>1. lock = TRUE /\ lock' = TRUE /\ pc' \in {"Wait", "Verify"}
  BY DEF ButtonPressed, WindowExpires, IInv, TypeOK, LockedOutsideWriting, InSession, Reading
<1>2. TypeOK'
  BY DEF ButtonPressed, WindowExpires, IInv, TypeOK, flash, session, Control, InSession, Reading
<1> QED
  BY <1>1, <1>2, IdleInv
  DEF ButtonPressed, WindowExpires, session, StartInv, ResultInv, RunsValidImage, InSession, Reading

(* The boot decision keeps the invariant; an application runs if Valid. *)
LEMMA VerifyInv == IInv /\ Verify => IInv'
<1> SUFFICES ASSUME IInv, Verify PROVE IInv'
  OBVIOUS
<1>1. lock = TRUE /\ lock' = TRUE /\ pc' \in {"Wait", "App"}
  BY DEF Verify, IInv, TypeOK, LockedOutsideWriting, InSession, Reading
<1>2. TypeOK'
  BY DEF Verify, IInv, TypeOK, flash, session, Control, InSession, Reading
<1>3. RunsValidImage'
  BY DEF Verify, RunsValidImage, Valid, flash
<1> QED
  BY <1>1, <1>2, <1>3, IdleInv
  DEF Verify, session, StartInv, ResultInv, InSession, Reading

----------------------------------------------------------------------------
(* What the flash operations preserve *)

(* A whole erase yields flash contents and resets the words' counts. *)
LEMMA EraseType ==
  ASSUME TypeOK, WriteOnce, NEW s, Erase(s)
  PROVE  slot' \in Contents /\ tag' \in CrcValue /\ writes' \in [FlashWord -> Nat] /\ WriteOnce'
  BY DataAssumption DEF TypeOK, WriteOnce, Erase, Contents

(* A torn erase yields flash contents. *)
LEMMA TornEraseType ==
  ASSUME TypeOK, WriteOnce, NEW s, TornErase(s)
  PROVE  slot' \in Contents /\ tag' \in CrcValue /\ writes' \in [FlashWord -> Nat] /\ WriteOnce'
  BY DEF TypeOK, WriteOnce, TornErase, Contents

(* Programming an erased word yields flash contents, written once. *)
LEMMA ProgramType ==
  ASSUME TypeOK, WriteOnce, NEW w \in FlashWord, writes[w] = 0, NEW v, Program(w, v),
         w = TagWord => v \in CrcValue, w # TagWord => v \in Word
  PROVE  slot' \in Contents /\ tag' \in CrcValue /\ writes' \in [FlashWord -> Nat] /\ WriteOnce'
<1>1. slot' \in Contents /\ tag' \in CrcValue
  BY DEF TypeOK, Program, Contents
<1>2. writes' = [writes EXCEPT ![w] = 1]
  BY DEF Program
<1> QED
  BY <1>1, <1>2 DEF TypeOK, WriteOnce

(* A step that ends the session, or the power, after a flash operation.     *)
LEMMA LeaveInv ==
  ASSUME slot' \in Contents, tag' \in CrcValue, writes' \in [FlashWord -> Nat], WriteOnce',
         pc' \in {"Verify", "Reset"}, stay' \in BOOLEAN, lock' = TRUE, ClearSession,
         image' = ErasedSlot, result' \in Failures \cup {"NONE"}
  PROVE  IInv'
<1>1. TypeOK'
  BY Geometry, DataAssumption, ErasedSlotType
  DEF TypeOK, ClearSession, Control, TagSector, Failures
<1> QED
  BY <1>1
  DEF IInv, StartInv, EraseInv, WriteInv, LoopInv, SealInv, ResultInv, Failures,
      LockedOutsideWriting, RunsValidImage, AcceptedIsDelivered, InSession, Reading, Writing

(* The `fail:` label keeps the invariant. *)
LEMMA AbortInv ==
  ASSUME IInv, NEW st \in Failures, Abort(st),
         slot' \in Contents, tag' \in CrcValue, writes' \in [FlashWord -> Nat], WriteOnce'
  PROVE  IInv'
  BY LeaveInv DEF Abort, Return, IInv, TypeOK

(* A return before FLASH_Unlock keeps the invariant. *)
LEMMA RejectInv ==
  ASSUME IInv, NEW st \in Failures, Reject(st), UNCHANGED flash, lock = TRUE
  PROVE  IInv'
  BY LeaveInv DEF Reject, Return, IInv, TypeOK, flash, WriteOnce

----------------------------------------------------------------------------
(* The session *)

(* A byte timeout keeps the invariant. *)
LEMMA TimeoutInv == IInv /\ ReadTimeout => IInv'
<1> SUFFICES ASSUME IInv, ReadTimeout PROVE IInv'
  OBVIOUS
<1>1. CASE pc = "Size"
  <2>1. lock = TRUE
    BY <1>1 DEF IInv, TypeOK, LockedOutsideWriting
  <2> QED
    BY <1>1, <2>1, RejectInv DEF ReadTimeout, Failures
<1>2. CASE pc # "Size"
  BY <1>2, AbortInv DEF ReadTimeout, Failures, flash, IInv, TypeOK, WriteOnce
<1> QED
  BY <1>1, <1>2

(* The size step keeps the invariant. *)
LEMMA SizeInv == ASSUME NEW n \in Nat PROVE IInv /\ ReceiveSize(n) => IInv'
<1> SUFFICES ASSUME IInv, ReceiveSize(n) PROVE IInv'
  OBVIOUS
<1>1. lock = TRUE /\ result = "NONE" /\ StartInv
  BY DEF ReceiveSize, IInv, TypeOK, LockedOutsideWriting, ResultInv, InSession, Reading
<1>2. CASE Reject("SIZE") \/ Reject("FLASH")
  BY <1>1, <1>2, RejectInv DEF ReceiveSize, Failures
<1>3. CASE pc' = "Erase"
  <2>1. /\ n \in 1 .. SlotBytes /\ lock' = FALSE /\ size' = n /\ UNCHANGED flash
        /\ UNCHANGED <<stay, received, addr, sector, chunk, hostCrc, image, result>>
        /\ received = 0 /\ addr = 0 /\ sector = 0 /\ chunk = <<>> /\ image = ErasedSlot
    BY <1>1, <1>3 DEF ReceiveSize, StartInv, Reject, Return
  <2>2. TypeOK'
    <3>1. size' \in 0 .. SlotBytes
      BY <2>1, Geometry
    <3>2. pc' \in Control /\ lock' \in BOOLEAN
      BY <1>3, <2>1 DEF Control, InSession
    <3> QED
      BY <2>1, <3>1, <3>2 DEF IInv, TypeOK, flash
  <2>3. EraseInv'
    BY <1>3, <2>1, Geometry, MulNat DEF EraseInv, TagSector, FlashWord, SlotWord
  <2> QED
    BY <1>1, <1>3, <2>1, <2>2, <2>3
    DEF IInv, flash, StartInv, WriteInv, LoopInv, SealInv, ResultInv, Writing, WriteOnce,
        LockedOutsideWriting, RunsValidImage, AcceptedIsDelivered, InSession, Reading
<1> QED
  BY <1>2, <1>3 DEF ReceiveSize

(* One turn of BL_EraseActiveSlot keeps the invariant. *)
LEMMA EraseNextInv == IInv /\ EraseNext => IInv'
<1> SUFFICES ASSUME IInv, EraseNext PROVE IInv'
  OBVIOUS
<1>1. /\ TypeOK /\ WriteOnce /\ EraseInv /\ pc = "Erase"
      /\ result = "NONE" /\ lock = FALSE
  BY DEF EraseNext, IInv, TypeOK, LockedOutsideWriting, ResultInv, InSession, Reading
<1>2. CASE TornErase(sector) /\ Abort("FLASH")
  BY <1>1, <1>2, TornEraseType, AbortInv DEF Failures
<1>3. CASE ~(TornErase(sector) /\ Abort("FLASH"))
  <2>1. /\ Erase(sector) /\ sector' = sector + 1
        /\ pc' = IF sector = TagSector THEN "Chunk" ELSE "Erase"
        /\ UNCHANGED <<stay, lock, size, received, addr, chunk, hostCrc, image, result>>
        /\ sector \in 0 .. TagSector /\ size > 0 /\ received = 0 /\ addr = 0
        /\ chunk = <<>> /\ image = ErasedSlot
    BY <1>1, <1>3, Geometry DEF EraseNext, EraseInv, TypeOK, TagSector
  <2>2. /\ (sector + 1) * SectorWords = sector * SectorWords + SectorWords
        /\ sector * SectorWords \in Nat
    BY <2>1, Geometry, MulNext DEF TagSector
  <2>3. \A w \in FlashWord : w < (sector + 1) * SectorWords => writes'[w] = 0
    BY <1>1, <2>1, <2>2, Geometry DEF Erase, EraseInv, WordsOf, FlashWord
  <2>4. \A w \in SlotWord : w < (sector + 1) * SectorWords => slot'[w] = Erased
    BY <1>1, <2>1, <2>2, Geometry DEF Erase, EraseInv, WordsOf, FlashWord, SlotWord
  <2>5. TypeOK'
    <3>1. slot' \in Contents /\ tag' \in CrcValue /\ writes' \in [FlashWord -> Nat]
      BY <1>1, <2>1, EraseType
    <3>2. sector' \in 0 .. TagSector + 1 /\ pc' \in Control
      BY <2>1, Geometry DEF Control, InSession, Reading, TagSector
    <3> QED
      BY <1>1, <2>1, <3>1, <3>2 DEF TypeOK
  <2>6. WriteOnce'
    BY <1>1, <2>1, EraseType
  <2>7. CASE sector # TagSector
    <3>1. EraseInv'
      BY <2>1, <2>3, <2>4, <2>7, Geometry DEF EraseInv, TagSector
    <3> QED
      BY <1>1, <2>1, <2>5, <2>6, <2>7, <3>1
      DEF IInv, StartInv, WriteInv, LoopInv, SealInv, ResultInv, Writing,
          LockedOutsideWriting, RunsValidImage, AcceptedIsDelivered, InSession, Reading
  <2>8. CASE sector = TagSector
    <3>1. /\ pc' = "Chunk" /\ tag' = NoTag /\ addr' = 0 /\ chunk' = <<>> /\ image' = ErasedSlot
      BY <2>1, <2>8 DEF Erase
    <3>2. sector * SectorWords = SlotWords
      BY <2>8 DEF SlotWords, TagSector
    <3>3. /\ \A w \in FlashWord : writes'[w] = 0
          /\ \A w \in SlotWord : slot'[w] = Erased
      BY <2>2, <2>3, <2>4, <3>2, Geometry DEF FlashWord, SlotWord
    <3>4. WriteInv'
      BY <3>1, <3>3, Geometry DEF WriteInv, Writing, ErasedSlot, SlotWord
    <3>5. LoopInv'
      BY <2>1, <3>1, Geometry DEF LoopInv
    <3> QED
      BY <1>1, <2>1, <2>5, <2>6, <3>1, <3>4, <3>5
      DEF IInv, StartInv, EraseInv, SealInv, ResultInv,
          LockedOutsideWriting, RunsValidImage, AcceptedIsDelivered, InSession, Reading
  <2> QED
    BY <2>7, <2>8
<1> QED
  BY <1>2, <1>3 DEF EraseNext

(* The words of the next chunk fit in the slot, and a full chunk fills      *)
(* whole words.                                                             *)
LEMMA ChunkArith ==
  ASSUME TypeOK, LoopInv, pc = "Chunk", NEW p, p = Padded(ChunkLen)
  PROVE  /\ ChunkLen \in 1 .. ChunkBytes
         /\ p \in Nat \ {0}
         /\ addr + p <= SlotWords
         /\ ChunkLen = ChunkBytes => received + ChunkBytes = (addr + p) * WordBytes
<1>1. /\ size \in Nat /\ received \in Nat /\ addr \in Nat /\ size <= SlotBytes
      /\ received < size /\ received = addr * WordBytes
      /\ SlotBytes = SlotWords * WordBytes /\ ChunkBytes = ChunkWords * WordBytes
  BY Geometry DEF TypeOK, LoopInv, SlotBytes, ChunkBytes
<1>2. ChunkLen \in 1 .. ChunkBytes /\ received + ChunkLen <= SlotBytes
  BY <1>1, Geometry DEF ChunkLen
<1>3. /\ p \in Nat
      /\ p * WordBytes <= ChunkLen + WordBytes - 1
      /\ ChunkLen + WordBytes - 1 < p * WordBytes + WordBytes
  BY <1>2, Geometry, DivBounds DEF Padded
<1>4. p # 0
  BY <1>2, <1>3, Geometry
<1>5. addr + p <= SlotWords
  <2>1. (addr + (p - 1)) * WordBytes = addr * WordBytes + (p - 1) * WordBytes
    BY <1>1, <1>3, Geometry, MulSum
  <2>2. p * WordBytes = (p - 1) * WordBytes + WordBytes
    BY <1>3, Geometry, MulNext
  <2>3. /\ (p - 1) * WordBytes \in Int /\ addr * WordBytes \in Int /\ SlotWords * WordBytes \in Int
    BY <1>1, <1>3, Geometry
  <2>4. (addr + (p - 1)) * WordBytes < SlotWords * WordBytes
    BY <1>1, <1>2, <1>3, <2>1, <2>2, <2>3, Geometry
  <2>5. addr + (p - 1) < SlotWords
    BY <1>1, <1>3, <2>4, Geometry, MulLess
  <2> QED
    BY <1>1, <1>3, <2>5, Geometry
<1>6. ASSUME ChunkLen = ChunkBytes PROVE received + ChunkBytes = (addr + p) * WordBytes
  <2>1. (p - 1) * WordBytes < ChunkWords * WordBytes /\ ChunkWords * WordBytes < (p + 1) * WordBytes
    BY <1>1, <1>3, <1>6, Geometry, MulNext
  <2>2. p - 1 < ChunkWords /\ ChunkWords < p + 1
    BY <1>3, <2>1, Geometry, MulLess
  <2>3. p = ChunkWords
    BY <1>3, <2>2, Geometry
  <2> QED
    BY <1>1, <2>3, Geometry, MulSum
<1> QED
  BY <1>2, <1>3, <1>4, <1>5, <1>6

(* A chunk from the host keeps the invariant. *)
LEMMA ChunkInv ==
  ASSUME NEW data \in [1 .. Padded(ChunkLen) -> Word]
  PROVE  IInv /\ ReceiveChunk(data) => IInv'
<1> SUFFICES ASSUME IInv, ReceiveChunk(data) PROVE IInv'
  OBVIOUS
<1>1. /\ TypeOK /\ LoopInv /\ WriteInv /\ pc = "Chunk" /\ pc' = "Program" /\ chunk' = data
      /\ UNCHANGED <<flash, stay, lock, size, received, addr, sector, hostCrc, result>>
      /\ chunk = <<>> /\ addr \in Nat
  BY Geometry DEF ReceiveChunk, IInv, WriteInv, Writing, TypeOK
<1>2. /\ Padded(ChunkLen) \in Nat \ {0}
      /\ addr + Padded(ChunkLen) <= SlotWords
      /\ ChunkLen = ChunkBytes => received + ChunkBytes = (addr + Padded(ChunkLen)) * WordBytes
  BY <1>1, ChunkArith
<1>3. data \in Seq(Word) /\ Len(data) = Padded(ChunkLen) /\ data # <<>>
  <2>1. data \in Seq(Word)
    BY <1>2, SeqDef
  <2> QED
    BY <1>2, <2>1, LenProperties
<1>4. image' = [w \in SlotWord |-> IF w - addr + 1 \in 1 .. Len(data)
                                     THEN data[w - addr + 1] ELSE image[w]]
  BY DEF ReceiveChunk
<1>5. image' \in Contents
  BY <1>1, <1>3, <1>4, Geometry DEF TypeOK, Contents, SlotWord
<1>6. TypeOK'
  <2>1. pc' \in Control
    BY <1>1 DEF Control, InSession
  <2> QED
    BY <1>1, <1>3, <1>5, <2>1 DEF TypeOK, flash
<1>7. WriteInv'
  <2>1. /\ \A w \in SlotWord : w < addr => image'[w] = image[w]
        /\ \A w \in SlotWord : w >= addr + Len(data) => image'[w] = image[w]
    BY <1>1, <1>2, <1>3, <1>4, Geometry DEF SlotWord
  <2>2. \A i \in 1 .. Len(data) : addr + i - 1 \in SlotWord => image'[addr + i - 1] = data[i]
    BY <1>1, <1>2, <1>3, <1>4, Geometry DEF SlotWord
  <2>3. /\ tag' = tag /\ writes' = writes /\ slot' = slot /\ addr' = addr
    BY <1>1 DEF flash
  <2>4. Len(chunk) = 0
    BY <1>1
  <2> QED
    BY <1>1, <1>2, <1>3, <2>1, <2>2, <2>3, <2>4, Geometry
    DEF WriteInv, Writing, FlashWord, SlotWord
<1>8. LoopInv'
  <2>1. ChunkLen' = ChunkLen
    BY <1>1 DEF ChunkLen
  <2> QED
    BY <1>1, <1>2, <1>3, <2>1 DEF LoopInv
<1>9. LockedOutsideWriting'
  BY <1>1 DEF IInv, LockedOutsideWriting, InSession, Reading
<1> QED
  BY <1>1, <1>6, <1>7, <1>8, <1>9
  DEF IInv, flash, StartInv, EraseInv, SealInv, ResultInv, WriteOnce,
      RunsValidImage, AcceptedIsDelivered, InSession, Reading

(* One BL_ProgramFlashWord keeps the invariant. *)
LEMMA ProgramNextInv == IInv /\ ProgramNext => IInv'
<1> SUFFICES ASSUME IInv, ProgramNext PROVE IInv'
  OBVIOUS
<1>1. /\ TypeOK /\ WriteOnce /\ WriteInv /\ LoopInv /\ pc = "Program"
      /\ chunk \in Seq(Word) /\ chunk # <<>> /\ addr \in Nat
      /\ addr + Len(chunk) <= SlotWords
  BY Geometry DEF ProgramNext, IInv, LoopInv, TypeOK
<1>2. /\ Len(chunk) \in Nat \ {0} /\ Head(chunk) = chunk[1] /\ Head(chunk) \in Word
      /\ Tail(chunk) \in Seq(Word) /\ Len(Tail(chunk)) = Len(chunk) - 1
      /\ \A i \in 1 .. Len(chunk) - 1 : Tail(chunk)[i] = chunk[i + 1]
  BY <1>1, HeadTailProperties, LenProperties
<1>3. addr \in SlotWord /\ addr \in FlashWord /\ addr # TagWord /\ writes[addr] = 0
  BY <1>1, <1>2, Geometry DEF WriteInv, Writing, SlotWord, FlashWord, TagWord
<1>4. CASE (\E v \in Word : Program(addr, v)) /\ Abort("FLASH")
  BY <1>1, <1>3, <1>4, ProgramType, AbortInv DEF Failures
<1>5. CASE ~((\E v \in Word : Program(addr, v)) /\ Abort("FLASH"))
  <2>1. /\ Program(addr, Head(chunk))
        /\ addr' = addr + 1
        /\ chunk' = Tail(chunk)
        /\ IF Len(chunk) > 1
             THEN UNCHANGED <<received, pc>>
             ELSE /\ received' = received + ChunkLen
                  /\ pc' = IF received' < size THEN "Chunk" ELSE "Crc"
        /\ UNCHANGED <<stay, lock, size, sector, hostCrc, image, result>>
    BY <1>5 DEF ProgramNext
  <2>2. slot' \in Contents /\ tag' \in CrcValue /\ writes' \in [FlashWord -> Nat] /\ WriteOnce'
    BY <1>1, <1>2, <1>3, <2>1, ProgramType
  <2>3. /\ slot' = [slot EXCEPT ![addr] = chunk[1]] /\ tag' = tag
        /\ writes' = [writes EXCEPT ![addr] = 1]
    BY <1>2, <1>3, <2>1 DEF Program
  <2>4. pc' \in {"Program", "Chunk", "Crc"} /\ (pc' = "Program" <=> Len(chunk) > 1)
    BY <1>1, <2>1
  <2>5. /\ size \in Nat /\ received \in Nat /\ received < size /\ size <= SlotBytes
        /\ ChunkLen \in 1 .. ChunkBytes /\ received + ChunkLen <= size
        /\ ChunkLen < ChunkBytes => received + ChunkLen = size
    BY <1>1, Geometry DEF TypeOK, LoopInv, ChunkLen
  <2>6. TypeOK'
    <3>1. pc' \in Control
      BY <2>4 DEF Control, InSession, Reading
    <3>2. received' \in 0 .. SlotBytes
      BY <1>1, <2>1, <2>5, Geometry DEF TypeOK
    <3>3. addr' \in 0 .. SlotWords
      BY <1>1, <1>2, <2>1, Geometry
    <3> QED
      BY <1>1, <1>2, <2>1, <2>2, <3>1, <3>2, <3>3 DEF TypeOK
  <2>7. WriteInv'
    <3>1. tag' = NoTag
      BY <1>1, <2>3 DEF WriteInv, Writing
    <3>2. \A w \in FlashWord : w >= addr' => writes'[w] = 0
      BY <1>1, <2>1, <2>3, Geometry DEF WriteInv, Writing, TypeOK, FlashWord
    <3>3. image[addr] = chunk[1]
      BY <1>1, <1>2, <1>3, Geometry DEF WriteInv, Writing
    <3>4. \A w \in SlotWord : w < addr' => slot'[w] = image'[w]
      BY <1>1, <1>3, <2>1, <2>3, <3>3, Geometry DEF WriteInv, Writing, TypeOK, Contents, SlotWord
    <3>5. \A w \in SlotWord : w >= addr' => slot'[w] = Erased
      BY <1>1, <1>3, <2>1, <2>3, Geometry DEF WriteInv, Writing, TypeOK, Contents, SlotWord
    <3>6. \A w \in SlotWord : w >= addr' + Len(chunk') => image'[w] = Erased
      BY <1>1, <1>2, <2>1, Geometry DEF WriteInv, Writing, SlotWord
    <3>7. \A i \in 1 .. Len(chunk') : addr' + i - 1 \in SlotWord => image'[addr' + i - 1] = chunk'[i]
      <4> SUFFICES ASSUME NEW i \in 1 .. Len(chunk) - 1, addr + i \in SlotWord
                   PROVE  image[addr + i] = chunk[i + 1]
        BY <1>1, <1>2, <2>1, Geometry
      <4>1. i + 1 \in 1 .. Len(chunk) /\ addr + (i + 1) - 1 = addr + i
        BY <1>1, <1>2
      <4> QED
        BY <1>1, <4>1 DEF WriteInv, Writing
    <3>8. pc' # "Program" => chunk' = <<>>
      BY <1>2, <2>1, <2>4, EmptySeq
    <3> QED
      BY <3>1, <3>2, <3>4, <3>5, <3>6, <3>7, <3>8 DEF WriteInv
  <2>8. LoopInv'
    <3>1. CASE Len(chunk) > 1
      <4>1. /\ pc' = "Program" /\ received' = received /\ size' = size
            /\ Len(chunk') = Len(chunk) - 1 /\ chunk' # <<>> /\ ChunkLen' = ChunkLen
            /\ addr' + Len(chunk') = addr + Len(chunk)
        BY <1>1, <1>2, <2>1, <3>1 DEF ChunkLen
      <4> QED
        BY <1>1, <2>5, <4>1 DEF LoopInv
    <3>2. CASE Len(chunk) = 1
      <4>1. received' = received + ChunkLen /\ size' = size /\ addr' = addr + 1
            /\ pc' = IF received' < size THEN "Chunk" ELSE "Crc"
        BY <2>1, <3>2
      <4>2. ASSUME pc' = "Chunk" PROVE received' < size' /\ received' = addr' * WordBytes
        <5>1. ChunkLen = ChunkBytes
          BY <2>5, <4>1, <4>2, Geometry
        <5> QED
          BY <1>1, <3>2, <4>1, <4>2, <5>1 DEF LoopInv
      <4> QED
        BY <4>1, <4>2 DEF LoopInv
    <3> QED
      BY <1>2, <3>1, <3>2
  <2>9. LockedOutsideWriting'
    BY <1>1, <2>1, <2>4 DEF IInv, LockedOutsideWriting, InSession, Reading
  <2> QED
    BY <1>1, <2>1, <2>2, <2>4, <2>6, <2>7, <2>8, <2>9
    DEF IInv, StartInv, EraseInv, SealInv, ResultInv,
        RunsValidImage, AcceptedIsDelivered, InSession, Reading
<1> QED
  BY <1>4, <1>5

(* The CRC step keeps the invariant; a slot to be sealed matches it. *)
LEMMA CrcInv == ASSUME NEW c \in CrcValue PROVE IInv /\ ReceiveCrc(c) => IInv'
<1> SUFFICES ASSUME IInv, ReceiveCrc(c) PROVE IInv'
  OBVIOUS
<1>1. CASE Abort("CRC")
  BY <1>1, AbortInv DEF ReceiveCrc, Failures, flash, IInv, TypeOK, WriteOnce
<1>2. CASE ~Abort("CRC")
  <2>1. /\ pc = "Crc" /\ pc' = "Seal" /\ hostCrc' = c /\ Crc(slot) = c /\ UNCHANGED flash
        /\ UNCHANGED <<stay, lock, size, received, addr, sector, chunk, image, result>>
    BY <1>2 DEF ReceiveCrc
  <2>2. TypeOK'
    <3>1. pc' \in Control
      BY <2>1 DEF Control, InSession
    <3> QED
      BY <2>1, <3>1 DEF IInv, TypeOK, flash
  <2>3. LockedOutsideWriting'
    BY <2>1 DEF IInv, LockedOutsideWriting, InSession, Reading
  <2> QED
    BY <2>1, <2>2, <2>3
    DEF IInv, flash, StartInv, EraseInv, WriteInv, LoopInv, SealInv, ResultInv, Writing,
        WriteOnce, RunsValidImage, AcceptedIsDelivered, InSession, Reading
<1> QED
  BY <1>1, <1>2

(* The seal keeps the invariant; success means delivered. *)
LEMMA SealStepInv == IInv /\ Seal => IInv'
<1> SUFFICES ASSUME IInv, Seal PROVE IInv'
  OBVIOUS
<1>1. /\ TypeOK /\ WriteOnce /\ TagWord \in FlashWord /\ addr \in 0 .. SlotWords
      /\ pc = "Seal" /\ chunk = <<>> /\ hostCrc = Crc(slot) /\ hostCrc \in CrcValue
  BY Geometry DEF Seal, IInv, WriteInv, SealInv, Writing, TypeOK, TagWord, FlashWord
<1>2. writes[TagWord] = 0
  BY <1>1 DEF IInv, WriteInv, Writing, TagWord
<1>3. CASE \E v \in CrcValue : Program(TagWord, v) /\ Abort("FLASH")
  <2>1. PICK v \in CrcValue : Program(TagWord, v) /\ Abort("FLASH")
    BY <1>3
  <2> QED
    BY <1>1, <1>2, <2>1, ProgramType, AbortInv DEF Failures
<1>4. CASE Program(TagWord, hostCrc) /\ Return("OK") /\ lock' = TRUE /\ UNCHANGED image
  <2>1. slot' \in Contents /\ tag' \in CrcValue /\ writes' \in [FlashWord -> Nat] /\ WriteOnce'
    BY <1>1, <1>2, <1>4, ProgramType
  <2>2. slot' = slot /\ tag' = hostCrc
    BY <1>4 DEF Program
  <2>3. slot = image
    <3>1. \A w \in SlotWord : slot[w] = image[w]
      BY <1>1, Geometry DEF IInv, WriteInv, Writing, SlotWord
    <3> QED
      BY <1>1, <3>1 DEF TypeOK, Contents
  <2>4. TypeOK'
    BY <1>1, <1>4, <2>1, Geometry, DataAssumption
    DEF Return, ClearSession, TypeOK, Control, TagSector
  <2>5. AcceptedIsDelivered'
    BY <1>1, <1>4, <2>2, <2>3 DEF AcceptedIsDelivered
  <2> QED
    BY <1>4, <2>1, <2>4, <2>5
    DEF Return, IInv, StartInv, EraseInv, WriteInv, LoopInv, SealInv, ResultInv,
        LockedOutsideWriting, RunsValidImage, InSession, Reading, Writing
<1> QED
  BY <1>3, <1>4 DEF Seal

(* A reset or power cut keeps the invariant. *)
LEMMA ResetInv == IInv /\ Reset => IInv'
<1> SUFFICES ASSUME IInv, Reset PROVE IInv'
  OBVIOUS
<1>1. TypeOK /\ WriteOnce
  BY DEF IInv
<1>2. slot' \in Contents /\ tag' \in CrcValue /\ writes' \in [FlashWord -> Nat] /\ WriteOnce'
  <2>1. CASE UNCHANGED flash
    BY <1>1, <2>1 DEF flash, TypeOK, WriteOnce
  <2>2. CASE TornErase(sector)
    BY <1>1, <2>2, TornEraseType
  <2>3. CASE pc = "Program" /\ \E v \in Word : Program(addr, v)
    <3>1. addr \in SlotWord /\ addr \in FlashWord /\ addr # TagWord /\ writes[addr] = 0
      BY <2>3, Geometry
      DEF IInv, TypeOK, LoopInv, WriteInv, Writing, SlotWord, FlashWord, TagWord
    <3> QED
      BY <1>1, <2>3, <3>1, ProgramType
  <2>4. CASE pc = "Seal" /\ \E v \in CrcValue : Program(TagWord, v)
    <3>1. TagWord \in FlashWord /\ writes[TagWord] = 0
      BY <2>4, Geometry DEF IInv, TypeOK, WriteInv, Writing, FlashWord, TagWord
    <3> QED
      BY <1>1, <2>4, <3>1, ProgramType
  <2> QED
    BY <2>1, <2>2, <2>3, <2>4 DEF Reset
<1> QED
  BY <1>2, LeaveInv DEF Reset

(* Every step keeps the invariant. *)
LEMMA NextInv == IInv /\ [Next]_vars => IInv'
<1> SUFFICES ASSUME IInv, [Next]_vars PROVE IInv'
  OBVIOUS
<1>1. CASE BoardStep
  BY <1>1, BootInv, EraseNextInv, ProgramNextInv, SealStepInv, TimeoutInv, VerifyInv
  DEF BoardStep
<1>2. CASE HostInput
  BY <1>2, DataAssumption, SizeInv, ChunkInv, CrcInv DEF HostInput
<1>3. CASE UpdateRequested \/ ButtonPressed \/ WindowExpires \/ Reset
  BY <1>3, RequestInv, WindowInv, ResetInv
<1>4. CASE UNCHANGED vars
  BY <1>4, StutterInv
<1> QED
  BY <1>1, <1>2, <1>3, <1>4 DEF Next

----------------------------------------------------------------------------
(* Theorems *)

(* The strengthened invariant of BL_ReceiveImage and main's loop holds in   *)
(* every reachable state: the facts below follow from it.                   *)
THEOREM Inductive == Spec => []IInv
<1>1. Init => IInv
  BY InitInv
<1>2. IInv /\ [Next]_vars => IInv'
  BY NextInv
<1> QED
  BY <1>1, <1>2, PTL DEF Spec

(* Every variable of the bootloader keeps its type, for every geometry,     *)
(* checksum and host. *)
THEOREM TypeCorrect == Spec => []TypeOK
<1>1. IInv => TypeOK
  BY DEF IInv
<1> QED
  BY <1>1, Inductive, PTL

(* BL_VerifyActiveSlot guards the only way to an application: what runs is  *)
(* sealed, intact and bootable, through any updates and power cuts.         *)
THEOREM OnlyValidImagesRun == Spec => []RunsValidImage
<1>1. IInv => RunsValidImage
  BY DEF IInv
<1> QED
  BY <1>1, Inductive, PTL

(* BL_ProgramFlashWord writes each flash word at most once per erase, the   *)
(* ECC rule of bootloader.c:96, across sessions, failures and power cuts.   *)
THEOREM WordsWrittenOnce == Spec => []WriteOnce
<1>1. IInv => WriteOnce
  BY DEF IInv
<1> QED
  BY <1>1, Inductive, PTL

(* No chunk of BL_ReceiveImage, padding included, reaches past the slot.    *)
THEOREM ChunksFitSlot == Spec => []ChunkFits
<1>1. IInv => ChunkFits
  BY DEF IInv, LoopInv, ChunkFits
<1> QED
  BY <1>1, Inductive, PTL

(* From the end of the erase to the seal there is no tag to boot from.      *)
THEOREM OpenSlotUnsealed == Spec => []UnsealedUntilSeal
<1>1. IInv => UnsealedUntilSeal
  BY DEF IInv, WriteInv, Writing, UnsealedUntilSeal
<1> QED
  BY <1>1, Inductive, PTL

(* An update answered OK left in the slot exactly what the host sent.       *)
THEOREM AcceptedImageDelivered == Spec => []AcceptedIsDelivered
<1>1. IInv => AcceptedIsDelivered
  BY DEF IInv
<1> QED
  BY <1>1, Inductive, PTL

(* FLASH_Lock is reached on every way out of the writing part.              *)
THEOREM LockedOutside == Spec => []LockedOutsideWriting
<1>1. IInv => LockedOutsideWriting
  BY DEF IInv
<1> QED
  BY <1>1, Inductive, PTL

(* No step of the bootloader changes a locked flash. *)
LEMMA LockedStep == IInv /\ [Next]_vars => (lock => UNCHANGED <<slot, tag, writes>>)
<1> SUFFICES ASSUME IInv, [Next]_vars, lock PROVE UNCHANGED flash
  BY DEF flash
<1>1. pc \notin {"Erase", "Chunk", "Program", "Crc", "Seal"}
  BY DEF IInv, LockedOutsideWriting, InSession, Reading
<1>2. CASE BoardStep
  BY <1>1, <1>2
  DEF BoardStep, Boot, EraseNext, ProgramNext, Seal, ReadTimeout, Verify
<1>3. CASE HostInput
  BY <1>1, <1>3 DEF HostInput, ReceiveSize, ReceiveChunk, ReceiveCrc
<1>4. CASE UpdateRequested \/ ButtonPressed \/ WindowExpires \/ Reset
  BY <1>1, <1>4 DEF UpdateRequested, ButtonPressed, WindowExpires, Reset
<1>5. CASE UNCHANGED vars
  BY <1>5 DEF vars, flash
<1> QED
  BY <1>2, <1>3, <1>4, <1>5 DEF Next

(* Flash contents change only while BL_ReceiveImage has it unlocked: no     *)
(* other step, no power cut elsewhere and no running application does it.   *)
THEOREM LockedFlashKept == Spec => LockedIsImmutable
<1>1. IInv /\ [Next]_vars => [lock => UNCHANGED <<slot, tag, writes>>]_vars
  BY LockedStep
<1> QED
  BY <1>1, Inductive, PTL DEF Spec, LockedIsImmutable

----------------------------------------------------------------------------
(* The bootloader implements ActiveSlot *)

Phase    == IF pc = "App" THEN "running" ELSE IF lock THEN "closed" ELSE "open"
Answered == IF result = "OK" THEN "ok" ELSE IF result = "NONE" THEN "none" ELSE "failed"

(* Initial states map to initial states. *)
LEMMA PromiseInit == Init => Promise!Init
  BY DEF Init, Promise!Init

(* Every step maps to a step of ActiveSlot or to a stutter. *)
LEMMA PromiseStep == IInv /\ IInv' /\ [Next]_vars => [Promise!Next]_(Promise!slotVars)
<1> SUFFICES ASSUME IInv, IInv', [Next]_vars
             PROVE  Promise!Next \/ UNCHANGED <<slot, tag, Phase, Answered>>
  BY DEF Phase, Answered, Promise!slotVars
<1>1. /\ slot' \in Contents /\ tag' \in CrcValue
      /\ lock \in BOOLEAN /\ lock' \in BOOLEAN
      /\ ~lock <=> pc \in {"Erase", "Chunk", "Program", "Crc", "Seal"}
      /\ ~lock' <=> pc' \in {"Erase", "Chunk", "Program", "Crc", "Seal"}
      /\ lock => UNCHANGED <<slot, tag>>
  BY LockedStep DEF IInv, TypeOK, LockedOutsideWriting, InSession, Reading
<1>2. ASSUME pc # "App", NEW st \in Failures, Reject(st) \/ Abort(st)
      PROVE  Promise!Refuse
  BY <1>1, <1>2 DEF Reject, Abort, Return, Failures, Promise!Refuse
<1>3. ASSUME pc \in InSession, pc' \in InSession \ {"Size"}, result' = result
      PROVE  \/ lock /\ Promise!Open
             \/ ~lock /\ Promise!Write
  BY <1>1, <1>3 DEF InSession, Reading, Promise!Open, Promise!Write
<1>4. ASSUME pc \notin {"App"}, pc' # "App", UNCHANGED <<slot, tag, lock, result>>
      PROVE  UNCHANGED <<slot, tag, Phase, Answered>>
  BY <1>4 DEF Phase, Answered
<1>5. CASE Boot \/ ButtonPressed \/ WindowExpires
  BY <1>4, <1>5 DEF Boot, ButtonPressed, WindowExpires, flash
<1>6. CASE UpdateRequested
  <2>1. Promise!Request
    BY <1>1, <1>6 DEF UpdateRequested, flash, Promise!Request
  <2> QED
    BY <2>1 DEF Promise!Next
<1>7. CASE EraseNext \/ ProgramNext
  <2>1. pc \in {"Erase", "Program"}
    BY <1>7 DEF EraseNext, ProgramNext
  <2>2. CASE Abort("FLASH")
    BY <1>2, <2>1, <2>2 DEF Failures, Promise!Next
  <2>3. CASE ~Abort("FLASH")
    <3>1. pc' \in {"Erase", "Chunk", "Program", "Crc"} /\ result' = result
      BY <1>7, <2>3 DEF EraseNext, ProgramNext
    <3> QED
      BY <1>3, <2>1, <3>1 DEF InSession, Reading, Promise!Next
  <2> QED
    BY <2>2, <2>3
<1>8. CASE Seal
  <2>1. CASE Abort("FLASH")
    BY <1>2, <1>8, <2>1 DEF Seal, Failures, Promise!Next
  <2>2. CASE Program(TagWord, hostCrc) /\ Return("OK") /\ lock' = TRUE
    <3>1. hostCrc = Crc(slot)
      BY <1>8 DEF Seal, IInv, SealInv
    <3>2. Promise!Accept
      BY <1>1, <1>8, <2>2, <3>1 DEF Seal, Program, Return, Promise!Accept
    <3> QED
      BY <3>2 DEF Promise!Next
  <2> QED
    BY <1>8, <2>1, <2>2 DEF Seal
<1>9. CASE ReadTimeout
  BY <1>2, <1>9 DEF ReadTimeout, Failures, Promise!Next
<1>10. CASE Verify
  <2>1. CASE Valid /\ pc' = "App"
    <3>1. Promise!Start
      BY <1>1, <1>10, <2>1
      DEF Verify, Valid, flash, Promise!Start, Promise!Startable
    <3> QED
      BY <3>1 DEF Promise!Next
  <2>2. CASE pc' = "Wait"
    BY <1>4, <1>10, <2>2 DEF Verify, flash
  <2> QED
    BY <1>10, <2>1, <2>2 DEF Verify
<1>11. ASSUME NEW n \in Nat, ReceiveSize(n) PROVE Promise!Next
  <2>1. CASE Reject("SIZE") \/ Reject("FLASH")
    BY <1>2, <1>11, <2>1 DEF ReceiveSize, Failures, Promise!Next
  <2>2. CASE pc' = "Erase" /\ UNCHANGED result
    BY <1>3, <1>11, <2>2 DEF ReceiveSize, InSession, Reading, Promise!Next
  <2> QED
    BY <1>11, <2>1, <2>2 DEF ReceiveSize
<1>12. ASSUME NEW data, ReceiveChunk(data) PROVE UNCHANGED <<slot, tag, Phase, Answered>>
  BY <1>4, <1>12 DEF ReceiveChunk, flash
<1>13. ASSUME NEW c \in CrcValue, ReceiveCrc(c)
       PROVE  Promise!Next \/ UNCHANGED <<slot, tag, Phase, Answered>>
  <2>1. CASE Abort("CRC")
    BY <1>2, <1>13, <2>1 DEF ReceiveCrc, Failures, Promise!Next
  <2>2. CASE ~Abort("CRC")
    BY <1>4, <1>13, <2>2 DEF ReceiveCrc, flash
  <2> QED
    BY <2>1, <2>2
<1>14. CASE Reset
  BY <1>1, <1>14 DEF Reset, Promise!Next, Promise!Reset
<1>15. CASE UNCHANGED vars
  BY <1>15 DEF vars, Phase, Answered
<1>16. CASE HostInput
  BY <1>11, <1>12, <1>13, <1>16, DataAssumption DEF HostInput
<1> QED
  BY <1>5, <1>6, <1>7, <1>8, <1>9, <1>10, <1>14, <1>15, <1>16 DEF Next, BoardStep

(* Every behaviour of the bootloader is one ActiveSlot allows. *)
THEOREM Refinement == Spec => KeepsPromise
<1>1. Init => Promise!Init
  BY PromiseInit
<1>2. IInv /\ IInv' /\ [Next]_vars => [Promise!Next]_(Promise!slotVars)
  BY PromiseStep
<1> QED
  BY <1>1, <1>2, Inductive, PTL DEF Spec, KeepsPromise, Promise!Spec
=============================================================================
