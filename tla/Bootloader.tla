------------------------------ MODULE Bootloader ------------------------------
(***************************************************************************)
(* The resident bootloader (Projects/Bootloader/src): the main loop, the   *)
(* update session BL_ReceiveImage runs on one link, the check of the       *)
(* active slot and the hand-over to the application, over a flash memory   *)
(* that keeps its contents through a power cut at any step.                *)
(*                                                                         *)
(* Time, the links and the wait window are abstracted to their outcomes    *)
(* (a request, a button press, the end of the window, a byte timeout).     *)
(* Addresses count flash words (BL_FLASH_WORD_SIZE bytes) from the start   *)
(* of the active slot; the tag word is the first word after the slot.      *)
(***************************************************************************)
EXTENDS Integers, Sequences

CONSTANTS
  SlotSectors,  \* sectors of the active slot; the tag sector follows them
  SectorWords,  \* flash words in a sector
  WordBytes,    \* bytes in a flash word
  ChunkWords,   \* flash words in a full data chunk
  Word,         \* what a flash word can hold
  Erased,       \* the word an erase leaves (every byte 0xFF)
  Bootable,     \* first words whose stack pointer and reset vector are sane
  CrcValue,     \* values of the tag word and of a CRC-32
  NoTag,        \* BL_TAG_BLANK
  Crc(_),       \* CRC-32 of the whole slot
  SizeInput     \* image sizes a host announces

SlotWords  == SlotSectors * SectorWords
SlotBytes  == SlotWords * WordBytes
ChunkBytes == ChunkWords * WordBytes
SlotWord   == 0 .. SlotWords - 1
TagWord    == SlotWords
TagSector  == SlotSectors
FlashWord  == 0 .. SlotWords
Contents   == [SlotWord -> Word]
ErasedSlot == [w \in SlotWord |-> Erased]

ASSUME GeometryAssumption ==
  /\ SlotSectors \in Nat \ {0}
  /\ SectorWords \in Nat \ {0}
  /\ WordBytes   \in Nat \ {0}
  /\ ChunkWords  \in Nat \ {0}

ASSUME DataAssumption ==
  /\ Erased \in Word
  /\ Bootable \subseteq Word \ {Erased}
  /\ NoTag \in CrcValue
  /\ SizeInput \subseteq Nat
  /\ \A s \in Contents : Crc(s) \in CrcValue

VARIABLES
  slot,      \* contents of the active slot (sectors 8-29)
  tag,       \* the CRC word of sector 30
  writes,    \* history: programmings of a flash word since its sector's erase
  pc,        \* where the main loop is
  stay,      \* main's flag: no auto-boot until an update arrives
  lock,      \* FLASH_CR.LOCK
  size,      \* image_size of the session
  received,  \* bytes programmed and acknowledged
  addr,      \* next flash word to program
  sector,    \* next sector to erase
  chunk,     \* words of the chunk still to program
  hostCrc,   \* the CRC the host sent
  image,     \* history: the padded image delivered so far in the session
  result     \* what the last session returned ("NONE": no session ended)

flash   == <<slot, tag, writes>>
session == <<size, received, addr, sector, chunk, hostCrc>>
vars    == <<slot, tag, writes, pc, stay, lock, size, received, addr, sector,
             chunk, hostCrc, image, result>>

Failures == {"TIMEOUT", "SIZE", "FLASH", "CRC"}

(* The control points of a session, BL_ReceiveImage: it reads the size,     *)
(* erases, reads and programs chunks, reads the CRC and seals.              *)
Reading   == {"Size", "Chunk", "Crc"}
InSession == Reading \cup {"Erase", "Program", "Seal"}
Control   == InSession \cup {"Reset", "Wait", "Verify", "App"}

----------------------------------------------------------------------------
(* Flash *)

WordsOf(s) ==
  {w \in FlashWord : s * SectorWords <= w /\ w < (s + 1) * SectorWords}

(* Sector s ends up erased. *)
Erase(s) ==
  /\ slot'   = [w \in SlotWord |-> IF w \in WordsOf(s) THEN Erased ELSE slot[w]]
  /\ tag'    = IF s = TagSector THEN NoTag ELSE tag
  /\ writes' = [w \in FlashWord |-> IF w \in WordsOf(s) THEN 0 ELSE writes[w]]

(* An erase of sector s that failed or lost power: its words hold anything. *)
TornErase(s) ==
  /\ \E junk \in [WordsOf(s) \cap SlotWord -> Word] :
       slot' = [w \in SlotWord |-> IF w \in WordsOf(s) THEN junk[w] ELSE slot[w]]
  /\ IF s = TagSector THEN tag' \in CrcValue ELSE UNCHANGED tag
  /\ UNCHANGED writes

(* The programming of word w reached the array and left v in it; v is what  *)
(* was written, or anything else if the operation failed or lost power.     *)
Program(w, v) ==
  /\ IF w = TagWord
       THEN tag' = v /\ UNCHANGED slot
       ELSE slot' = [slot EXCEPT ![w] = v] /\ UNCHANGED tag
  /\ writes' = [writes EXCEPT ![w] = @ + 1]

----------------------------------------------------------------------------
(* Reset and the wait window *)

ClearSession ==
  /\ size' = 0 /\ received' = 0 /\ addr' = 0 /\ sector' = 0
  /\ chunk' = <<>> /\ hostCrc' = NoTag

(* main up to its loop: B1 is sampled once, then READY is announced.       *)
Boot ==
  /\ pc = "Reset"
  /\ pc' = "Wait"
  /\ stay' \in BOOLEAN
  /\ UNCHANGED <<flash, lock, session, image, result>>

(* 'u' on a link: the session starts, and the board acknowledges.          *)
UpdateRequested ==
  /\ pc = "Wait"
  /\ pc' = "Size"
  /\ result' = "NONE"
  /\ ClearSession
  /\ image' = ErasedSlot
  /\ UNCHANGED <<flash, stay, lock>>

(* B1 in the window cancels the auto-boot; the loop waits again, for ever.  *)
ButtonPressed ==
  /\ pc = "Wait"
  /\ ~stay
  /\ stay' = TRUE
  /\ UNCHANGED <<flash, pc, lock, session, image, result>>

(* The window closes with no request; a board that stays has no deadline.   *)
WindowExpires ==
  /\ pc = "Wait"
  /\ ~stay
  /\ pc' = "Verify"
  /\ UNCHANGED <<flash, stay, lock, session, image, result>>

----------------------------------------------------------------------------
(* BL_ReceiveImage *)

(* The session returns st.  Only its `fail:` label and its success path     *)
(* lock the flash again; a request refused before the unlock leaves the     *)
(* controller as it was.                                                    *)
Return(st) ==
  /\ pc' = "Verify"
  /\ result' = st
  /\ ClearSession
  /\ UNCHANGED stay

Reject(st) == Return(st) /\ image' = ErasedSlot /\ UNCHANGED lock

(* Mutant: the `fail:` label forgets FLASH_Lock. *)
AbortUnlocked(st) == Return(st) /\ image' = ErasedSlot /\ UNCHANGED lock

Abort(st)  == Return(st) /\ image' = ErasedSlot /\ lock' = TRUE

(* Mutant: the erase starts without FLASH_Unlock. *)
ReceiveSizeLocked(n) ==
  /\ pc = "Size"
  /\ n \in 1 .. SlotBytes
  /\ pc' = "Erase"
  /\ size' = n
  /\ UNCHANGED <<flash, stay, lock, received, addr, sector, chunk, hostCrc, image, result>>

ReceiveSize(n) ==
  /\ pc = "Size"
  /\ UNCHANGED flash
  /\ \/ (n = 0 \/ n > SlotBytes) /\ Reject("SIZE")
     \/ n \in 1 .. SlotBytes /\ Reject("FLASH")     \* FLASH_Unlock fails
     \/ /\ n \in 1 .. SlotBytes
        /\ lock' = FALSE
        /\ pc' = "Erase"
        /\ size' = n
        /\ UNCHANGED <<stay, received, addr, sector, chunk, hostCrc, image, result>>

(* Mutant: the loop stops before the tag sector (`<` for `<=`). *)
EraseSlotOnly ==
  /\ pc = "Erase"
  /\ Erase(sector)
  /\ sector' = sector + 1
  /\ pc' = IF sector + 1 = TagSector THEN "Chunk" ELSE "Erase"
  /\ UNCHANGED <<stay, lock, size, received, addr, chunk, hostCrc, image, result>>

(* One turn of BL_EraseActiveSlot's loop; the tag sector is the last.       *)
EraseNext ==
  /\ pc = "Erase"
  /\ \/ /\ Erase(sector)
        /\ sector' = sector + 1
        /\ pc' = IF sector = TagSector THEN "Chunk" ELSE "Erase"
        /\ UNCHANGED <<stay, lock, size, received, addr, chunk, hostCrc, image, result>>
     \/ TornErase(sector) /\ Abort("FLASH")

(* Bytes of the next chunk, and the flash words they fill once padded.      *)
ChunkLen    == IF size - received > ChunkBytes THEN ChunkBytes ELSE size - received
PaddedLong(len) == (len + WordBytes) \div WordBytes    \* mutant: rounds up once too often
Padded(len) == (len + WordBytes - 1) \div WordBytes

ReceiveChunk(data) ==
  /\ pc = "Chunk"
  /\ chunk' = data
  /\ image' = [w \in SlotWord |-> IF w - addr + 1 \in 1 .. Len(data)
                                    THEN data[w - addr + 1] ELSE image[w]]
  /\ pc' = "Program"
  /\ UNCHANGED <<flash, stay, lock, size, received, addr, sector, hostCrc, result>>

(* One call of BL_ProgramFlashWord; after the last word of the chunk the    *)
(* board acknowledges it.  The read-back finds any difference.              *)
ProgramNext ==
  /\ pc = "Program"
  /\ \/ /\ Program(addr, Head(chunk))
        /\ addr' = addr + 1
        /\ chunk' = Tail(chunk)
        /\ IF Len(chunk) > 1
             THEN UNCHANGED <<received, pc>>
             ELSE /\ received' = received + ChunkLen
                  /\ pc' = IF received' < size THEN "Chunk" ELSE "Crc"
        /\ UNCHANGED <<stay, lock, size, sector, hostCrc, image, result>>
     \/ (\E v \in Word : Program(addr, v)) /\ Abort("FLASH")

(* Mutant: the slot is sealed with the host's CRC, unchecked. *)
ReceiveCrcUnchecked(c) ==
  /\ pc = "Crc"
  /\ hostCrc' = c
  /\ pc' = "Seal"
  /\ UNCHANGED <<flash, stay, lock, size, received, addr, sector, chunk, image, result>>

ReceiveCrc(c) ==
  /\ pc = "Crc"
  /\ UNCHANGED flash
  /\ \/ Crc(slot) # c /\ Abort("CRC")
     \/ /\ Crc(slot) = c
        /\ hostCrc' = c
        /\ pc' = "Seal"
        /\ UNCHANGED <<stay, lock, size, received, addr, sector, chunk, image, result>>

(* Mutant: the tag word is not read back. *)
SealBlind ==
  /\ pc = "Seal"
  /\ \E v \in CrcValue : Program(TagWord, v)
  /\ Return("OK") /\ lock' = TRUE /\ UNCHANGED image

Seal ==
  /\ pc = "Seal"
  /\ \/ Program(TagWord, hostCrc) /\ Return("OK") /\ lock' = TRUE /\ UNCHANGED image
     \/ (\E v \in CrcValue : Program(TagWord, v)) /\ Abort("FLASH")

(* Mutant: the read of the CRC has no timeout. *)
ReadTimeoutButCrc ==
  /\ UNCHANGED flash
  /\ \/ pc = "Size" /\ Reject("TIMEOUT")
     \/ pc = "Chunk" /\ Abort("TIMEOUT")

(* A byte the session waits for does not come in BL_BYTE_TIMEOUT_MS.        *)
ReadTimeout ==
  /\ UNCHANGED flash
  /\ \/ pc = "Size" /\ Reject("TIMEOUT")
     \/ pc \in {"Chunk", "Crc"} /\ Abort("TIMEOUT")

----------------------------------------------------------------------------
(* The boot decision, and reset *)

Valid ==
  /\ tag # NoTag
  /\ Crc(slot) = tag
  /\ slot[0] \in Bootable

(* Mutant: a tag is enough, the CRC is not compared. *)
VerifyTagOnly ==
  /\ pc = "Verify"
  /\ \/ tag # NoTag /\ slot[0] \in Bootable /\ pc' = "App" /\ UNCHANGED stay
     \/ tag = NoTag /\ pc' = "Wait" /\ stay' = TRUE
  /\ UNCHANGED <<flash, lock, session, image, result>>

(* BL_VerifyActiveSlot, then BL_JumpToApplication or the wait without end.  *)
Verify ==
  /\ pc = "Verify"
  /\ \/ Valid /\ pc' = "App" /\ UNCHANGED stay
     \/ ~Valid /\ pc' = "Wait" /\ stay' = TRUE
  /\ UNCHANGED <<flash, lock, session, image, result>>

(* Reset or power cut, at any step; the flash operation under way is torn.  *)
Reset ==
  /\ pc # "Reset"
  /\ \/ UNCHANGED flash
     \/ pc = "Erase" /\ TornErase(sector)
     \/ pc = "Program" /\ \E v \in Word : Program(addr, v)
     \/ pc = "Seal" /\ \E v \in CrcValue : Program(TagWord, v)
  /\ pc' = "Reset"
  /\ lock' = TRUE
  /\ stay' = FALSE
  /\ result' = "NONE"
  /\ image' = ErasedSlot
  /\ ClearSession

----------------------------------------------------------------------------

(* Any contents and any tag: a blank part, an image sealed by the tools, an *)
(* image flashed without its tag, a tag left from another image.            *)
Init ==
  /\ slot \in Contents
  /\ tag \in CrcValue
  /\ writes = [w \in FlashWord |-> 1]
  /\ pc = "Reset"
  /\ stay = FALSE
  /\ lock = TRUE
  /\ size = 0 /\ received = 0 /\ addr = 0 /\ sector = 0
  /\ chunk = <<>> /\ hostCrc = NoTag
  /\ image = ErasedSlot
  /\ result = "NONE"

HostInput ==
  \/ \E n \in SizeInput : ReceiveSize(n)
  \/ \E data \in [1 .. Padded(ChunkLen) -> Word] : ReceiveChunk(data)
  \/ \E c \in CrcValue : ReceiveCrc(c)

(* What the board does without waiting for anyone.                          *)
BoardStep == Boot \/ EraseNext \/ ProgramNext \/ Seal \/ ReadTimeout \/ Verify

Next ==
  \/ BoardStep
  \/ HostInput
  \/ UpdateRequested
  \/ ButtonPressed
  \/ WindowExpires
  \/ Reset

Spec == Init /\ [][Next]_vars

(* The CPU runs, every byte wait times out and every flash operation ends   *)
(* (it does unless an option byte protects the sector, see FlashDriver); no *)
(* host ever has to send anything.                                          *)
FairSpec == Spec /\ WF_vars(BoardStep)

----------------------------------------------------------------------------
(* Properties *)

(* Every variable holds a value of its kind. *)
TypeOK ==
  /\ slot \in Contents
  /\ tag \in CrcValue
  /\ writes \in [FlashWord -> Nat]
  /\ pc \in Control
  /\ stay \in BOOLEAN
  /\ lock \in BOOLEAN
  /\ size \in 0 .. SlotBytes
  /\ received \in 0 .. SlotBytes
  /\ addr \in 0 .. SlotWords
  /\ sector \in 0 .. TagSector + 1
  /\ chunk \in Seq(Word)
  /\ hostCrc \in CrcValue
  /\ image \in Contents
  /\ result \in Failures \cup {"NONE", "OK"}

(* The application that runs is sealed, unaltered since it was sealed, and  *)
(* has a usable vector table - after any updates, refusals and power cuts   *)
(* (BL_VerifyActiveSlot before BL_JumpToApplication).                       *)
RunsValidImage == pc = "App" => Valid

(* No flash word is programmed twice between two erases of its sector: "each *)
(* flash word is written exactly once (ECC)", bootloader.c:96.              *)
WriteOnce == \A w \in FlashWord : writes[w] <= 1

(* A session never programs past the slot, whatever its size and padding.   *)
ChunkFits == pc = "Program" => chunk # <<>> /\ addr + Len(chunk) <= SlotWords

(* From the end of the erase to the seal the slot has no tag, so a board    *)
(* that loses power there finds it unsealed.                                *)
UnsealedUntilSeal == pc \in {"Chunk", "Program", "Crc", "Seal"} => tag = NoTag

(* After a session that answered OK the slot holds what the host sent,      *)
(* erased bytes to its end, and the tag of exactly that.                    *)
AcceptedIsDelivered == result = "OK" => slot = image /\ tag = Crc(image)

(* The controller is unlocked in the writing part of a session only: every  *)
(* way out of BL_ReceiveImage, and a reset, leave it locked.                *)
LockedOutsideWriting == ~lock <=> pc \in InSession \ {"Size"}

(* No step, power cut or application run changes a locked flash.            *)
LockedIsImmutable == [][lock => UNCHANGED <<slot, tag, writes>>]_vars

(* Every session returns, whatever the host does or stops doing.            *)
SessionEnds == pc \in InSession ~> pc \notin InSession

(* The bootloader keeps the promise of ActiveSlot: the slot is open while   *)
(* the controller is unlocked.                                              *)
Promise == INSTANCE ActiveSlot WITH
  Seals    <- CrcValue,
  Blank    <- NoTag,
  SealOf   <- Crc,
  CanStart <- LAMBDA s : s[0] \in Bootable,
  store    <- slot,
  seal     <- tag,
  phase    <- IF pc = "App" THEN "running" ELSE IF lock THEN "closed" ELSE "open",
  answer   <- IF result = "OK" THEN "ok" ELSE IF result = "NONE" THEN "none" ELSE "failed"

KeepsPromise == Promise!Spec

(* bootloader.h:160 of BL_ReceiveImage: "Leaves the slot unsealed (no tag)  *)
(* on any failure, so it is never booted."                                  *)
FailedUpdateNeverBoots == result \in Failures => pc # "App"
=============================================================================
