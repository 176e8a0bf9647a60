------------------------------ MODULE FlashDriver ------------------------------
(***************************************************************************)
(* The FLASH driver (Projects/FLASH/src/flash.c): the sector erase that     *)
(* waits for its interrupt handler, the two ways this repository programs   *)
(* a flash word, and FLASH_StoreIntegrityTag, over the FLASH controller of  *)
(* the reference manual (docs/, RM0522 6.3, 6.8-6.10).                      *)
(*                                                                         *)
(* A register is the set of its bits that are 1. A sector is the set of the *)
(* bits of its number, so SNB is a part of CR as it is in the register; a   *)
(* sector stands for one flash word of its own. A read-modify-write of CR   *)
(* in ErasePage is two steps, the handler may run between them.             *)
(***************************************************************************)
EXTENDS FiniteSets

CONSTANT NumberBits   \* bits of a sector number

Sector == SUBSET NumberBits

ASSUME BitsAssumption ==
  /\ IsFiniteSet(NumberBits)
  /\ NumberBits \cap {"LOCK", "PG", "SER", "EOPIE"} = {}

VARIABLES
  wrp,     \* sectors the option bytes write-protect
  cells,   \* the flash word of each sector: "erased", "data" or "corrupt"
  sr, cr,  \* FLASH_SR and FLASH_CR
  job,     \* what the controller is doing: [kind, sector]
  pc,      \* the statement main is at
  call,    \* the driver function it is in, or was in last
  target,  \* its sector
  reg,     \* main's CPU copy of CR between the load and the store
  eop,     \* s_flash_eop
  error,   \* s_flash_error
  ret,     \* what the last call returned
  goal     \* how far FLASH_StoreIntegrityTag is

hardware == <<wrp, cells, sr, cr, job>>
vars     == <<wrp, cells, sr, cr, job, pc, call, target, reg, eop, error, ret, goal>>

Errors == {"WRPERR", "PGSERR"}
Flags  == Errors \cup {"EOP"}
NoJob  == [kind |-> "none", sector |-> {}]
Busy   == "BSY" \in sr

Erasing     == {"EraseWait", "ConfigLoad", "ConfigStore", "Arm", "ArmLoad", "ArmStore",
                "StartLoad", "StartStore", "Spin", "FinishLoad", "FinishStore"}
Programming == {"ProgramWait", "ProgramWrite", "ProgramPoll"}

----------------------------------------------------------------------------
(* The controller (RM0522 6.3.5, 6.3.6, 6.8) *)

(* A request is refused while an error flag stands or the other kind of     *)
(* operation is configured (PGSERR), and on a protected sector (WRPERR);    *)
(* a refused request changes nothing and is over at once.                   *)
Request(kind, s, flags, wrong) ==
  IF flags \cap Errors # {} \/ wrong
    THEN sr' = flags \cup {"PGSERR"} /\ UNCHANGED job
  ELSE IF s \in wrp
    THEN sr' = flags \cup {"WRPERR"} /\ UNCHANGED job
  ELSE sr' = flags \cup {"BSY"} /\ job' = [kind |-> kind, sector |-> s]

(* The operation ends.  A word that was not erased is corrupted (ECC).      *)
JobEnds ==
  /\ job # NoJob
  /\ cells' = [cells EXCEPT ![job.sector] =
                 IF job.kind = "erase" THEN "erased"
                 ELSE IF @ = "erased" THEN "data" ELSE "corrupt"]
  /\ sr' = (sr \ {"BSY"}) \cup {"EOP"}
  /\ job' = NoJob
  /\ UNCHANGED <<wrp, cr, pc, call, target, reg, eop, error, ret, goal>>

(* Mutants: SR is read after its flags are cleared; the interrupt is not    *)
(* disarmed.                                                                *)
ClearThenRead ==
  /\ "EOP" \in sr /\ "EOPIE" \in cr
  /\ sr' = sr \ Flags
  /\ cr' = cr \ {"EOPIE"}
  /\ UNCHANGED <<wrp, cells, job, pc, call, target, reg, eop, error, ret, goal>>

HandlerLeavesArmed ==
  /\ "EOP" \in sr /\ "EOPIE" \in cr
  /\ sr' = sr \ Flags
  /\ eop' = TRUE
  /\ UNCHANGED <<wrp, cells, cr, job, pc, call, target, reg, error, ret, goal>>

(* FLASH_IRQHandler: EOPIE is the only interrupt the driver enables.        *)
FLASH_IRQHandler ==
  /\ "EOP" \in sr /\ "EOPIE" \in cr
  /\ sr' = sr \ Flags
  /\ cr' = cr \ {"EOPIE"}
  /\ eop' = TRUE
  /\ error' = (error \/ sr \cap Errors # {})
  /\ UNCHANGED <<wrp, cells, job, pc, call, target, reg, ret, goal>>

----------------------------------------------------------------------------
(* FLASH_ErasePage *)

SNB(s)       == s

CallErase(s) ==
  /\ call' = "erase" /\ target' = s
  /\ pc' = "EraseWait"
  /\ UNCHANGED <<hardware, reg, eop, error, ret>>

EraseWait ==
  /\ pc = "EraseWait" /\ ~Busy
  /\ pc' = "ConfigLoad"
  /\ UNCHANGED <<hardware, call, target, reg, eop, error, ret, goal>>

(* The four read-modify-writes of CR: SER and SNB, EOPIE, STRT, clean-up.   *)
Load ==
  /\ pc \in {"ConfigLoad", "ArmLoad", "StartLoad", "FinishLoad"}
  /\ reg' = cr
  /\ pc' = CASE pc = "ConfigLoad" -> "ConfigStore"
             [] pc = "ArmLoad"    -> "ArmStore"
             [] pc = "StartLoad"  -> "StartStore"
             [] pc = "FinishLoad" -> "FinishStore"
  /\ UNCHANGED <<hardware, call, target, eop, error, ret, goal>>

ConfigStore ==
  /\ pc = "ConfigStore"
  /\ cr' = (reg \ NumberBits) \cup {"SER"} \cup SNB(target)
  /\ pc' = "Arm"
  /\ UNCHANGED <<wrp, cells, sr, job, call, target, reg, eop, error, ret, goal>>

(* Mutants: flags of an earlier operation stay; s_flash_eop is not reset.   *)
ArmKeepFlags ==
  /\ pc = "Arm"
  /\ eop' = FALSE /\ error' = FALSE
  /\ pc' = "ArmLoad"
  /\ UNCHANGED <<hardware, call, target, reg, ret, goal>>

ArmKeepEop ==
  /\ pc = "Arm"
  /\ sr' = sr \ Flags
  /\ pc' = "ArmLoad"
  /\ UNCHANGED <<wrp, cells, cr, job, call, target, reg, eop, error, ret, goal>>

Arm ==
  /\ pc = "Arm"
  /\ eop' = FALSE /\ error' = FALSE
  /\ sr' = sr \ Flags
  /\ pc' = "ArmLoad"
  /\ UNCHANGED <<wrp, cells, cr, job, call, target, reg, ret, goal>>

ArmStore ==
  /\ pc = "ArmStore"
  /\ cr' = reg \cup {"EOPIE"}
  /\ pc' = "StartLoad"
  /\ UNCHANGED <<wrp, cells, sr, job, call, target, reg, eop, error, ret, goal>>

StartStore ==
  /\ pc = "StartStore"
  /\ cr' = reg
  /\ Request("erase", reg \cap NumberBits, sr, "PG" \in reg)
  /\ pc' = "Spin"
  /\ UNCHANGED <<wrp, cells, call, target, reg, eop, error, ret, goal>>

Spin ==
  /\ pc = "Spin" /\ eop
  /\ pc' = "FinishLoad"
  /\ UNCHANGED <<hardware, call, target, reg, eop, error, ret, goal>>

(* A write of CR stalls while the controller is busy. *)
FinishStore ==
  /\ pc = "FinishStore" /\ ~Busy
  /\ cr' = reg \ ({"SER"} \cup NumberBits)
  /\ ret' = IF error THEN "ERROR" ELSE "OK"
  /\ pc' = "Idle"
  /\ UNCHANGED <<wrp, cells, sr, job, call, target, reg, eop, error, goal>>

----------------------------------------------------------------------------
(* Programming: BL_ProgramFlashWord ("quad") writes a whole flash word,     *)
(* FLASH_ProgramWord ("word") 32 bits of it and forces the write.           *)

CallProgram(kind, s) ==
  /\ call' = kind /\ target' = s
  /\ pc' = "ProgramWait"
  /\ UNCHANGED <<hardware, reg, eop, error, ret>>

ProgramWait ==
  /\ pc = "ProgramWait" /\ ~Busy
  /\ pc' = "ProgramWrite"
  /\ UNCHANGED <<hardware, call, target, reg, eop, error, ret, goal>>

(* Only BL_ProgramFlashWord clears the flags first. *)
ProgramWrite ==
  /\ pc = "ProgramWrite"
  /\ cr' = cr \cup {"PG"}
  /\ Request("program", target, IF call = "quad" THEN sr \ Flags ELSE sr, "SER" \in cr)
  /\ pc' = "ProgramPoll"
  /\ UNCHANGED <<wrp, cells, call, target, reg, eop, error, ret, goal>>

(* BL_ProgramFlashWord checks the flags and reads the word back;            *)
(* FLASH_ProgramWord returns FLASH_OK always.                               *)
ProgramPoll ==
  /\ pc = "ProgramPoll" /\ ~Busy
  /\ cr' = cr \ {"PG"}
  /\ ret' = IF call = "word" \/ (sr \cap Errors = {} /\ cells[target] = "data")
              THEN "OK" ELSE "ERROR"
  /\ pc' = "Idle"
  /\ UNCHANGED <<wrp, cells, sr, job, call, target, reg, eop, error, goal>>

----------------------------------------------------------------------------
(* The callers *)

Free == pc = "Idle" /\ goal \notin {"erase", "program"}

Unlock ==
  /\ Free /\ "LOCK" \in cr
  /\ cr' = cr \ {"LOCK"}
  /\ goal' = "none"
  /\ UNCHANGED <<wrp, cells, sr, job, pc, call, target, reg, eop, error, ret>>

(* A call that comes to nothing but its answer.                             *)
Fails ==
  /\ Free
  /\ ret' = "ERROR" /\ call' = "none" /\ goal' = "none"
  /\ UNCHANGED <<hardware, pc, target, reg, eop, error>>

(* LOCK stays set although the keys were written.                           *)
UnlockFails == "LOCK" \in cr /\ Fails

Lock ==
  /\ Free /\ "LOCK" \notin cr
  /\ cr' = cr \cup {"LOCK"}
  /\ UNCHANGED <<wrp, cells, sr, job, pc, call, target, reg, eop, error, ret, goal>>

(* Every caller erases and programs with the controller unlocked. The       *)
(* bootloader programs erased words only (Bootloader!WriteOnce).            *)
EraseSector(s) ==
  /\ Free /\ "LOCK" \notin cr
  /\ goal' = "none"
  /\ CallErase(s)

ProgramQuad(s) ==
  /\ Free /\ "LOCK" \notin cr /\ cells[s] = "erased"
  /\ goal' = "none"
  /\ CallProgram("quad", s)

ProgramWord(s) ==
  /\ Free /\ "LOCK" \notin cr
  /\ goal' = "none"
  /\ CallProgram("word", s)

(* FLASH_StoreIntegrityTag: unlock and erase, program, lock. *)
StoreTag(s) ==
  /\ Free
  /\ goal' = "erase"
  /\ call' = "erase" /\ target' = s
  /\ pc' = "EraseWait"
  /\ cr' = cr \ {"LOCK"}
  /\ UNCHANGED <<wrp, cells, sr, job, reg, eop, error, ret>>

(* Without a CRC, or when FLASH_Unlock fails, it ends before the erase.      *)
StoreTagFails == Fails

StoreProgram ==
  /\ pc = "Idle" /\ goal = "erase" /\ ret = "OK"
  /\ goal' = "program"
  /\ CallProgram("word", target)

StoreEnd ==
  /\ pc = "Idle"
  /\ goal \in {"erase", "program"} /\ (goal = "erase" => ret # "OK")
  /\ goal' = IF ret = "OK" THEN "stored" ELSE "none"
  /\ cr' = cr \cup {"LOCK"}
  /\ UNCHANGED <<wrp, cells, sr, job, pc, call, target, reg, eop, error, ret>>

----------------------------------------------------------------------------

Init ==
  /\ wrp \in SUBSET Sector
  /\ cells \in [Sector -> {"erased", "data"}]
  /\ sr = {} /\ cr = {"LOCK"} /\ job = NoJob
  /\ pc = "Idle" /\ call = "none" /\ target = {} /\ reg = {}
  /\ eop = FALSE /\ error = FALSE /\ ret = "OK" /\ goal = "none"

Driver ==
  \/ EraseWait \/ Load \/ ConfigStore \/ Arm \/ ArmStore \/ StartStore \/ Spin \/ FinishStore
  \/ ProgramWait \/ ProgramWrite \/ ProgramPoll
  \/ StoreProgram \/ StoreEnd

Caller ==
  \/ Unlock \/ UnlockFails
  \/ Lock
  \/ StoreTagFails
  \/ \E s \in Sector : EraseSector(s) \/ ProgramQuad(s) \/ ProgramWord(s) \/ StoreTag(s)

Next == JobEnds \/ FLASH_IRQHandler \/ Driver \/ Caller

Spec == Init /\ [][Next]_vars

(* The controller ends what it accepted, interrupts are taken, the CPU runs. *)
FairSpec ==
  Spec /\ WF_vars(JobEnds) /\ WF_vars(FLASH_IRQHandler) /\ WF_vars(Driver)

----------------------------------------------------------------------------
(* Properties *)

(* Every variable holds a value of its kind. *)
TypeOK ==
  /\ wrp \subseteq Sector
  /\ cells \in [Sector -> {"erased", "data", "corrupt"}]
  /\ sr \subseteq Flags \cup {"BSY"}
  /\ cr \subseteq NumberBits \cup {"LOCK", "PG", "SER", "EOPIE"}
  /\ reg \subseteq NumberBits \cup {"LOCK", "PG", "SER", "EOPIE"}
  /\ job \in [kind : {"erase", "program", "none"}, sector : Sector]
  /\ pc \in Erasing \cup Programming \cup {"Idle"}
  /\ call \in {"erase", "quad", "word", "none"}
  /\ target \in Sector
  /\ eop \in BOOLEAN /\ error \in BOOLEAN
  /\ ret \in {"OK", "ERROR"}
  /\ goal \in {"none", "erase", "program", "stored"}

(* FLASH_ErasePage answers FLASH_OK only when its sector is erased and the  *)
(* controller is done - never because of an end of operation that belongs   *)
(* to an earlier call (the comment at flash.c:102).                         *)
ErasedWhenOk ==
  pc \in {"FinishLoad", "FinishStore"} /\ ~error => ~Busy /\ cells[target] = "erased"

(* Between calls nothing of a call is left: no operation runs, no interrupt *)
(* is armed, no operation is selected in CR (the read-modify-writes of main *)
(* and of the handler lose none of each other's bits).                      *)
CleanWhenIdle == pc = "Idle" => ~Busy /\ cr \subseteq {"LOCK"}

(* BL_ProgramFlashWord tells its caller the truth: OK means programmed.     *)
ProgrammedWhenOk ==
  pc = "Idle" /\ call = "quad" /\ ret = "OK" => cells[target] = "data"

(* An integrity tag reported as stored is in flash, although its last step, *)
(* FLASH_ProgramWord, reports no errors.                                    *)
StoredTag == pc = "Idle" /\ goal = "stored" => cells[target] = "data" /\ cr = {"LOCK"}

(* Every answer of the driver is true.                                      *)
AnswersAreTrue == ErasedWhenOk /\ ProgrammedWhenOk /\ StoredTag

(* The calls of the bootloader, in any order and after any refusal, never   *)
(* make a sequence the controller rejects; only FLASH_ProgramWord, which    *)
(* does not clear the error an earlier one left, can.                       *)
InSequence == []["PGSERR" \in sr' \ sr => call = "word"]_vars

(* An erase of a sector that is not write-protected returns.                *)
EraseReturns == pc \in Erasing /\ target \notin wrp ~> pc = "Idle"

(* bootloader.h:37: "Any failure is answered with NACK" - so every erase,   *)
(* also a refused one, has to return to BL_ReceiveImage.                    *)
EraseAnswers == pc \in Erasing ~> pc = "Idle"
=============================================================================
