-------------------------- MODULE FlashDriverProofs --------------------------
(***************************************************************************)
(* What FlashDriver promises, for any number of sectors: the handshake of   *)
(* FLASH_ErasePage with its interrupt handler leaves nothing behind, and    *)
(* the driver's answers are true.                                           *)
(***************************************************************************)
EXTENDS FlashDriver, TLAPS

----------------------------------------------------------------------------
(* The inductive invariant *)

Configured == {"SER"} \cup target
Armed      == Configured \cup {"EOPIE"}

(* What stands in CR, and in main's copy of it, at each statement: no       *)
(* read-modify-write writes back what the handler has changed.              *)
ConfigInv ==
  /\ pc = "Idle" => cr \subseteq {"LOCK"}
  /\ pc = "Idle" /\ goal \in {"erase", "program"} => cr = {}
  /\ pc \in {"EraseWait", "ConfigLoad", "ConfigStore", "ProgramWait", "ProgramWrite"} => cr = {}
  /\ pc \in {"Arm", "ArmLoad", "ArmStore", "FinishLoad", "FinishStore"} => cr = Configured
  /\ pc \in {"StartLoad", "StartStore"} => cr = Armed
  /\ pc = "Spin" /\ eop => cr = Configured
  /\ pc = "Spin" /\ ~eop => cr = Armed
  /\ pc = "ProgramPoll" => cr = {"PG"}
  /\ pc \in {"ConfigStore", "ArmStore", "StartStore", "FinishStore"} => reg = cr

(* The controller works only while main waits for it, and on what it was    *)
(* asked for.                                                               *)
JobInv ==
  /\ Busy <=> job # NoJob
  /\ Busy => \/ pc = "Spin" /\ job = [kind |-> "erase", sector |-> target]
             \/ pc = "ProgramPoll" /\ job = [kind |-> "program", sector |-> target]

(* The four states of the wait for s_flash_eop: erasing, erased and not yet *)
(* taken, handled, refused; the flags are those of this erase.  An erase    *)
(* that is refused never leaves it, so that s_flash_error is never set.     *)
EraseInv ==
  /\ ~error
  /\ pc \in {"ArmLoad", "ArmStore", "StartLoad", "StartStore"} => sr = {} /\ ~eop
  /\ pc = "Spin" =>
       \/ ~eop /\ sr = {"BSY"} /\ target \notin wrp
       \/ ~eop /\ sr = {"EOP"} /\ target \notin wrp /\ cells[target] = "erased"
       \/ eop /\ sr = {} /\ target \notin wrp /\ cells[target] = "erased"
       \/ ~eop /\ sr = {"WRPERR"} /\ target \in wrp
  /\ pc \in {"FinishLoad", "FinishStore"} =>
       sr = {} /\ target \notin wrp /\ cells[target] = "erased"

(* The word of a tag goes to the sector just erased, with no flag of an     *)
(* earlier operation standing.                                              *)
Erased == sr = {} /\ target \notin wrp /\ cells[target] = "erased"

StoreInv ==
  /\ goal = "erase" => pc \in Erasing \/ (pc = "Idle" /\ ret = "OK" /\ Erased)
  /\ goal = "program" =>
       /\ call = "word"
       /\ \/ pc \in {"ProgramWait", "ProgramWrite"} /\ Erased
          \/ pc = "ProgramPoll" /\ Busy /\ cells[target] = "erased"
          \/ pc = "ProgramPoll" /\ ~Busy /\ cells[target] = "data"
          \/ pc = "Idle" /\ ret = "OK" /\ cells[target] = "data"
  /\ goal = "stored" => pc = "Idle" /\ cells[target] = "data" /\ cr = {"LOCK"}

(* A call stays what it is until it returns.                                *)
CallInv ==
  /\ pc \in Erasing => call = "erase"
  /\ pc \in Programming => call \in {"quad", "word"}
  /\ ProgrammedWhenOk

(* Together: inductive.                                                     *)
IInv == TypeOK /\ ConfigInv /\ JobInv /\ EraseInv /\ StoreInv /\ CallInv

----------------------------------------------------------------------------
(* The invariant holds at first *)

LEMMA InitInv == Init => IInv
  <1> SUFFICES ASSUME Init PROVE IInv
    OBVIOUS
  <1>1. TypeOK
    <2>1. cells \in [Sector -> {"erased", "data", "corrupt"}]
      BY DEF Init
    <2>2. job \in [kind : {"erase", "program", "none"}, sector : Sector] /\ target \in Sector
      BY DEF Init, NoJob, Sector
    <2> QED
      BY <2>1, <2>2 DEF Init, TypeOK
  <1>2. ConfigInv /\ JobInv /\ EraseInv
    BY DEF Init, ConfigInv, JobInv, EraseInv, Busy
  <1>3. StoreInv /\ CallInv
    BY DEF Init, StoreInv, CallInv, ProgrammedWhenOk, Erasing, Programming
  <1> QED
    BY <1>1, <1>2, <1>3 DEF IInv

----------------------------------------------------------------------------
(* and is kept by every action: the controller *)

LEMMA JobEndsInv ==
  ASSUME IInv, JobEnds
  PROVE  IInv'
  <1>1. TypeOK'
    BY DEF JobEnds, hardware, IInv, TypeOK, Flags, Errors, Erasing, Programming, Sector, NoJob
  <1>2. ConfigInv'
    BY DEF JobEnds, IInv, ConfigInv, Configured, Armed
  <1>3. JobInv'
    BY DEF JobEnds, IInv, JobInv, Busy, NoJob
  <1>4. EraseInv'
    BY DEF JobEnds, hardware, IInv, TypeOK, JobInv, EraseInv, Busy, NoJob, Flags, Errors
  <1>5. StoreInv'
    BY DEF JobEnds, hardware, IInv, TypeOK, JobInv, EraseInv, Busy, NoJob, Flags, Errors, StoreInv, Erased, Erasing
  <1>6. CallInv'
    BY DEF JobEnds, hardware, IInv, JobInv, EraseInv, Busy, NoJob, Flags, Errors, CallInv, Erasing, Programming,
       ProgrammedWhenOk
  <1> QED
    BY <1>1, <1>2, <1>3, <1>4, <1>5, <1>6 DEF IInv

(* The handler runs only in the wait of an erase that has ended: armed is   *)
(* armed for this one.                                                      *)
LEMMA FLASH_IRQHandlerInv ==
  ASSUME IInv, FLASH_IRQHandler
  PROVE  IInv'
  <1>1. pc = "Spin" /\ ~eop /\ sr = {"EOP"} /\ target \notin wrp /\ cells[target] = "erased"
    <2>1. cr \notin {{}, {"LOCK"}, {"PG"}, Configured}
      BY BitsAssumption DEF FLASH_IRQHandler, IInv, TypeOK, Configured, Sector
    <2>2. "EOP" \in sr /\ ~(cr \subseteq {"LOCK"})
      BY DEF FLASH_IRQHandler
    <2> QED
      BY <2>1, <2>2 DEF IInv, TypeOK, ConfigInv, EraseInv, Erasing, Programming
  <1>2. /\ sr' = {} /\ cr' = cr \ {"EOPIE"} /\ eop' /\ ~error'
        /\ UNCHANGED <<wrp, cells, job, pc, call, target, reg, ret, goal>>
    BY <1>1 DEF FLASH_IRQHandler, IInv, TypeOK, EraseInv, Flags, Errors
  <1>3. cr = Armed /\ cr' = Configured
    BY <1>1, <1>2, BitsAssumption DEF IInv, TypeOK, ConfigInv, Configured, Armed, Sector
  <1>4. TypeOK'
    BY <1>2 DEF FLASH_IRQHandler, IInv, TypeOK
  <1>5. ConfigInv'
    BY <1>1, <1>2, <1>3 DEF ConfigInv, Configured
  <1>6. JobInv' /\ EraseInv'
    BY <1>1, <1>2 DEF IInv, JobInv, EraseInv, Busy
  <1>7. StoreInv' /\ CallInv'
    BY <1>1, <1>2 DEF IInv, StoreInv, CallInv, Erasing, Programming, ProgrammedWhenOk
  <1> QED
    BY <1>4, <1>5, <1>6, <1>7 DEF IInv

----------------------------------------------------------------------------
(* FLASH_ErasePage *)

LEMMA EraseWaitInv ==
  ASSUME IInv, EraseWait
  PROVE  IInv'
  <1>1. TypeOK' /\ ConfigInv'
    BY DEF EraseWait, hardware, IInv, TypeOK, Flags, Errors, Erasing, Programming, ConfigInv, Configured, Armed
  <1>2. JobInv' /\ EraseInv'
    BY DEF EraseWait, hardware, IInv, JobInv, Busy, NoJob, EraseInv
  <1>3. StoreInv' /\ CallInv'
    BY DEF EraseWait, IInv, StoreInv, Erased, Busy, Erasing, CallInv, Programming, ProgrammedWhenOk
  <1> QED
    BY <1>1, <1>2, <1>3 DEF IInv

LEMMA LoadInv ==
  ASSUME IInv, Load
  PROVE  IInv'
  <1>1. TypeOK' /\ ConfigInv'
    BY DEF Load, hardware, IInv, TypeOK, Flags, Errors, Erasing, Programming, ConfigInv, Configured, Armed
  <1>2. JobInv' /\ EraseInv'
    BY DEF Load, hardware, IInv, JobInv, Busy, NoJob, EraseInv
  <1>3. StoreInv' /\ CallInv'
    BY DEF Load, IInv, StoreInv, Erased, Busy, Erasing, CallInv, Programming, ProgrammedWhenOk
  <1> QED
    BY <1>1, <1>2, <1>3 DEF IInv

LEMMA ConfigStoreInv ==
  ASSUME IInv, ConfigStore
  PROVE  IInv'
  <1>1. TypeOK'
    BY DEF ConfigStore, SNB, hardware, IInv, TypeOK, Flags, Errors, Erasing, Programming, Sector, NoJob
  <1>2. ConfigInv'
    BY DEF ConfigStore, SNB, IInv, ConfigInv, Configured, Armed
  <1>3. JobInv' /\ EraseInv'
    BY DEF ConfigStore, SNB, IInv, JobInv, Busy, NoJob, EraseInv
  <1>4. StoreInv' /\ CallInv'
    BY DEF ConfigStore, SNB, IInv, StoreInv, Erased, Busy, Erasing, CallInv, Programming, ProgrammedWhenOk
  <1> QED
    BY <1>1, <1>2, <1>3, <1>4 DEF IInv

LEMMA ArmInv ==
  ASSUME IInv, Arm
  PROVE  IInv'
  <1>1. TypeOK' /\ ConfigInv'
    BY DEF Arm, IInv, TypeOK, Flags, Errors, Erasing, Programming, ConfigInv, Configured, Armed
  <1>2. JobInv'
    BY DEF Arm, IInv, JobInv, Busy, NoJob
  <1>3. EraseInv'
    BY DEF Arm, hardware, IInv, TypeOK, JobInv, EraseInv, Busy, NoJob, Flags, Errors
  <1>4. StoreInv' /\ CallInv'
    BY DEF Arm, IInv, StoreInv, Erased, Busy, Erasing, CallInv, Programming, ProgrammedWhenOk
  <1> QED
    BY <1>1, <1>2, <1>3, <1>4 DEF IInv

LEMMA ArmStoreInv ==
  ASSUME IInv, ArmStore
  PROVE  IInv'
  <1>1. TypeOK' /\ ConfigInv'
    BY DEF ArmStore, IInv, TypeOK, Flags, Errors, Erasing, Programming, ConfigInv, Configured, Armed
  <1>2. JobInv' /\ EraseInv'
    BY DEF ArmStore, IInv, JobInv, Busy, NoJob, EraseInv
  <1>3. StoreInv' /\ CallInv'
    BY DEF ArmStore, IInv, StoreInv, Erased, Busy, Erasing, CallInv, Programming, ProgrammedWhenOk
  <1> QED
    BY <1>1, <1>2, <1>3 DEF IInv

(* The start: accepted or, on a protected sector, refused.                  *)
LEMMA StartStoreInv ==
  ASSUME IInv, StartStore
  PROVE  IInv'
  <1>1. /\ reg = Armed /\ target \subseteq NumberBits /\ reg \cap NumberBits = target /\ "PG" \notin reg
        /\ sr = {} /\ ~eop
    BY BitsAssumption DEF StartStore, IInv, TypeOK, ConfigInv, EraseInv, Configured, Armed, Sector
  <1>2. ~Busy /\ job = NoJob
    BY <1>1 DEF IInv, JobInv, Busy
  <1>3. /\ cr' = Armed /\ pc' = "Spin"
        /\ UNCHANGED <<wrp, cells, call, target, reg, eop, error, ret, goal>>
    BY <1>1 DEF StartStore
  <1>4. \/ target \in wrp /\ sr' = {"WRPERR"} /\ job' = job
        \/ target \notin wrp /\ sr' = {"BSY"} /\ job' = [kind |-> "erase", sector |-> target]
    BY <1>1 DEF StartStore, Request, Errors
  <1>5. TypeOK'
    BY <1>1, <1>3, <1>4 DEF IInv, TypeOK, Armed, Configured, Flags, Errors, Erasing, Sector
  <1>6. ConfigInv'
    BY <1>1, <1>3 DEF ConfigInv, Armed, Configured
  <1>7. JobInv'
    BY <1>2, <1>3, <1>4 DEF JobInv, Busy, NoJob
  <1>8. EraseInv'
    BY <1>1, <1>3, <1>4 DEF IInv, EraseInv
  <1>9. StoreInv' /\ CallInv'
    BY <1>3 DEF StartStore, IInv, StoreInv, CallInv, Erasing, Programming, ProgrammedWhenOk
  <1> QED
    BY <1>5, <1>6, <1>7, <1>8, <1>9 DEF IInv

LEMMA SpinInv ==
  ASSUME IInv, Spin
  PROVE  IInv'
  <1>1. TypeOK' /\ ConfigInv'
    BY DEF Spin, hardware, IInv, TypeOK, Flags, Errors, Erasing, Programming, ConfigInv, Configured, Armed
  <1>2. JobInv'
    BY DEF Spin, hardware, IInv, JobInv, EraseInv, Busy, NoJob, Flags, Errors
  <1>3. EraseInv'
    BY DEF Spin, hardware, IInv, EraseInv
  <1>4. StoreInv' /\ CallInv'
    BY DEF Spin, IInv, StoreInv, Erased, Busy, Erasing, CallInv, Programming, ProgrammedWhenOk
  <1> QED
    BY <1>1, <1>2, <1>3, <1>4 DEF IInv

(* The end: there is no error to answer with.                               *)
LEMMA FinishStoreInv ==
  ASSUME IInv, FinishStore
  PROVE  IInv'
  <1>1. /\ reg = Configured /\ target \subseteq NumberBits /\ sr = {} /\ call \in {"erase", "quad", "word", "none"}
    BY DEF FinishStore, IInv, TypeOK, ConfigInv, EraseInv, Sector
  <1>2. /\ cr' = {} /\ ret' = "OK" /\ pc' = "Idle" /\ cells[target] = "erased" /\ target \notin wrp
        /\ UNCHANGED <<wrp, cells, sr, job, call, target, reg, eop, error, goal>>
    BY <1>1 DEF FinishStore, IInv, EraseInv, Configured
  <1>3. TypeOK'
    BY <1>2 DEF IInv, TypeOK
  <1>4. ConfigInv' /\ EraseInv'
    BY <1>2 DEF IInv, ConfigInv, EraseInv
  <1>5. JobInv'
    BY <1>1, <1>2 DEF IInv, JobInv, Busy
  <1>6. StoreInv'
    BY <1>1, <1>2 DEF FinishStore, IInv, StoreInv, Erased
  <1>7. CallInv'
    BY <1>2 DEF FinishStore, IInv, CallInv, Erasing, Programming, ProgrammedWhenOk
  <1> QED
    BY <1>3, <1>4, <1>5, <1>6, <1>7 DEF IInv

----------------------------------------------------------------------------
(* Programming *)

LEMMA ProgramWaitInv ==
  ASSUME IInv, ProgramWait
  PROVE  IInv'
  <1>1. TypeOK' /\ ConfigInv'
    BY DEF ProgramWait, hardware, IInv, TypeOK, Flags, Errors, Erasing, Programming, ConfigInv, Configured, Armed
  <1>2. JobInv' /\ EraseInv'
    BY DEF ProgramWait, hardware, IInv, JobInv, Busy, NoJob, EraseInv
  <1>3. StoreInv' /\ CallInv'
    BY DEF ProgramWait, hardware, IInv, StoreInv, Erased, Busy, Erasing, CallInv, Programming, ProgrammedWhenOk
  <1> QED
    BY <1>1, <1>2, <1>3 DEF IInv

(* After a refusal the flags stand, except under a tag's word.              *)
LEMMA ProgramWriteInv ==
  ASSUME IInv, ProgramWrite
  PROVE  IInv'
  <1> DEFINE flags == IF call = "quad" THEN sr \ Flags ELSE sr
  <1>1. /\ cr' = {"PG"} /\ pc' = "ProgramPoll"
        /\ UNCHANGED <<wrp, cells, call, target, reg, eop, error, ret, goal>>
    BY DEF ProgramWrite, IInv, ConfigInv
  <1>2. ~Busy /\ job = NoJob /\ flags \subseteq Flags
    BY DEF ProgramWrite, IInv, TypeOK, JobInv, Busy
  <1>3. \/ sr' \in {flags \cup {"PGSERR"}, flags \cup {"WRPERR"}} /\ job' = job
        \/ /\ flags \cap Errors = {} /\ target \notin wrp
           /\ sr' = flags \cup {"BSY"} /\ job' = [kind |-> "program", sector |-> target]
    BY DEF ProgramWrite, Request
  <1>4. goal = "program" => job' # job
    BY <1>2 DEF ProgramWrite, Request, IInv, ConfigInv, StoreInv, Erased, Erasing, Programming, NoJob, Errors, Flags
  <1>5. TypeOK'
    <2>1. sr' \subseteq Flags \cup {"BSY"}
      BY <1>2, <1>3 DEF Flags, Errors
    <2>2. target \in Sector /\ job \in [kind : {"erase", "program", "none"}, sector : Sector]
      BY DEF IInv, TypeOK
    <2>3. job' \in [kind : {"erase", "program", "none"}, sector : Sector]
      BY <1>3, <2>2
    <2> QED
      BY <1>1, <2>1, <2>3 DEF IInv, TypeOK, Programming
  <1>6. ConfigInv' /\ EraseInv'
    BY <1>1 DEF IInv, ConfigInv, EraseInv
  <1>7. JobInv'
    BY <1>1, <1>2, <1>3 DEF JobInv, Busy, NoJob, Flags, Errors
  <1>8. StoreInv'
    BY <1>1, <1>3, <1>4, <1>7 DEF ProgramWrite, IInv, StoreInv, JobInv, Erased, Erasing, Busy
  <1>9. CallInv'
    BY <1>1 DEF ProgramWrite, IInv, CallInv, Erasing, Programming, ProgrammedWhenOk
  <1> QED
    BY <1>5, <1>6, <1>7, <1>8, <1>9 DEF IInv

LEMMA ProgramPollInv ==
  ASSUME IInv, ProgramPoll
  PROVE  IInv'
  <1>1. TypeOK' /\ ConfigInv'
    BY DEF ProgramPoll, IInv, TypeOK, Flags, Errors, Erasing, Programming, ConfigInv, Configured, Armed
  <1>2. JobInv' /\ EraseInv'
    BY DEF ProgramPoll, IInv, JobInv, Busy, NoJob, EraseInv
  <1>3. StoreInv' /\ CallInv'
    BY DEF ProgramPoll, IInv, StoreInv, Erased, Busy, Erasing, CallInv, Programming, ProgrammedWhenOk
  <1> QED
    BY <1>1, <1>2, <1>3 DEF IInv

----------------------------------------------------------------------------
(* The callers *)

LEMMA StoreProgramInv ==
  ASSUME IInv, StoreProgram
  PROVE  IInv'
  <1>1. TypeOK' /\ ConfigInv'
    BY DEF StoreProgram, CallProgram, hardware, IInv, TypeOK, Flags, Errors, Erasing, Programming, ConfigInv,
       Configured, Armed
  <1>2. JobInv' /\ EraseInv'
    BY DEF StoreProgram, CallProgram, hardware, IInv, JobInv, Busy, NoJob, EraseInv
  <1>3. StoreInv' /\ CallInv'
    BY DEF StoreProgram, CallProgram, hardware, IInv, StoreInv, Erased, Busy, Erasing, CallInv, Programming,
       ProgrammedWhenOk
  <1> QED
    BY <1>1, <1>2, <1>3 DEF IInv

LEMMA StoreEndInv ==
  ASSUME IInv, StoreEnd
  PROVE  IInv'
  <1>1. TypeOK' /\ ConfigInv'
    BY DEF StoreEnd, IInv, TypeOK, Flags, Errors, Erasing, Programming, ConfigInv, Configured, Armed
  <1>2. JobInv' /\ EraseInv'
    BY DEF StoreEnd, IInv, JobInv, Busy, NoJob, EraseInv
  <1>3. StoreInv'
    BY DEF StoreEnd, hardware, IInv, ConfigInv, Configured, Armed, StoreInv, Erased, Busy, Erasing
  <1>4. CallInv'
    BY DEF StoreEnd, IInv, CallInv, Erasing, Programming, ProgrammedWhenOk
  <1> QED
    BY <1>1, <1>2, <1>3, <1>4 DEF IInv

LEMMA UnlockInv ==
  ASSUME IInv, Unlock
  PROVE  IInv'
  <1>1. TypeOK' /\ ConfigInv'
    BY DEF Unlock, Free, IInv, TypeOK, Flags, Errors, Erasing, Programming, ConfigInv, Configured, Armed
  <1>2. JobInv' /\ EraseInv'
    BY DEF Unlock, Free, IInv, JobInv, Busy, NoJob, EraseInv
  <1>3. StoreInv' /\ CallInv'
    BY DEF Unlock, Free, IInv, StoreInv, Erased, Busy, Erasing, CallInv, Programming, ProgrammedWhenOk
  <1> QED
    BY <1>1, <1>2, <1>3 DEF IInv

LEMMA LockInv ==
  ASSUME IInv, Lock
  PROVE  IInv'
  <1>1. TypeOK' /\ ConfigInv'
    BY DEF Lock, Free, IInv, TypeOK, Flags, Errors, Erasing, Programming, ConfigInv, Configured, Armed
  <1>2. JobInv' /\ EraseInv'
    BY DEF Lock, Free, IInv, JobInv, Busy, NoJob, EraseInv
  <1>3. StoreInv' /\ CallInv'
    BY DEF Lock, Free, IInv, StoreInv, Erased, Busy, Erasing, CallInv, Programming, ProgrammedWhenOk
  <1> QED
    BY <1>1, <1>2, <1>3 DEF IInv

LEMMA FailsInv ==
  ASSUME IInv, Fails
  PROVE  IInv'
  <1>1. /\ IInv /\ pc = "Idle" /\ goal' = "none" /\ call' = "none" /\ ret' = "ERROR"
        /\ UNCHANGED <<wrp, cells, sr, cr, job, pc, target, reg, eop, error>>
    BY DEF Fails, Free, hardware
  <1>2. TypeOK' /\ ConfigInv'
    BY <1>1 DEF IInv, TypeOK, ConfigInv, Configured, Armed
  <1>3. JobInv' /\ EraseInv'
    BY <1>1 DEF IInv, JobInv, EraseInv, Busy, NoJob
  <1>4. StoreInv' /\ CallInv'
    BY <1>1 DEF StoreInv, CallInv, Erasing, Programming, ProgrammedWhenOk
  <1> QED
    BY <1>2, <1>3, <1>4 DEF IInv

LEMMA EraseSectorInv ==
  ASSUME NEW s \in Sector, IInv, EraseSector(s)
  PROVE  IInv'
  <1>1. TypeOK' /\ ConfigInv'
    BY DEF EraseSector, Free, CallErase, hardware, IInv, TypeOK, Flags, Errors, Erasing, Programming, ConfigInv,
       Configured, Armed
  <1>2. JobInv' /\ EraseInv'
    BY DEF EraseSector, Free, CallErase, hardware, IInv, JobInv, Busy, NoJob, EraseInv
  <1>3. StoreInv' /\ CallInv'
    BY DEF EraseSector, Free, CallErase, IInv, StoreInv, Erased, Busy, Erasing, CallInv, Programming,
       ProgrammedWhenOk
  <1> QED
    BY <1>1, <1>2, <1>3 DEF IInv

LEMMA ProgramQuadInv ==
  ASSUME NEW s \in Sector, IInv, ProgramQuad(s)
  PROVE  IInv'
  <1>1. TypeOK' /\ ConfigInv'
    BY DEF ProgramQuad, Free, CallProgram, hardware, IInv, TypeOK, Flags, Errors, Erasing, Programming, ConfigInv,
       Configured, Armed
  <1>2. JobInv' /\ EraseInv'
    BY DEF ProgramQuad, Free, CallProgram, hardware, IInv, JobInv, Busy, NoJob, EraseInv
  <1>3. StoreInv' /\ CallInv'
    BY DEF ProgramQuad, Free, CallProgram, IInv, StoreInv, Erased, Busy, Erasing, CallInv, Programming,
       ProgrammedWhenOk
  <1> QED
    BY <1>1, <1>2, <1>3 DEF IInv

LEMMA ProgramWordInv ==
  ASSUME NEW s \in Sector, IInv, ProgramWord(s)
  PROVE  IInv'
  <1>1. TypeOK' /\ ConfigInv'
    BY DEF ProgramWord, Free, CallProgram, hardware, IInv, TypeOK, Flags, Errors, Erasing, Programming, ConfigInv,
       Configured, Armed
  <1>2. JobInv' /\ EraseInv'
    BY DEF ProgramWord, Free, CallProgram, hardware, IInv, JobInv, Busy, NoJob, EraseInv
  <1>3. StoreInv' /\ CallInv'
    BY DEF ProgramWord, Free, CallProgram, IInv, StoreInv, Erased, Busy, Erasing, CallInv, Programming,
       ProgrammedWhenOk
  <1> QED
    BY <1>1, <1>2, <1>3 DEF IInv

LEMMA StoreTagInv ==
  ASSUME NEW s \in Sector, IInv, StoreTag(s)
  PROVE  IInv'
  <1>1. TypeOK' /\ ConfigInv'
    BY DEF StoreTag, Free, IInv, TypeOK, Flags, Errors, Erasing, Programming, ConfigInv, Configured, Armed
  <1>2. JobInv' /\ EraseInv'
    BY DEF StoreTag, Free, IInv, JobInv, Busy, NoJob, EraseInv
  <1>3. StoreInv' /\ CallInv'
    BY DEF StoreTag, Free, IInv, StoreInv, Erased, Busy, Erasing, CallInv, Programming, ProgrammedWhenOk
  <1> QED
    BY <1>1, <1>2, <1>3 DEF IInv

----------------------------------------------------------------------------
(* Results *)

LEMMA NextInv == IInv /\ [Next]_vars => IInv'
  <1> SUFFICES ASSUME IInv, [Next]_vars PROVE IInv'
    OBVIOUS
  <1>1. CASE UNCHANGED vars
    BY <1>1 DEF vars, hardware, IInv, TypeOK, ConfigInv, JobInv, EraseInv, StoreInv, CallInv, ProgrammedWhenOk,
                Configured, Armed, Erased, Busy
  <1>2. CASE JobEnds \/ FLASH_IRQHandler
    BY <1>2, JobEndsInv, FLASH_IRQHandlerInv
  <1>3. CASE Driver
    BY <1>3, EraseWaitInv, LoadInv, ConfigStoreInv, ArmInv, ArmStoreInv, StartStoreInv, SpinInv, FinishStoreInv,
       ProgramWaitInv, ProgramWriteInv, ProgramPollInv, StoreProgramInv, StoreEndInv
    DEF Driver
  <1>4. CASE Caller
    BY <1>4, UnlockInv, LockInv, FailsInv, EraseSectorInv, ProgramQuadInv, ProgramWordInv, StoreTagInv
    DEF Caller, UnlockFails, StoreTagFails
  <1> QED
    BY <1>1, <1>2, <1>3, <1>4 DEF Next

(* The inductive invariant holds in every reachable state.                  *)
THEOREM Inductive == Spec => []IInv
  <1>1. Init => IInv
    BY InitInv
  <1>2. IInv /\ [Next]_vars => IInv'
    BY NextInv
  <1> QED
    BY <1>1, <1>2, PTL DEF Spec

(* Between calls no operation runs, no interrupt is armed and nothing is    *)
(* selected in CR.                                                          *)
THEOREM NothingLeftBehind == Spec => []CleanWhenIdle
  <1>1. IInv => CleanWhenIdle
    BY DEF IInv, ConfigInv, JobInv, CleanWhenIdle
  <1> QED
    BY Inductive, <1>1, PTL

(* FLASH_OK of an erase, of a flash word and of an integrity tag is true.   *)
THEOREM AnswersTrue == Spec => []AnswersAreTrue
  <1>1. IInv => AnswersAreTrue
    BY DEF IInv, JobInv, EraseInv, StoreInv, CallInv, AnswersAreTrue, ErasedWhenOk, StoredTag
  <1> QED
    BY Inductive, <1>1, PTL

(* No step of the handshake, and no program after any refusal, makes a      *)
(* sequence the controller rejects; FLASH_ProgramWord alone can.            *)
LEMMA SequenceStep ==
  ASSUME IInv, Next, "PGSERR" \in sr' \ sr
  PROVE  call = "word"
  <1>1. CASE JobEnds \/ FLASH_IRQHandler \/ Caller
    BY <1>1 DEF JobEnds, FLASH_IRQHandler, Caller, Unlock, Lock, UnlockFails, StoreTagFails, Fails, EraseSector,
                ProgramQuad, ProgramWord, StoreTag, CallErase, CallProgram, hardware
  <1>2. CASE StartStore
    <2>1. sr = {} /\ "PG" \notin reg
      BY <1>2, BitsAssumption DEF StartStore, IInv, TypeOK, ConfigInv, EraseInv, Armed, Configured, Sector
    <2> QED
      BY <1>2, <2>1 DEF StartStore, Request
  <1>3. CASE ProgramWrite
    BY <1>3 DEF ProgramWrite, Request, IInv, ConfigInv, CallInv, Programming, Flags
  <1>4. CASE Driver /\ ~StartStore /\ ~ProgramWrite
    BY <1>4 DEF Driver, EraseWait, Load, ConfigStore, Arm, ArmStore, Spin, FinishStore, ProgramWait, ProgramPoll,
                StoreProgram, StoreEnd, CallProgram, hardware
  <1> QED
    BY <1>1, <1>2, <1>3, <1>4 DEF Next

(* A rejected sequence is the work of FLASH_ProgramWord, in every run.      *)
THEOREM SequencesAccepted == Spec => InSequence
  <1>1. IInv /\ [Next]_vars => ["PGSERR" \in sr' \ sr => call = "word"]_vars
    BY SequenceStep
  <1> QED
    BY Inductive, <1>1, PTL DEF Spec, InSequence
=============================================================================
