---------------------------------- MODULE Hash ----------------------------------
(***************************************************************************)
(* The driver of the HASH processor, hash.c: Start, Update and Final of     *)
(* SHA-1, SHA-224 and SHA-256, one Update per message, as run_test of the   *)
(* demo, the ECDSA demo and ECDSA_Verify call them.  A digest stands for    *)
(* what it is computed from: the algorithm, the words fed and the valid     *)
(* bytes of the last one (0: all four).                                     *)
(***************************************************************************)
EXTENDS Integers

CONSTANTS
  BlockWords,   \* words of a block (16)
  Lengths,      \* bound: message lengths, in bytes
  MaxMessages   \* bound: messages in a behaviour

HashBounds == BlockWords \in Nat \ {0} /\ Lengths \subseteq Nat /\ MaxMessages \in Nat

VARIABLES
  engine,        \* "idle", "init", "partial" or "out": what the processor is doing
  dinis, dcis,   \* SR.DINIS and SR.DCIS; SR.BUSY is Busy below
  dcal,          \* STR.DCAL was written and is not done
  nblw,          \* STR.NBLW, in bytes
  room,          \* SR.NBWE: words until the next partial computation
  block,         \* what was fed since INIT
  hr,            \* the digest registers
  pc,            \* the program
  msg,           \* the message: algorithm and length
  words,         \* full words left for HASH_SHA256_Update
  digest,        \* the caller's buffer
  messages

status == <<dinis, dcis, dcal, nblw>>
vars   == <<engine, status, room, block, hr, pc, msg, words, digest, messages>>

Busy == engine \in {"partial", "out"} \/ dcal

None == [algo |-> "none", words |-> 0, last |-> 0]

LeastOf(a, b) == IF a < b THEN a ELSE b

----------------------------------------------------------------------------
(* The processor *)

(* The flags of an INIT come one by one, in either order.                   *)
Initialises ==
  /\ engine = "init"
  /\ \/ ~dinis /\ dinis' = TRUE /\ UNCHANGED dcis
     \/ dcis /\ dcis' = FALSE /\ UNCHANGED dinis
  /\ engine' = IF dinis' /\ ~dcis' THEN "idle" ELSE "init"
  /\ UNCHANGED <<dcal, nblw, room, block, hr, pc, msg, words, digest, messages>>

BlockDone ==
  /\ engine = "partial"
  /\ engine' = "idle"
  /\ dinis' = TRUE
  /\ UNCHANGED <<dcis, dcal, nblw, room, block, hr, pc, msg, words, digest, messages>>

DigestDone ==
  /\ engine = "idle" /\ dcal
  /\ engine' = "out"
  /\ dcal' = FALSE
  /\ dcis' = TRUE
  /\ UNCHANGED <<dinis, nblw, room, block, hr, pc, msg, words, digest, messages>>

DigestOut ==
  /\ engine = "out"
  /\ engine' = "idle"
  /\ hr' = block
  /\ UNCHANGED <<status, room, block, pc, msg, words, digest, messages>>

Processor == Initialises \/ BlockDone \/ DigestDone \/ DigestOut

(* Writes of n words to DIN: each takes the NBLW of its time, and the one   *)
(* that ends the room starts a partial computation.                         *)
Feed(n) ==
  /\ dinis' = FALSE
  /\ block' = [block EXCEPT !.words = @ + n, !.last = nblw']
  /\ IF n < room THEN room' = room - n /\ UNCHANGED engine
                 ELSE room' = BlockWords /\ engine' = "partial"

----------------------------------------------------------------------------
(* The driver *)

HASH_Constructor ==
  /\ pc = "idle"
  /\ engine' = "idle" /\ dinis' = FALSE /\ dcis' = FALSE /\ dcal' = FALSE
  /\ nblw' = 0 /\ room' = 0 /\ block' = None /\ hr' = None
  /\ UNCHANGED <<pc, msg, words, digest, messages>>

(* The INIT of hash_start and HASH_SHA256_Start                             *)
Start ==
  /\ pc = "idle" /\ messages < MaxMessages
  /\ messages' = messages + 1
  /\ msg' \in [algo : {"SHA1", "SHA224", "SHA256"}, len : Lengths]
  /\ digest' = None
  /\ engine' = "init" /\ dinis' = FALSE
  /\ room' = BlockWords + 1
  /\ block' = [None EXCEPT !.algo = msg'.algo]
  /\ pc' = "ready"
  /\ UNCHANGED <<dcis, dcal, nblw, hr, words>>

StartReady ==
  /\ pc = "ready" /\ dinis
  /\ pc' = "clean"
  /\ UNCHANGED <<engine, status, room, block, hr, msg, words, digest, messages>>

StartKeepingNBLW ==   \* mutant: STR is left as it was
  /\ pc = "clean" /\ ~dcis
  /\ words' = msg.len \div 4
  /\ pc' = IF msg.len = 0 THEN "final" ELSE IF words' = 0 THEN "tail" ELSE "first"
  /\ UNCHANGED <<engine, status, room, block, hr, msg, digest, messages>>

(* STR = 0; then HASH_SHA256_Update, which refuses an empty message.        *)
StartClean ==
  /\ pc = "clean" /\ ~dcis
  /\ nblw' = 0
  /\ words' = msg.len \div 4
  /\ pc' = IF msg.len = 0 THEN "final" ELSE IF words' = 0 THEN "tail" ELSE "first"
  /\ UNCHANGED <<engine, dinis, dcis, dcal, room, block, hr, msg, digest, messages>>

FirstBurstOf16 == LeastOf(words, BlockWords)   \* mutant: no word over the block

FirstBurst == LeastOf(words, BlockWords + 1)

(* The bursts of HASH_SHA256_Update: the first one, whole blocks, the rest  *)
Burst ==
  /\ pc \in {"first", "next"} /\ words > 0 /\ dinis
  /\ LET n == IF pc = "first" THEN FirstBurst ELSE LeastOf(words, BlockWords)
     IN  UNCHANGED nblw /\ Feed(n) /\ words' = words - n
  /\ pc' = IF words' = 0 THEN "tail" ELSE "next"
  /\ UNCHANGED <<dcis, dcal, hr, msg, digest, messages>>

Tail ==
  /\ pc = "tail" /\ pc' = "final"
  /\ IF msg.len % 4 = 0
       THEN UNCHANGED <<engine, nblw, dinis, room, block>>
       ELSE nblw' = msg.len % 4 /\ Feed(1)
  /\ UNCHANGED <<dcis, dcal, hr, msg, words, digest, messages>>

(* hash_final and HASH_SHA256_Final: a write with DCAL leaves NBLW alone.   *)
Final ==
  /\ pc = "final" /\ ~dcis
  /\ pc' = "wait"
  /\ dcal' = TRUE
  /\ UNCHANGED <<engine, dinis, dcis, nblw, room, block, hr, msg, words, digest, messages>>

ReadDigest ==
  /\ digest' = hr /\ pc' = "idle"
  /\ UNCHANGED <<engine, status, room, block, hr, msg, words, messages>>

DigestEarly == pc = "wait" /\ dcis /\ ReadDigest   \* mutant: BUSY is not awaited

DigestRead == pc = "wait" /\ dcis /\ ~Busy /\ ReadDigest

Driver == StartReady \/ StartClean \/ Burst \/ Tail \/ Final \/ DigestRead

----------------------------------------------------------------------------
Init ==
  /\ engine = "idle" /\ dinis = FALSE /\ dcis = FALSE /\ dcal = FALSE
  /\ nblw = 0 /\ room = 0 /\ block = None /\ hr = None
  /\ pc = "idle" /\ msg = [algo |-> "none", len |-> 0]
  /\ words = 0 /\ digest = None /\ messages = 0

Next == Processor \/ HASH_Constructor \/ Start \/ Driver

Spec == Init /\ [][Next]_vars /\ WF_vars(Processor) /\ WF_vars(Driver)
----------------------------------------------------------------------------
(* A digest is of the message it was asked for: every word of it, the last  *)
(* one cut where the message ends, and nothing of the message before.       *)
DigestOfMessage ==
  digest # None =>
    digest = [algo |-> msg.algo, words |-> (msg.len + 3) \div 4, last |-> msg.len % 4]

(* A digest comes for every message, wherever it ends in a block.           *)
HashReturns == pc # "idle" ~> pc = "idle"
================================================================================
