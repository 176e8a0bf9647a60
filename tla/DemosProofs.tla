------------------------------ MODULE DemosProofs ------------------------------
(***************************************************************************)
(* Proofs about the demonstration images: what each driver guarantees for   *)
(* every buffer, message, delay and number of calls.  An image's invariant  *)
(* holds whichever image runs, since the parts of the others stand still.   *)
(***************************************************************************)
EXTENDS Demos, Sequences, TLAPS

(* Whatever image runs, its peripherals take a step or stand still.         *)
LEMMA ImageStep ==
  ASSUME [Next]_vars
  PROVE  /\ [L!Next]_link /\ [P!Next]_pins /\ [N!Next]_rng /\ [T!Next]_time
         /\ [H!Next]_hash /\ [A!Next]_aes /\ [R!Next]_rsa /\ [C!Next]_sums
<1>1. CASE UNCHANGED vars
  BY <1>1 DEF vars
<1>2. CASE Next
  BY <1>2 DEF Next
<1> QED
  BY <1>1, <1>2

----------------------------------------------------------------------------
(* RNG: a handler that is armed has room in the buffer of the call that     *)
(* armed it, and nothing is armed outside that call.                        *)

RngTypeOK ==
  /\ status \in {"OK", "BUSY", "ERROR"} /\ nresult \in {"OK", "ERROR"}
  /\ idx \in 0 .. Length /\ calls \in Nat
  /\ npc \in {"idle", "drdy", "errors", "arm", "register", "wait", "giveUp"}
  /\ nhpc \in {"idle", "error", "store"}

RngInv ==
  /\ RngTypeOK
  /\ registered => npc \in {"wait", "giveUp"} /\ status = "BUSY" /\ idx < Length
  /\ nhpc # "idle" => registered
  /\ npc \in {"drdy", "errors"} => idx < Length
  /\ npc \in {"arm", "register"} => idx = 0
  /\ npc = "register" => status = "BUSY"
  /\ npc \in {"wait", "giveUp"} /\ status = "OK" => idx = Length
  /\ npc = "idle" /\ nresult = "OK" /\ calls > 0 => idx = Length

LEMMA RngNext == ASSUME RngInv, [N!Next]_rng PROVE RngInv'
<1>1. Length \in Nat \ {0}
  BY DemoBounds DEF N!RngBounds
<1> USE <1>1 DEF RngInv, RngTypeOK
<1>2. CASE UNCHANGED rng
  BY <1>2 DEF rng
<1>3. CASE N!Produces
  BY <1>3 DEF N!Produces
<1>4. CASE N!Handler
  <2>1. CASE N!Enter
    BY <2>1 DEF N!Enter, N!device
  <2>2. CASE N!Fails
    BY <2>2 DEF N!Fails
  <2>3. CASE N!Stores
    <3>1. /\ registered /\ nhpc' = "idle" /\ idx' = idx + 1
          /\ UNCHANGED <<npc, nresult, calls>>
      BY <2>3 DEF N!Stores
    <3>2. CASE idx + 1 >= Length
      <4>1. ~registered' /\ status' = "OK"
        BY <2>3, <3>2 DEF N!Stores
      <4> QED
        BY <3>1, <3>2, <4>1
    <3>3. CASE idx + 1 < Length
      <4>1. ~(idx + 1 >= Length)
        BY <3>3
      <4>2. UNCHANGED <<registered, status>>
        BY <2>3, <4>1 DEF N!Stores
      <4> QED
        BY <3>1, <3>3, <4>2
    <3> QED
      BY <3>2, <3>3
  <2> QED
    BY <1>4, <2>1, <2>2, <2>3 DEF N!Handler
<1>5. CASE N!Main
  <2> USE DEF N!At, N!Return, N!device
  <2>1. CASE N!Call \/ N!Disable
    BY <2>1 DEF N!Call, N!Disable
  <2>2. CASE N!PollReady \/ N!PollErrors
    BY <2>2 DEF N!PollReady, N!PollErrors
  <2>3. CASE N!Arm \/ N!Register
    BY <2>3 DEF N!Arm, N!Register
  <2>4. CASE N!Waited \/ N!GiveUp \/ N!GoOn
    BY <2>4 DEF N!Waited, N!GiveUp, N!GoOn
  <2> QED
    BY <1>5, <2>1, <2>2, <2>3, <2>4 DEF N!Main, N!Progress
<1> QED
  BY <1>2, <1>3, <1>4, <1>5 DEF N!Next

(* RNG_OK is a buffer filled by the call, and a call that returned has seen *)
(* the last write to its buffer, for every length of buffer.                *)
THEOREM BufferOwned == Spec => []BufferIsOwned
<1>1. Init => RngInv
  BY DemoBounds DEF Init, N!Init, N!RngBounds, RngInv, RngTypeOK
<1>2. RngInv /\ [Next]_vars => RngInv'
  BY RngNext, ImageStep
<1>3. RngInv => BufferIsOwned
  BY DEF RngInv, BufferIsOwned, N!BufferIsOwned
<1> QED
  BY <1>1, <1>2, <1>3, PTL DEF Spec

----------------------------------------------------------------------------
(* HASH: the flags a step of the driver waits for say what the processor    *)
(* has finished, and what was fed is the message up to the words left.      *)

Fed(m) == [algo |-> m.algo, words |-> (m.len + 3) \div 4, last |-> m.len % 4]

Fields == [algo : {"none", "SHA1", "SHA224", "SHA256"}, words : Nat, last : Nat]

HashTypeOK ==
  /\ hmsg \in [algo : {"none", "SHA1", "SHA224", "SHA256"}, len : Nat]
  /\ hpc = "idle" \/ (block \in Fields /\ block.algo = hmsg.algo)
  /\ engine \in {"idle", "init", "partial", "out"}
  /\ hpc \in {"idle", "ready", "clean", "first", "next", "tail", "final", "wait"}

(* Between INIT and the first word: INIT ends with DINIS up and DCIS down.  *)
Starting ==
  /\ ~dcal /\ engine \in {"init", "idle"}
  /\ engine = "init" => ~dinis \/ dcis
  /\ engine = "idle" => dinis /\ ~dcis
  /\ hpc = "clean" => dinis
  /\ block.words = 0 /\ block.last = 0

Feeding ==
  /\ ~dcal /\ ~dcis /\ engine \in {"idle", "partial"}
  /\ hpc # "final" => /\ words \in Nat /\ block.words + words = hmsg.len \div 4
                      /\ block.last = 0 /\ nblw = 0
  /\ hpc = "tail" => words = 0
  /\ hpc = "final" => block = Fed(hmsg)

(* After DCAL was written: DCIS means that the last block is done, and the  *)
(* idle engine after it that the digest registers are loaded.               *)
Finishing ==
  /\ block = Fed(hmsg)
  /\ dcal  => ~dcis /\ engine \in {"idle", "partial"}
  /\ ~dcal => dcis /\ engine \in {"idle", "out"} /\ (engine = "idle" => hr = block)

HashInv ==
  /\ HashTypeOK
  /\ hpc = "idle" => ~dcal /\ engine = "idle" /\ H!DigestOfMessage
  /\ hpc # "idle" => digest = H!None
  /\ hpc \in {"ready", "clean"} => Starting
  /\ hpc \in {"first", "next", "tail", "final"} => Feeding
  /\ hpc = "wait" => Finishing

LEMMA ProcessorStep == ASSUME HashInv, H!Processor PROVE HashInv'
<1>1. /\ UNCHANGED <<nblw, block, hpc, hmsg, words, digest>>
  BY DEF H!Processor, H!Initialises, H!BlockDone, H!DigestDone, H!DigestOut, H!status
<1>2. HashTypeOK' /\ (H!DigestOfMessage)' = H!DigestOfMessage
  <2>1. engine' \in {"idle", "init", "partial", "out"}
    BY DEF H!Processor, H!Initialises, H!BlockDone, H!DigestDone, H!DigestOut
  <2> QED
    BY <1>1, <2>1 DEF HashInv, HashTypeOK, H!DigestOfMessage
<1>3. hpc # "idle"
  BY DEF HashInv, H!Processor, H!Initialises, H!BlockDone, H!DigestDone, H!DigestOut
<1>4. hpc \in {"ready", "clean"} => Starting'
  <2> SUFFICES ASSUME hpc \in {"ready", "clean"} PROVE Starting'
    OBVIOUS
  <2>1. H!Initialises
    BY DEF HashInv, Starting, H!Processor, H!BlockDone, H!DigestDone, H!DigestOut
  <2> QED
    BY <1>1, <2>1 DEF HashInv, Starting, H!Initialises
<1>5. hpc \in {"first", "next", "tail", "final"} => Feeding'
  <2> SUFFICES ASSUME hpc \in {"first", "next", "tail", "final"} PROVE Feeding'
    OBVIOUS
  <2>1. H!BlockDone
    BY DEF HashInv, Feeding, H!Processor, H!Initialises, H!DigestDone, H!DigestOut
  <2>2. ~dcal' /\ ~dcis' /\ engine' \in {"idle", "partial"}
    BY <2>1 DEF HashInv, Feeding, H!BlockDone
  <2> QED
    BY <1>1, <2>2 DEF HashInv, Feeding
<1>6. hpc = "wait" => Finishing'
  <2> SUFFICES ASSUME hpc = "wait" PROVE Finishing'
    OBVIOUS
  <2>1. block' = Fed(hmsg)'
    BY <1>1 DEF HashInv, Finishing, Fed
  <2>2. CASE H!BlockDone
    BY <1>1, <2>1, <2>2 DEF HashInv, Finishing, H!BlockDone
  <2>3. CASE H!DigestDone
    BY <1>1, <2>1, <2>3 DEF HashInv, Finishing, H!DigestDone
  <2>4. CASE H!DigestOut
    BY <1>1, <2>1, <2>4 DEF HashInv, Finishing, H!DigestOut, H!status
  <2> QED
    BY <2>2, <2>3, <2>4 DEF HashInv, Finishing, H!Processor, H!Initialises
<1> QED
  BY <1>1, <1>2, <1>3, <1>4, <1>5, <1>6 DEF HashInv

(* Feeding n words adds them to the block, the NBLW of the time with them.  *)
LEMMA FeedAdds ==
  ASSUME NEW n \in Nat, H!Feed(n), block \in Fields, nblw' \in Nat
  PROVE  /\ block' \in Fields /\ block'.algo = block.algo
         /\ block'.words = block.words + n /\ block'.last = nblw'
         /\ engine' \in {engine, "partial"}
<1>1. block' = [block EXCEPT !.words = @ + n, !.last = nblw'] /\ engine' \in {engine, "partial"}
  BY DEF H!Feed
<1>2. block.words + n \in Nat
  BY DEF Fields
<1>3. block' = [algo |-> block.algo, words |-> block.words + n, last |-> nblw']
  BY <1>1 DEF Fields
<1> QED
  BY <1>1, <1>2, <1>3 DEF Fields

LEMMA ClientSteps == ASSUME HashInv, H!HASH_Constructor \/ H!Start PROVE HashInv'
<1>1. hpc = "idle" /\ ~dcal
  BY DEF HashInv, H!HASH_Constructor, H!Start
<1>2. CASE H!HASH_Constructor
  <2>1. /\ ~dcal' /\ engine' = "idle" /\ UNCHANGED <<hpc, hmsg, digest>>
    BY <1>2 DEF H!HASH_Constructor
  <2>2. H!DigestOfMessage'
    BY <1>1, <2>1 DEF HashInv, H!DigestOfMessage
  <2> QED
    BY <1>1, <2>1, <2>2 DEF HashInv, HashTypeOK
<1>3. CASE H!Start
  <2>1. /\ hmsg' \in [algo : {"SHA1", "SHA224", "SHA256"}, len : Lengths]
        /\ digest' = H!None /\ engine' = "init" /\ ~dinis' /\ hpc' = "ready"
        /\ block' = [H!None EXCEPT !.algo = hmsg'.algo] /\ UNCHANGED dcal
    BY <1>3 DEF H!Start
  <2>2. Lengths \subseteq Nat
    BY DemoBounds DEF H!HashBounds
  <2>3. hmsg' \in [algo : {"none", "SHA1", "SHA224", "SHA256"}, len : Nat]
    BY <2>1, <2>2
  <2>4. block' \in Fields /\ block'.algo = hmsg'.algo /\ block'.words = 0 /\ block'.last = 0
    BY <2>1, <2>3 DEF H!None, Fields
  <2>5. HashTypeOK'
    BY <2>1, <2>3, <2>4 DEF HashTypeOK
  <2>6. Starting'
    BY <1>1, <2>1, <2>4 DEF Starting
  <2> QED
    BY <2>1, <2>5, <2>6 DEF HashInv
<1> QED
  BY <1>2, <1>3

LEMMA StartSteps == ASSUME HashInv, H!StartReady \/ H!StartClean PROVE HashInv'
<1>1. CASE H!StartReady
  <2>1. /\ hpc = "ready" /\ dinis /\ hpc' = "clean"
        /\ UNCHANGED <<engine, dinis, dcis, dcal, block, hmsg, digest>>
    BY <1>1 DEF H!StartReady, H!status
  <2>2. Starting'
    BY <2>1 DEF HashInv, Starting
  <2> QED
    BY <2>1, <2>2 DEF HashInv, HashTypeOK
<1>2. CASE H!StartClean
  <2>1. /\ hpc = "clean" /\ ~dcis /\ nblw' = 0 /\ words' = hmsg.len \div 4
        /\ hpc' = IF hmsg.len = 0 THEN "final" ELSE IF words' = 0 THEN "tail" ELSE "first"
        /\ UNCHANGED <<engine, dcis, dcal, block, hmsg, digest>>
    BY <1>2 DEF H!StartClean
  <2>2. /\ ~dcal /\ engine = "idle" /\ block.words = 0 /\ block.last = 0
        /\ block \in Fields /\ block.algo = hmsg.algo /\ hmsg.len \in Nat
    BY <2>1 DEF HashInv, HashTypeOK, Starting
  <2>3. hpc' \in {"first", "tail", "final"}
    BY <2>1
  <2>4. hpc' # "final" => /\ words' \in Nat /\ block'.words + words' = (hmsg.len \div 4)
                          /\ block'.last = 0 /\ nblw' = 0
    BY <2>1, <2>2
  <2>5. hpc' = "tail" => words' = 0
    BY <2>1
  <2>6. hpc' = "final" => block' = Fed(hmsg)
    <3> SUFFICES ASSUME hpc' = "final" PROVE block = Fed(hmsg)
      BY <2>1
    <3>1. hmsg.len = 0
      BY <2>1
    <3>2. Fed(hmsg) = [algo |-> hmsg.algo, words |-> 0, last |-> 0]
      BY <3>1 DEF Fed
    <3> QED
      BY <2>2, <3>2 DEF Fields
  <2>7. Fed(hmsg)' = Fed(hmsg)
    BY <2>1 DEF Fed
  <2>8. Feeding'
    BY <2>1, <2>2, <2>4, <2>5, <2>6, <2>7 DEF Feeding
  <2>9. HashTypeOK'
    BY <2>1, <2>2, <2>3 DEF HashInv, HashTypeOK
  <2> QED
    BY <2>1, <2>3, <2>8, <2>9 DEF HashInv
<1> QED
  BY <1>1, <1>2

LEMMA BurstStep == ASSUME HashInv, H!Burst PROVE HashInv'
<1>1. /\ hpc \in {"first", "next"} /\ words > 0
      /\ hpc' = IF words' = 0 THEN "tail" ELSE "next"
      /\ UNCHANGED <<nblw, dcis, dcal, hmsg, digest>>
  BY DEF H!Burst
<1>2. /\ ~dcal /\ ~dcis /\ engine \in {"idle", "partial"} /\ words \in Nat
      /\ block.words + words = hmsg.len \div 4 /\ nblw = 0
      /\ block \in Fields /\ block.algo = hmsg.algo
  BY <1>1 DEF HashInv, HashTypeOK, Feeding
<1>3. PICK n \in 0 .. words : H!Feed(n) /\ words' = words - n
  <2>1. BlockWords \in Nat \ {0}
    BY DemoBounds DEF H!HashBounds
  <2>2. H!FirstBurst \in 0 .. words /\ H!LeastOf(words, BlockWords) \in 0 .. words
    BY <1>2, <2>1 DEF H!FirstBurst, H!LeastOf
  <2> QED
    BY <2>2 DEF H!Burst
<1>4. /\ block' \in Fields /\ block'.algo = hmsg.algo
      /\ block'.words = block.words + n /\ block'.last = 0 /\ engine' \in {engine, "partial"}
  BY <1>1, <1>2, <1>3, FeedAdds
<1>5. words' \in Nat /\ block'.words + words' = (hmsg.len \div 4)
  <2>1. block.words \in Nat
    BY <1>2 DEF Fields
  <2> QED
    BY <1>2, <1>3, <1>4, <2>1
<1>6. hpc' \in {"next", "tail"} /\ (hpc' = "tail" => words' = 0)
  BY <1>1
<1>7. Feeding'
  BY <1>1, <1>2, <1>4, <1>5, <1>6 DEF Feeding
<1>8. HashTypeOK'
  BY <1>1, <1>2, <1>4, <1>6 DEF HashInv, HashTypeOK
<1> QED
  BY <1>1, <1>6, <1>7, <1>8 DEF HashInv

LEMMA TailStep == ASSUME HashInv, H!Tail PROVE HashInv'
<1>1. hpc = "tail" /\ hpc' = "final" /\ UNCHANGED <<dcis, dcal, hmsg, digest>>
  BY DEF H!Tail
<1>2. /\ ~dcal /\ ~dcis /\ engine \in {"idle", "partial"} /\ words = 0
      /\ block.words + words = hmsg.len \div 4 /\ block.last = 0
      /\ block \in Fields /\ block.algo = hmsg.algo /\ hmsg.len \in Nat
  BY <1>1 DEF HashInv, HashTypeOK, Feeding
<1>3. block.words = hmsg.len \div 4
  BY <1>2 DEF Fields
<1>4. /\ block' \in Fields /\ block'.algo = hmsg.algo
      /\ block'.words = (hmsg.len + 3) \div 4 /\ block'.last = hmsg.len % 4
      /\ engine' \in {"idle", "partial"}
  <2>1. CASE hmsg.len % 4 = 0
    <3>1. UNCHANGED <<engine, block>>
      BY <2>1 DEF H!Tail
    <3>2. (hmsg.len + 3) \div 4 = hmsg.len \div 4
      BY <1>2, <2>1
    <3> QED
      BY <1>2, <1>3, <2>1, <3>1, <3>2
  <2>2. CASE hmsg.len % 4 # 0
    <3>1. nblw' = hmsg.len % 4 /\ H!Feed(1)
      BY <2>2 DEF H!Tail
    <3>2. nblw' \in Nat
      BY <1>2, <3>1
    <3>3. /\ block' \in Fields /\ block'.algo = block.algo
          /\ block'.words = block.words + 1 /\ block'.last = nblw'
          /\ engine' \in {engine, "partial"}
      BY <1>2, <3>1, <3>2, FeedAdds
    <3>4. (hmsg.len + 3) \div 4 = (hmsg.len \div 4) + 1
      BY <1>2, <2>2
    <3> QED
      BY <1>2, <1>3, <3>1, <3>3, <3>4
  <2> QED
    BY <2>1, <2>2
<1>5. block' = Fed(hmsg)
  BY <1>4 DEF Fed, Fields
<1>6. Fed(hmsg)' = Fed(hmsg)
  BY <1>1 DEF Fed
<1>7. Feeding'
  BY <1>1, <1>2, <1>4, <1>5, <1>6 DEF Feeding
<1>8. HashTypeOK'
  BY <1>1, <1>4 DEF HashInv, HashTypeOK
<1> QED
  BY <1>1, <1>7, <1>8 DEF HashInv

LEMMA FinalSteps == ASSUME HashInv, H!Final \/ H!DigestRead PROVE HashInv'
<1>1. Fed(hmsg)' = Fed(hmsg) /\ UNCHANGED <<engine, dcis, block, hr, hmsg>>
  BY DEF H!Final, H!DigestRead, H!ReadDigest, H!status, Fed
<1>2. CASE H!Final
  <2>1. hpc = "final" /\ hpc' = "wait" /\ ~dcis /\ dcal' /\ UNCHANGED digest
    BY <1>2 DEF H!Final
  <2>2. Finishing'
    BY <1>1, <2>1 DEF HashInv, Feeding, Finishing
  <2> QED
    BY <1>1, <2>1, <2>2 DEF HashInv, HashTypeOK
<1>3. CASE H!DigestRead
  <2>1. /\ hpc = "wait" /\ hpc' = "idle" /\ dcis /\ ~dcal /\ engine \notin {"partial", "out"}
        /\ digest' = hr /\ UNCHANGED dcal
    BY <1>3 DEF H!DigestRead, H!Busy, H!ReadDigest, H!status
  <2>2. engine = "idle" /\ digest' = Fed(hmsg)
    BY <2>1 DEF HashInv, Finishing
  <2>3. H!DigestOfMessage'
    BY <1>1, <2>2 DEF H!DigestOfMessage, Fed
  <2> QED
    BY <1>1, <2>1, <2>2, <2>3 DEF HashInv, HashTypeOK
<1> QED
  BY <1>2, <1>3

LEMMA HashNext == ASSUME HashInv, [H!Next]_hash PROVE HashInv'
<1>1. CASE UNCHANGED hash
  <2>1. UNCHANGED <<engine, dinis, dcis, dcal, nblw, block, hr, hpc, hmsg, words, digest>>
    BY <1>1 DEF hash
  <2>2. H!DigestOfMessage' = H!DigestOfMessage /\ HashTypeOK' = HashTypeOK
    BY <2>1 DEF H!DigestOfMessage, HashTypeOK
  <2>3. Starting' = Starting /\ Feeding' = Feeding /\ Finishing' = Finishing
    BY <2>1 DEF Starting, Feeding, Finishing, Fed
  <2> QED
    BY <2>1, <2>2, <2>3 DEF HashInv
<1>2. CASE H!Next
  BY <1>2, ProcessorStep, ClientSteps, StartSteps, BurstStep, TailStep, FinalSteps
  DEF H!Next, H!Driver
<1> QED
  BY <1>1, <1>2

(* Every digest is of the message it was asked for and of nothing before    *)
(* it, for every length of message and of block and any number of messages. *)
THEOREM DigestIsOfMessage == Spec => []DigestOfMessage
<1>1. Init => HashInv
  <2> SUFFICES ASSUME Init PROVE HashInv
    OBVIOUS
  <2>1. /\ engine = "idle" /\ ~dcal /\ digest = H!None /\ hpc = "idle"
        /\ hmsg = [algo |-> "none", len |-> 0]
    BY DEF Init, H!Init
  <2> QED
    BY <2>1 DEF HashInv, HashTypeOK, H!DigestOfMessage
<1>2. HashInv /\ [Next]_vars => HashInv'
  BY HashNext, ImageStep
<1>3. HashInv => DigestOfMessage
  BY DEF HashInv, DigestOfMessage, H!DigestOfMessage
<1> QED
  BY <1>1, <1>2, <1>3, PTL DEF Spec

----------------------------------------------------------------------------
(* UART and DMA: a channel runs only while main waits for it, and a flag    *)
(* that ends the wait comes from a channel that has stopped.                *)

Channel == [en : BOOLEAN, tcf : BOOLEAN, todo : Int, failed : BOOLEAN]

Awaited == [c \in L!Channels |-> CASE c = "tx" -> "tx" [] c = "rx" -> "rx" [] c = "mem" -> "memWait"]

ChannelsAwaited ==
  /\ chan \in [L!Channels -> Channel]
  /\ \A c \in L!Channels : chan[c].en => lpc = Awaited[c] /\ ~chan[c].tcf /\ ~chan[c].failed
  /\ tcFlag => ~chan["mem"].en

EchoInv ==
  /\ rxneie => callback
  /\ lpc = "enabled"  => callback
  /\ lpc = "disabled" => ~rxneie
  /\ lhpc = "take" => callback

LinkInv == left \in Int /\ ~garbled /\ ChannelsAwaited /\ EchoInv

LEMMA Awaits == Awaited["tx"] = "tx" /\ Awaited["rx"] = "rx" /\ Awaited["mem"] = "memWait"
BY DEF Awaited, L!Channels

LEMMA ChannelUpdate ==
  ASSUME NEW f \in [L!Channels -> Channel], NEW c \in L!Channels, NEW r \in Channel
  PROVE  /\ [f EXCEPT ![c] = r] \in [L!Channels -> Channel]
         /\ [f EXCEPT ![c] = r][c] = r
         /\ \A d \in L!Channels \ {c} : [f EXCEPT ![c] = r][d] = f[d]
OBVIOUS

(* What the updates of a channel leave in it, and in the others.            *)
LEMMA ChannelUpdates ==
  ASSUME NEW c \in L!Channels, NEW n \in Int, chan \in [L!Channels -> Channel]
  PROVE  /\ L!Moved(c) \in [L!Channels -> Channel]
         /\ L!Moved(c)[c].en  = (chan[c].todo > 1)
         /\ L!Moved(c)[c].tcf = (chan[c].todo = 1)
         /\ L!Moved(c)[c].failed = chan[c].failed
         /\ L!DMA_Start(c, n) \in [L!Channels -> Channel]
         /\ ~L!DMA_Start(c, n)[c].tcf /\ ~L!DMA_Start(c, n)[c].failed
         /\ \A d \in L!Channels \ {c} : /\ L!Moved(c)[d] = chan[d]
                                        /\ L!DMA_Start(c, n)[d] = chan[d]
<1>1. /\ chan[c].todo - 1 \in Int /\ (chan[c].todo > 1) \in BOOLEAN
      /\ (chan[c].todo = 1) \in BOOLEAN
  BY DEF Channel
<1>2. L!Moved(c) = [chan EXCEPT ![c] = [en |-> chan[c].todo > 1, tcf |-> chan[c].todo = 1,
                                        todo |-> chan[c].todo - 1, failed |-> chan[c].failed]]
  BY DEF L!Moved
<1>3. [en |-> chan[c].todo > 1, tcf |-> chan[c].todo = 1,
       todo |-> chan[c].todo - 1, failed |-> chan[c].failed] \in Channel
  BY <1>1 DEF Channel
<1>4. [en |-> TRUE, tcf |-> FALSE, todo |-> n, failed |-> FALSE] \in Channel
  BY DEF Channel
<1>5. L!DMA_Start(c, n) = [chan EXCEPT ![c] = [en |-> TRUE, tcf |-> FALSE, todo |-> n, failed |-> FALSE]]
  BY DEF L!DMA_Start
<1>6. /\ L!Moved(c) \in [L!Channels -> Channel]
      /\ L!Moved(c)[c].en  = (chan[c].todo > 1)
      /\ L!Moved(c)[c].tcf = (chan[c].todo = 1)
      /\ L!Moved(c)[c].failed = chan[c].failed
      /\ \A d \in L!Channels \ {c} : L!Moved(c)[d] = chan[d]
  BY <1>2, <1>3, ChannelUpdate
<1>7. /\ L!DMA_Start(c, n) \in [L!Channels -> Channel]
      /\ ~L!DMA_Start(c, n)[c].tcf /\ ~L!DMA_Start(c, n)[c].failed
      /\ \A d \in L!Channels \ {c} : L!DMA_Start(c, n)[d] = chan[d]
  BY <1>4, <1>5, ChannelUpdate
<1> QED
  BY <1>6, <1>7

(* Nothing runs outside the waits, so main may go on from anywhere else.    *)
LEMMA ChannelsKept ==
  ASSUME ChannelsAwaited, UNCHANGED chan, tcFlag' => tcFlag,
         lpc' = lpc \/ \A c \in L!Channels : ~chan[c].en
  PROVE  ChannelsAwaited'
BY DEF ChannelsAwaited

(* Main at p waits for no channel but the one p is the wait of.             *)
LEMMA StillChannels ==
  ASSUME ChannelsAwaited
  PROVE  /\ lpc \notin {"tx", "rx", "memWait"} => \A c \in L!Channels : ~chan[c].en
         /\ \A c \in L!Channels : \A d \in L!Channels \ {c} : lpc = Awaited[c] => ~chan[d].en
<1>1. \A c \in L!Channels : Awaited[c] \in {"tx", "rx", "memWait"}
  BY Awaits DEF L!Channels
<1>2. \A c \in L!Channels : \A d \in L!Channels \ {c} : Awaited[c] # Awaited[d]
  BY Awaits DEF L!Channels
<1> QED
  BY <1>1, <1>2 DEF ChannelsAwaited

(* The steps of the line, the receiver's handler and the polled jobs.       *)
LEMMA LineSteps ==
  ASSUME LinkInv,
         \/ L!ByteArrives \/ L!ByteLeaves \/ L!EnterUart \/ L!Discard \/ L!Take
         \/ L!CallbackWrites \/ L!StartJob \/ L!WriteString \/ L!ReadChar \/ L!ReadEchoes
  PROVE  LinkInv'
<1>1. /\ UNCHANGED <<chan, tcFlag, rxneie, callback>>
      /\ lpc' = lpc \/ lpc \in {"idle", "write", "read", "readEcho", "readCR", "readLF"}
      /\ lpc' = lpc \/ lpc' \notin {"enabled", "disabled"}
  BY DEF L!ByteArrives, L!ByteLeaves, L!EnterUart, L!Discard, L!Take, L!CallbackWrites,
         L!StartJob, L!WriteString, L!ReadChar, L!ReadEchoes, L!WriteTDR, L!Goto, L!Busy
<1>2. ChannelsAwaited'
  BY <1>1, ChannelsKept, StillChannels DEF LinkInv
<1>3. ~garbled'
  BY DEF LinkInv, L!ByteArrives, L!ByteLeaves, L!EnterUart, L!Discard, L!Take, L!CallbackWrites,
         L!StartJob, L!WriteString, L!ReadChar, L!ReadEchoes, L!WriteTDR
<1>4. left' \in Int
  <2>1. Line \in Int /\ Block \in Int /\ left \in Int
    BY DemoBounds DEF L!LinkBounds, LinkInv
  <2>2. left' \in {left, left - 1, Line, Block, 0}
    BY DEF L!ByteArrives, L!ByteLeaves, L!EnterUart, L!Discard, L!Take, L!CallbackWrites,
           L!StartJob, L!WriteString, L!ReadChar, L!ReadEchoes, L!Goto
  <2> QED
    BY <2>1, <2>2
<1>5. lhpc' = "take" => lhpc = "take" \/ rxneie
  BY DEF L!ByteArrives, L!ByteLeaves, L!EnterUart, L!Discard, L!Take, L!CallbackWrites,
         L!StartJob, L!WriteString, L!ReadChar, L!ReadEchoes
<1>6. EchoInv'
  BY <1>1, <1>5 DEF LinkInv, EchoInv
<1> QED
  BY <1>2, <1>3, <1>4, <1>6 DEF LinkInv

LEMMA MovesStep == ASSUME LinkInv, NEW c \in L!Channels, L!ChannelMoves(c) PROVE LinkInv'
<1>1. /\ chan[c].en /\ chan' = L!Moved(c)
      /\ UNCHANGED <<left, rxneie, callback, tcFlag, lpc, lhpc>>
  BY DEF L!ChannelMoves
<1>2. ~garbled'
  BY DEF LinkInv, L!ChannelMoves, L!WriteTDR
<1>3. /\ chan' \in [L!Channels -> Channel]
      /\ chan'[c].en => ~chan'[c].tcf
      /\ chan'[c].failed = chan[c].failed
      /\ \A d \in L!Channels \ {c} : chan'[d] = chan[d]
  <2>1. chan \in [L!Channels -> Channel] /\ 0 \in Int
    BY DEF LinkInv, ChannelsAwaited
  <2>2. /\ L!Moved(c) \in [L!Channels -> Channel]
        /\ L!Moved(c)[c].en  = (chan[c].todo > 1)
        /\ L!Moved(c)[c].tcf = (chan[c].todo = 1)
        /\ L!Moved(c)[c].failed = chan[c].failed
        /\ \A d \in L!Channels \ {c} : L!Moved(c)[d] = chan[d]
    BY <2>1, ChannelUpdates
  <2>3. (chan[c].todo > 1) => ~(chan[c].todo = 1)
    OBVIOUS
  <2> QED
    BY <1>1, <2>2, <2>3, Zenon
<1>4. ChannelsAwaited'
  <2>1. \A d \in L!Channels : chan'[d].en => lpc' = Awaited[d] /\ ~chan'[d].tcf /\ ~chan'[d].failed
    BY <1>1, <1>3 DEF LinkInv, ChannelsAwaited
  <2>2. tcFlag' => ~chan'["mem"].en
    <3>1. CASE c = "mem"
      BY <1>1, <3>1 DEF LinkInv, ChannelsAwaited
    <3>2. CASE c # "mem"
      BY <1>1, <1>3, <3>2 DEF LinkInv, ChannelsAwaited, L!Channels
    <3> QED
      BY <3>1, <3>2
  <2> QED
    BY <1>3, <2>1, <2>2 DEF ChannelsAwaited
<1> QED
  BY <1>1, <1>2, <1>4 DEF LinkInv, EchoInv

(* A channel that stops, by an error or because its flag is taken.          *)
LEMMA StopSteps == ASSUME LinkInv, L!ChannelFails \/ L!TransferComplete PROVE LinkInv'
<1>1. UNCHANGED <<left, garbled, rxneie, callback, lpc, lhpc>>
  BY DEF L!ChannelFails, L!TransferComplete
<1>2. chan \in [L!Channels -> Channel] /\ "mem" \in L!Channels
  BY DEF LinkInv, ChannelsAwaited, L!Channels
<1>3. PICK r \in Channel : chan' = [chan EXCEPT !["mem"] = r] /\ ~r.en
  <2>1. CASE L!ChannelFails
    <3>1. [[chan["mem"] EXCEPT !.en = FALSE] EXCEPT !.failed = TRUE] \in Channel
      BY <1>2 DEF Channel
    <3>2. [[chan["mem"] EXCEPT !.en = FALSE] EXCEPT !.failed = TRUE].en = FALSE
      BY <1>2 DEF Channel
    <3>3. chan' = [chan EXCEPT !["mem"] = [[chan["mem"] EXCEPT !.en = FALSE] EXCEPT !.failed = TRUE]]
      BY <1>2, <2>1 DEF L!ChannelFails
    <3> QED
      BY <3>1, <3>2, <3>3
  <2>2. CASE L!TransferComplete
    <3>1. chan["mem"].tcf /\ ~chan["mem"].en
      BY <1>2, <2>2 DEF L!TransferComplete, LinkInv, ChannelsAwaited
    <3>2. [chan["mem"] EXCEPT !.tcf = FALSE] \in Channel
      BY <1>2 DEF Channel
    <3>3. ~[chan["mem"] EXCEPT !.tcf = FALSE].en
      BY <1>2, <3>1 DEF Channel
    <3>4. chan' = [chan EXCEPT !["mem"] = [chan["mem"] EXCEPT !.tcf = FALSE]]
      BY <2>2 DEF L!TransferComplete
    <3> QED
      BY <3>2, <3>3, <3>4
  <2> QED
    BY <2>1, <2>2
<1>4. /\ chan' \in [L!Channels -> Channel] /\ ~chan'["mem"].en
      /\ \A d \in L!Channels \ {"mem"} : chan'[d] = chan[d]
  BY <1>2, <1>3, ChannelUpdate
<1>5. ChannelsAwaited'
  BY <1>1, <1>4 DEF LinkInv, ChannelsAwaited
<1> QED
  BY <1>1, <1>5 DEF LinkInv, EchoInv

(* A transfer starts in a channel that is still, and main goes to its wait. *)
LEMMA ChannelStarted ==
  ASSUME ChannelsAwaited, \A d \in L!Channels : ~chan[d].en,
         NEW c \in L!Channels, NEW n \in Int, chan' = L!DMA_Start(c, n),
         lpc' = Awaited[c], c = "mem" => ~tcFlag'
  PROVE  ChannelsAwaited'
<1>1. /\ chan' \in [L!Channels -> Channel]
      /\ ~chan'[c].tcf /\ ~chan'[c].failed
      /\ \A d \in L!Channels \ {c} : chan'[d] = chan[d]
  <2>1. chan \in [L!Channels -> Channel]
    BY DEF ChannelsAwaited
  <2> QED
    BY <2>1, ChannelUpdates
<1>2. \A d \in L!Channels : chan'[d].en => lpc' = Awaited[d] /\ ~chan'[d].tcf /\ ~chan'[d].failed
  BY <1>1
<1>3. tcFlag' => ~chan'["mem"].en
  BY <1>1 DEF L!Channels
<1> QED
  BY <1>1, <1>2, <1>3 DEF ChannelsAwaited

LEMMA TransferStarts ==
  ASSUME LinkInv, L!StartDMA("txdma", "tx") \/ L!StartDMA("rxdma", "rx") \/ L!StartMem
  PROVE  LinkInv'
<1>1. /\ UNCHANGED <<garbled, rxneie, callback, lhpc>> /\ left' = 0
      /\ lpc \in {"txdma", "rxdma", "memStart"} /\ lpc' \in {"tx", "rx", "memWait"}
  BY DEF L!StartDMA, L!StartMem, L!Busy, L!Goto
<1>2. \A d \in L!Channels : ~chan[d].en
  BY <1>1, StillChannels DEF LinkInv
<1>3. Block \in Int /\ left \in Int /\ ChannelsAwaited
  BY DemoBounds DEF L!LinkBounds, LinkInv
<1>4. "tx" \in L!Channels /\ "rx" \in L!Channels /\ "mem" \in L!Channels
  BY DEF L!Channels
<1>5. ChannelsAwaited'
  <2>1. CASE L!StartDMA("txdma", "tx")
    <3>1. chan' = L!DMA_Start("tx", Block) /\ lpc' = Awaited["tx"]
      BY <2>1, Awaits DEF L!StartDMA, L!Goto
    <3> QED
      BY <3>1, <1>2, <1>3, <1>4, ChannelStarted
  <2>2. CASE L!StartDMA("rxdma", "rx")
    <3>1. chan' = L!DMA_Start("rx", Block) /\ lpc' = Awaited["rx"]
      BY <2>2, Awaits DEF L!StartDMA, L!Goto
    <3> QED
      BY <3>1, <1>2, <1>3, <1>4, ChannelStarted
  <2>3. CASE L!StartMem
    <3>1. chan' = L!DMA_Start("mem", left) /\ lpc' = Awaited["mem"] /\ ~tcFlag'
      BY <2>3, Awaits DEF L!StartMem, L!Goto
    <3> QED
      BY <3>1, <1>2, <1>3, <1>4, ChannelStarted
  <2> QED
    BY <2>1, <2>2, <2>3
<1>6. EchoInv'
  BY <1>1 DEF LinkInv, EchoInv
<1> QED
  BY <1>1, <1>5, <1>6 DEF LinkInv

(* DMA_Init finds the channel still and resets it.                          *)
LEMMA InitStep == ASSUME LinkInv, L!InitMem PROVE LinkInv'
<1>1. /\ UNCHANGED <<garbled, rxneie, callback, lhpc, left>> /\ ~tcFlag'
      /\ lpc \in {"mem", "memIrq"} /\ lpc' = "memStart" /\ chan' = L!DMA_Init("mem")
  BY DEF L!InitMem, L!Goto
<1>2. \A d \in L!Channels : ~chan[d].en
  BY <1>1, StillChannels DEF LinkInv
<1>3. "mem" \in L!Channels /\ L!Quiet \in Channel /\ ~L!Quiet.en
      /\ chan \in [L!Channels -> Channel]
  BY DEF L!Channels, L!Quiet, Channel, LinkInv, ChannelsAwaited
<1>4. chan' = [chan EXCEPT !["mem"] = L!Quiet]
  BY <1>1, <1>2, <1>3 DEF L!DMA_Init
<1>5. /\ chan' \in [L!Channels -> Channel] /\ \A d \in L!Channels : ~chan'[d].en
  BY <1>2, <1>3, <1>4, ChannelUpdate
<1>6. ChannelsAwaited'
  BY <1>1, <1>3, <1>5 DEF ChannelsAwaited
<1> QED
  BY <1>1, <1>6 DEF LinkInv, EchoInv

(* The wait ends on a flag, and the channel that raised it has stopped.     *)
LEMMA EndSteps ==
  ASSUME LinkInv, L!DMAComplete("tx") \/ L!DMAComplete("rx") \/ L!MemEnds
  PROVE  LinkInv'
<1>1. /\ UNCHANGED <<garbled, rxneie, callback, lhpc, chan, tcFlag>> /\ left' = 0
      /\ lpc \in {"tx", "rx", "memWait"} /\ lpc' = "idle"
  BY DEF L!DMAComplete, L!MemEnds, L!Busy, L!Goto
<1>2. ChannelsAwaited /\ "tx" \in L!Channels /\ "rx" \in L!Channels /\ "mem" \in L!Channels
  BY DEF LinkInv, L!Channels
<1>3. PICK c \in L!Channels : lpc = Awaited[c] /\ ~chan[c].en
  <2>1. CASE L!DMAComplete("tx")
    <3>1. lpc = Awaited["tx"] /\ chan["tx"].tcf
      BY <2>1, Awaits DEF L!DMAComplete, L!Busy
    <3> QED
      BY <1>2, <3>1 DEF ChannelsAwaited
  <2>2. CASE L!DMAComplete("rx")
    <3>1. lpc = Awaited["rx"] /\ chan["rx"].tcf
      BY <2>2, Awaits DEF L!DMAComplete, L!Busy
    <3> QED
      BY <1>2, <3>1 DEF ChannelsAwaited
  <2>3. CASE L!MemEnds
    <3>1. lpc = Awaited["mem"] /\ (tcFlag \/ chan["mem"].tcf \/ chan["mem"].failed)
      BY <2>3, Awaits DEF L!MemEnds, L!Busy
    <3> QED
      BY <1>2, <3>1 DEF ChannelsAwaited
  <2> QED
    BY <2>1, <2>2, <2>3
<1>4. \A d \in L!Channels : ~chan[d].en
  BY <1>2, <1>3, StillChannels
<1>5. ChannelsAwaited'
  BY <1>1, <1>2, <1>4, ChannelsKept
<1> QED
  BY <1>1, <1>5 DEF LinkInv, EchoInv

LEMMA InterruptSteps ==
  ASSUME LinkInv, L!EnableRXInterrupt \/ L!DisableRXInterrupt PROVE LinkInv'
<1>1. /\ UNCHANGED <<garbled, lhpc, chan, tcFlag>> /\ lhpc = "idle" /\ left' = 0
      /\ lpc \in {"enable", "enabled", "disable", "disabled"}
  BY DEF L!EnableRXInterrupt, L!DisableRXInterrupt, L!Busy, L!Goto
<1>2. ChannelsAwaited'
  BY <1>1, ChannelsKept, StillChannels DEF LinkInv
<1>3. EchoInv'
  <2>1. CASE lpc = "enable"
    BY <1>1, <2>1 DEF LinkInv, EchoInv, L!EnableRXInterrupt, L!DisableRXInterrupt, L!Goto
  <2>2. CASE lpc = "enabled"
    BY <1>1, <2>2 DEF LinkInv, EchoInv, L!EnableRXInterrupt, L!DisableRXInterrupt, L!Goto
  <2>3. CASE lpc = "disable"
    BY <1>1, <2>3 DEF LinkInv, EchoInv, L!EnableRXInterrupt, L!DisableRXInterrupt, L!Goto
  <2>4. CASE lpc = "disabled"
    BY <1>1, <2>4 DEF LinkInv, EchoInv, L!EnableRXInterrupt, L!DisableRXInterrupt, L!Goto
  <2> QED
    BY <1>1, <2>1, <2>2, <2>3, <2>4
<1> QED
  BY <1>1, <1>2, <1>3 DEF LinkInv

LEMMA LinkNext == ASSUME LinkInv, [L!Next]_link PROVE LinkInv'
<1>1. CASE UNCHANGED link
  <2>1. UNCHANGED <<left, garbled, chan, tcFlag, lpc, rxneie, callback, lhpc>>
    BY <1>1 DEF link
  <2>2. ChannelsAwaited' /\ EchoInv'
    BY <2>1, ChannelsKept DEF LinkInv, EchoInv
  <2> QED
    BY <2>1, <2>2 DEF LinkInv
<1>2. CASE L!Handler \/ L!Main
  BY <1>2, LineSteps, StopSteps, TransferStarts, InitStep, EndSteps, InterruptSteps
  DEF L!Handler, L!Main
<1>3. CASE L!Next /\ ~(L!Handler \/ L!Main)
  BY <1>3, LineSteps, StopSteps, MovesStep DEF L!Next
<1> QED
  BY <1>1, <1>2, <1>3

(* No byte on its way out is written over, no channel runs between jobs and *)
(* no byte is taken without a callback: for strings and blocks of every     *)
(* length and any number of bytes typed.                                    *)
THEOREM LinkStaysClean == Spec => []LinkIsClean
<1>1. Init => LinkInv
  <2> SUFFICES ASSUME Init PROVE LinkInv
    OBVIOUS
  <2>1. /\ ~garbled /\ ~rxneie /\ ~tcFlag /\ left = 0 /\ lpc = "idle" /\ lhpc = "idle"
        /\ chan = [c \in L!Channels |-> L!Quiet]
    BY DEF Init, L!Init
  <2>2. L!Quiet \in Channel /\ ~L!Quiet.en
    BY DEF L!Quiet, Channel
  <2>3. ChannelsAwaited
    BY <2>1, <2>2 DEF ChannelsAwaited, L!Channels
  <2> QED
    BY <2>1, <2>3 DEF LinkInv, EchoInv
<1>2. LinkInv /\ [Next]_vars => LinkInv'
  BY LinkNext, ImageStep
<1>3. LinkInv => LinkIsClean
  <2> SUFFICES ASSUME LinkInv PROVE LinkIsClean
    OBVIOUS
  <2>1. L!QuietWhenIdle
    BY StillChannels DEF LinkInv, L!QuietWhenIdle
  <2> QED
    BY <2>1 DEF LinkInv, EchoInv, LinkIsClean, L!NothingGarbled, L!EchoDelivers
<1> QED
  BY <1>1, <1>2, <1>3, PTL DEF Spec

----------------------------------------------------------------------------
(* CRC: the register of the unit is the mirror image of the variable of the *)
(* software loops.                                                          *)

CrcInv == dr \subseteq C!Word /\ crc = C!Mirror(dr)

LEMMA MirrorBits ==
  ASSUME NEW a \in SUBSET C!Word
  PROVE  /\ C!Mirror(a) \subseteq C!Word
         /\ \A j \in C!Word : j \in C!Mirror(a) <=> 31 - j \in a
BY DEF C!Mirror, C!Word

LEMMA MirrorXor ==
  ASSUME NEW a \in SUBSET C!Word, NEW b \in SUBSET C!Word
  PROVE  C!Xor(a, b) \subseteq C!Word /\ C!Mirror(C!Xor(a, b)) = C!Xor(C!Mirror(a), C!Mirror(b))
<1>1. C!Xor(a, b) \in SUBSET C!Word
  BY DEF C!Xor
<1>2. \A j \in C!Word : j \in C!Mirror(C!Xor(a, b)) <=> j \in C!Xor(C!Mirror(a), C!Mirror(b))
  <2> SUFFICES ASSUME NEW j \in C!Word
               PROVE  j \in C!Mirror(C!Xor(a, b)) <=> j \in C!Xor(C!Mirror(a), C!Mirror(b))
    OBVIOUS
  <2>1. j \in C!Mirror(C!Xor(a, b)) <=> 31 - j \in C!Xor(a, b)
    BY <1>1, MirrorBits
  <2>2. (j \in C!Mirror(a) <=> 31 - j \in a) /\ (j \in C!Mirror(b) <=> 31 - j \in b)
    BY MirrorBits
  <2> QED
    BY <2>1, <2>2 DEF C!Xor
<1>3. C!Mirror(C!Xor(a, b)) \subseteq C!Word /\ C!Xor(C!Mirror(a), C!Mirror(b)) \subseteq C!Word
  BY <1>1, MirrorBits DEF C!Xor
<1> QED
  BY <1>1, <1>2, <1>3

(* The two polynomials are one: 0x04C11DB7 mirrored is 0xEDB88320.          *)
LEMMA MirrorPolynomial == C!POL \subseteq C!Word /\ C!Mirror(C!POL) = C!Polynomial
<1>1. C!POL \in SUBSET C!Word /\ C!Polynomial \subseteq C!Word
  BY DEF C!POL, C!Polynomial, C!Word
<1>2. \A j \in C!Word : 31 - j \in C!POL <=> j \in C!Polynomial
  BY DEF C!POL, C!Polynomial, C!Word
<1> QED
  BY <1>1, <1>2, MirrorBits

(* A step of the loop, which shifts down, mirrors one of the unit.          *)
LEMMA MirrorShift ==
  ASSUME NEW a \in SUBSET C!Word
  PROVE  C!ShiftUp(a) \in SUBSET C!Word /\ C!Mirror(C!ShiftUp(a)) = C!ShiftDown(C!Mirror(a))
<1> DEFINE m == C!Mirror(a)
           up == {b + 1 : b \in a \ {31}}
           down == {b - 1 : b \in m \ {0}}
<1>1. m \subseteq C!Word /\ \A j \in C!Word : j \in m <=> 31 - j \in a
  BY MirrorBits
<1>2. 31 \in a <=> 0 \in m
  BY <1>1 DEF C!Word
<1>3. up \in SUBSET C!Word /\ down \in SUBSET C!Word
  BY <1>1 DEF C!Word
<1>4. \A j \in C!Word : 31 - j \in up <=> j \in down
  <2> SUFFICES ASSUME NEW j \in C!Word PROVE 31 - j \in up <=> j \in down
    OBVIOUS
  <2>1. 31 - j \in up <=> j # 31 /\ 30 - j \in a
    BY DEF C!Word
  <2>2. j \in down <=> j # 31 /\ j + 1 \in m
    BY <1>1 DEF C!Word
  <2>3. j # 31 => (j + 1 \in m <=> 30 - j \in a)
    <3> SUFFICES ASSUME j # 31 PROVE j + 1 \in m <=> 30 - j \in a
      OBVIOUS
    <3>1. j + 1 \in C!Word /\ 31 - (j + 1) = 30 - j
      BY DEF C!Word
    <3> QED
      BY <1>1, <3>1
  <2> QED
    BY <2>1, <2>2, <2>3
<1>5. C!Mirror(up) = down
  BY <1>3, <1>4, MirrorBits
<1>6. C!ShiftUp(a) = IF 31 \in a THEN C!Xor(up, C!POL) ELSE up
  BY DEF C!ShiftUp
<1>7. C!ShiftDown(m) = IF 0 \in m THEN C!Xor(down, C!Polynomial) ELSE down
  BY DEF C!ShiftDown
<1> HIDE DEF m, up, down
<1>8. C!Xor(up, C!POL) \subseteq C!Word /\ C!Mirror(C!Xor(up, C!POL)) = C!Xor(down, C!Polynomial)
  BY <1>3, <1>5, MirrorXor, MirrorPolynomial
<1> QED
  BY <1>2, <1>3, <1>5, <1>6, <1>7, <1>8 DEF m

LEMMA MirrorEight ==
  ASSUME NEW a \in SUBSET C!Word
  PROVE  /\ C!Eight(C!ShiftUp, a) \subseteq C!Word
         /\ C!Mirror(C!Eight(C!ShiftUp, a)) = C!Eight(C!ShiftDown, C!Mirror(a))
<1> DEFINE u1 == C!ShiftUp(a)   d1 == C!ShiftDown(C!Mirror(a))
           u2 == C!ShiftUp(u1)  d2 == C!ShiftDown(d1)
           u3 == C!ShiftUp(u2)  d3 == C!ShiftDown(d2)
           u4 == C!ShiftUp(u3)  d4 == C!ShiftDown(d3)
           u5 == C!ShiftUp(u4)  d5 == C!ShiftDown(d4)
           u6 == C!ShiftUp(u5)  d6 == C!ShiftDown(d5)
           u7 == C!ShiftUp(u6)  d7 == C!ShiftDown(d6)
           u8 == C!ShiftUp(u7)  d8 == C!ShiftDown(d7)
<1>1. C!Eight(C!ShiftUp, a) = u8 /\ C!Eight(C!ShiftDown, C!Mirror(a)) = d8
  BY DEF C!Eight
<1> HIDE DEF u1, u2, u3, u4, u5, u6, u7, u8, d1, d2, d3, d4, d5, d6, d7, d8
<1>2. u1 \in SUBSET C!Word /\ C!Mirror(u1) = d1
  BY MirrorShift DEF u1, d1
<1>3. u2 \in SUBSET C!Word /\ C!Mirror(u2) = d2
  BY <1>2, MirrorShift DEF u2, d2
<1>4. u3 \in SUBSET C!Word /\ C!Mirror(u3) = d3
  BY <1>3, MirrorShift DEF u3, d3
<1>5. u4 \in SUBSET C!Word /\ C!Mirror(u4) = d4
  BY <1>4, MirrorShift DEF u4, d4
<1>6. u5 \in SUBSET C!Word /\ C!Mirror(u5) = d5
  BY <1>5, MirrorShift DEF u5, d5
<1>7. u6 \in SUBSET C!Word /\ C!Mirror(u6) = d6
  BY <1>6, MirrorShift DEF u6, d6
<1>8. u7 \in SUBSET C!Word /\ C!Mirror(u7) = d7
  BY <1>7, MirrorShift DEF u7, d7
<1>9. u8 \in SUBSET C!Word /\ C!Mirror(u8) = d8
  BY <1>8, MirrorShift DEF u8, d8
<1> QED
  BY <1>1, <1>9

(* A byte enters the unit mirrored, at the top.                             *)
LEMMA MirrorByte ==
  ASSUME NEW a \in SUBSET C!Word, NEW byte
  PROVE  /\ C!WriteDR(a, byte) \subseteq C!Word
         /\ C!Mirror(C!WriteDR(a, byte)) = C!sw_crc32_update(C!Mirror(a), byte)
<1> DEFINE b == C!ByteSet(byte)
<1>1. b \in SUBSET C!Word
  BY DEF C!ByteSet, C!Word
<1>2. C!WriteDR(a, byte) = C!Eight(C!ShiftUp, C!Xor(a, C!Mirror(b)))
  BY DEF C!WriteDR
<1>3. C!sw_crc32_update(C!Mirror(a), byte) = C!Eight(C!ShiftDown, C!Xor(C!Mirror(a), b))
  BY DEF C!sw_crc32_update
<1> HIDE DEF b
<1>4. C!Mirror(b) \in SUBSET C!Word /\ C!Mirror(C!Mirror(b)) = b
  <2>1. C!Mirror(b) \in SUBSET C!Word
    BY <1>1, MirrorBits
  <2>2. \A j \in C!Word : 31 - j \in C!Mirror(b) <=> j \in b
    <3> SUFFICES ASSUME NEW j \in C!Word PROVE 31 - j \in C!Mirror(b) <=> j \in b
      OBVIOUS
    <3>1. 31 - j \in C!Word /\ 31 - (31 - j) = j
      BY DEF C!Word
    <3> QED
      BY <1>1, <3>1, MirrorBits
  <2> QED
    BY <1>1, <2>1, <2>2, MirrorBits
<1>5. /\ C!Xor(a, C!Mirror(b)) \in SUBSET C!Word
      /\ C!Mirror(C!Xor(a, C!Mirror(b))) = C!Xor(C!Mirror(a), b)
  BY <1>4, MirrorXor
<1> QED
  BY <1>2, <1>3, <1>5, MirrorEight

(* The CRC unit and the software loops compute the same checksum of every   *)
(* message, of any length and of any bytes.                                 *)
THEOREM UnitAgreesWithLoop == Spec => []UnitIsLoop
<1>1. Init => CrcInv
  <2>1. \A j \in C!Word : 31 - j \in C!Word
    BY DEF C!Word
  <2>2. C!Mirror(C!Word) = C!Word
    BY <2>1, MirrorBits
  <2> QED
    BY <2>2 DEF Init, C!Init, CrcInv
<1>2. CrcInv /\ [Next]_vars => CrcInv'
  <2> SUFFICES ASSUME CrcInv, [Next]_vars PROVE CrcInv'
    OBVIOUS
  <2>1. CASE UNCHANGED sums
    <3>1. dr' = dr /\ crc' = crc
      BY <2>1 DEF sums
    <3>2. C!Mirror(dr)' = C!Mirror(dr)
      BY <3>1 DEF C!Mirror
    <3> QED
      BY <3>1, <3>2 DEF CrcInv
  <2>2. CASE C!Next
    <3>1. dr' = C!WriteDR(dr, cmsg[taken']) /\ crc' = C!sw_crc32_update(crc, cmsg[taken'])
      BY <2>2 DEF C!Next, C!TakeByte
    <3>2. dr' \subseteq C!Word /\ C!Mirror(dr') = crc'
      BY <3>1, MirrorByte DEF CrcInv
    <3>3. C!Mirror(dr)' = C!Mirror(dr')
      BY DEF C!Mirror
    <3>4. C!Word' = C!Word
      BY DEF C!Word
    <3> QED
      BY <3>2, <3>3, <3>4 DEF CrcInv
  <2> QED
    BY <2>1, <2>2, ImageStep
<1>3. CrcInv => UnitIsLoop
  BY DEF CrcInv, UnitIsLoop, C!UnitIsLoop, C!Result
<1> QED
  BY <1>1, <1>2, <1>3, PTL DEF Spec

----------------------------------------------------------------------------
(* AES: when a block is read the peripheral has computed it from the input  *)
(* block of the same number, under the chaining value of that number.       *)

Job == [chmod : {"ECB", "CBC", "CTR"}, size : {128, 256}, decrypt : BOOLEAN]

IsSeq(s) == s \in Seq({s[b] : b \in DOMAIN s})

Inverting == job.decrypt /\ job.chmod # "CTR"

InBlock(b)  == IF job.decrypt THEN A!CipherBlock(in, job.chmod, job.size, b) ELSE A!Plain[b]
OutBlock(b) == IF job.decrypt THEN A!Plain[b] ELSE A!CipherBlock(out, job.chmod, job.size, b)

(* The chaining value that block b needs.                                   *)
Chained(b) ==
  CASE job.chmod = "ECB" -> TRUE
    [] job.chmod = "CBC" -> iv = A!Previous(IF job.decrypt THEN in ELSE out, b)
    [] job.chmod = "CTR" -> iv = A!Counter(b - 1)

InWork == Len(out) + 1   \* the number of the block in work

(* The chaining value that the block after the one in work needs.           *)
ChainedOn ==
  CASE job.chmod = "ECB" -> TRUE
    [] job.chmod = "CBC" -> iv = IF job.decrypt THEN in[InWork] ELSE data
    [] job.chmod = "CTR" -> iv = A!Counter(InWork)

BuffersRight ==
  /\ \A b \in 1..Blocks : in[b] = InBlock(b)
  /\ Len(out) <= Blocks /\ \A b \in 1..Len(out) : out[b] = OutBlock(b)

Configured ==
  /\ cr.en /\ cr.chmod = job.chmod /\ key = job.size
  /\ cr.mode = IF Inverting THEN "DECRYPT" ELSE "ENCRYPT"
  /\ Inverting => derived

Deriving ==
  /\ key = job.size /\ cr.mode = "KEYDER"
  /\ \/ phase = "compute" /\ ~ccf
     \/ phase = "input" /\ ccf /\ derived

(* The next block's result; before it is computed, its input.               *)
Computed == phase = "output" /\ data = OutBlock(InWork) /\ ChainedOn
Computing ==
  \/ phase = "compute" /\ ~ccf /\ data = in[InWork] /\ Chained(InWork)
  \/ ccf /\ Computed

AesTypeOK ==
  /\ job \in Job
  /\ IsSeq(out)
  /\ apc \in {"idle", "init", "derive", "enable", "process", "write", "wait", "read"}

AesInv ==
  /\ AesTypeOK
  /\ apc = "idle" => A!CipherIsRight
  /\ apc # "idle" => result = "busy" /\ BuffersRight
  /\ apc \in {"init", "derive", "enable"} => out = <<>>
  /\ apc = "derive" => Inverting /\ Deriving
  /\ apc = "enable" => Inverting /\ phase = "input" /\ ~ccf /\ key = job.size /\ derived
  /\ apc \in {"process", "write"} => Configured /\ phase = "input" /\ ~ccf /\ Chained(InWork)
  /\ apc = "wait" => Configured /\ Computing
  /\ apc = "read" => Configured /\ ~ccf /\ Computed
  /\ apc \in {"write", "wait", "read"} => chunk \in Nat \ {0} /\ Len(out) + chunk <= Blocks

LEMMA XorTwice == ASSUME NEW a, NEW b PROVE A!Xor(A!Xor(a, b), b) = a
BY DEF A!Xor

LEMMA Deciphers == ASSUME NEW q, NEW b PROVE A!Dec(q, A!Enc(q, b)) = b
<1> DEFINE x == <<"E", q, b>>
<1>1. x[1] = "E" /\ x[2] = q /\ x[3] = b
  OBVIOUS
<1> HIDE DEF x
<1>2. A!Enc(q, b) = {x}
  BY DEF A!Enc, x
<1>3. (CHOOSE a \in {x} : TRUE) = x
  OBVIOUS
<1>4. \E a \in {x} : {x} = {a} /\ a[1] = "E" /\ a[2] = q
  BY <1>1
<1> QED
  BY <1>1, <1>2, <1>3, <1>4 DEF A!Dec

LEMMA CountsUp == ASSUME NEW n \in Nat PROVE A!CountUp(A!Counter(n)) = A!Counter(n + 1)
<1> DEFINE x == <<"iv", n, {}>>
<1>1. x[2] = n
  OBVIOUS
<1> HIDE DEF x
<1>2. A!Counter(n) = {x}
  BY DEF A!Counter, x
<1>3. (CHOOSE a \in {x} : TRUE) = x
  OBVIOUS
<1> QED
  BY <1>1, <1>2, <1>3 DEF A!CountUp

LEMMA Appended ==
  ASSUME NEW s, IsSeq(s), NEW e
  PROVE  /\ IsSeq(Append(s, e)) /\ Len(s) \in Nat /\ Len(Append(s, e)) = Len(s) + 1
         /\ \A b \in 1..Len(s) : Append(s, e)[b] = s[b]
         /\ Append(s, e)[Len(s) + 1] = e
<1> DEFINE S == {s[b] : b \in DOMAIN s} \cup {e}
<1>1. s \in Seq({s[b] : b \in DOMAIN s})
  BY DEF IsSeq
<1>2. s \in Seq(S) /\ e \in S /\ Len(s) \in Nat
  BY <1>1
<1> HIDE DEF S
<1>3. /\ Append(s, e) \in Seq(S) /\ Len(Append(s, e)) = Len(s) + 1
      /\ \A b \in 1..Len(s) : Append(s, e)[b] = s[b]
      /\ Append(s, e)[Len(s) + 1] = e
  BY <1>2
<1> DEFINE t == Append(s, e)
<1> HIDE DEF t
<1>4. t \in Seq(S) => t \in Seq({t[b] : b \in DOMAIN t})
  OBVIOUS
<1>5. IsSeq(t)
  BY <1>3, <1>4 DEF IsSeq, t
<1> QED
  BY <1>2, <1>3, <1>5 DEF t

(* The peripheral computes the block that is due.                           *)
LEMMA BlockComputed ==
  ASSUME AesTypeOK, BuffersRight, Configured, InWork \in 1..Blocks,
         data = in[InWork], Chained(InWork)
  PROVE  A!Transform = OutBlock(InWork)
<1>1. data = InBlock(InWork) /\ job \in Job
  BY DEF BuffersRight, AesTypeOK
<1>2. CASE Inverting
  <2>1. cr.mode = "DECRYPT" /\ derived /\ cr.chmod = job.chmod /\ key = job.size /\ job.decrypt
        /\ OutBlock(InWork) = A!Plain[InWork]
    BY <1>2 DEF Configured, Inverting, OutBlock
  <2>2. CASE job.chmod = "ECB"
    <3>1. data = A!Enc(key, A!Plain[InWork])
      BY <1>1, <2>1, <2>2 DEF InBlock, A!CipherBlock
    <3>2. A!Transform = A!Dec(key, data)
      BY <2>1, <2>2 DEF A!Transform
    <3> QED
      BY <2>1, <3>1, <3>2, Deciphers
  <2>3. CASE job.chmod = "CBC"
    <3>1. iv = A!Previous(in, InWork)
      BY <2>1, <2>3 DEF Chained
    <3>2. data = A!Enc(key, A!Xor(A!Plain[InWork], iv))
      BY <1>1, <2>1, <2>3, <3>1 DEF InBlock, A!CipherBlock
    <3>3. A!Transform = A!Xor(A!Dec(key, data), iv)
      BY <2>1, <2>3 DEF A!Transform
    <3> QED
      BY <2>1, <3>2, <3>3, Deciphers, XorTwice
  <2> QED
    BY <1>1, <1>2, <2>2, <2>3 DEF Inverting, Job
<1>3. CASE ~Inverting
  <2>1. cr.mode = "ENCRYPT" /\ cr.chmod = job.chmod /\ key = job.size
    BY <1>3 DEF Configured
  <2>2. CASE job.chmod = "ECB"
    <3>1. ~job.decrypt
      BY <1>1, <1>3, <2>2 DEF Inverting, Job
    <3> QED
      BY <1>1, <2>1, <2>2, <3>1 DEF A!Transform, InBlock, OutBlock, A!CipherBlock
  <2>3. CASE job.chmod = "CBC"
    <3>1. ~job.decrypt
      BY <1>1, <1>3, <2>3 DEF Inverting, Job
    <3>2. iv = A!Previous(out, InWork)
      BY <2>3, <3>1 DEF Chained
    <3> QED
      BY <1>1, <2>1, <2>3, <3>1, <3>2 DEF A!Transform, InBlock, OutBlock, A!CipherBlock
  <2>4. CASE job.chmod = "CTR"
    <3>1. iv = A!Counter(InWork - 1)
      BY <2>4 DEF Chained
    <3>2. A!Transform = A!Xor(data, A!Enc(key, iv))
      BY <2>1, <2>4 DEF A!Transform
    <3>3. CASE job.decrypt
      <4>1. data = A!Xor(A!Plain[InWork], A!Enc(key, iv))
        BY <1>1, <2>1, <2>4, <3>1, <3>3 DEF InBlock, A!CipherBlock
      <4> QED
        BY <3>2, <3>3, <4>1, XorTwice DEF OutBlock
    <3>4. CASE ~job.decrypt
      BY <1>1, <2>1, <2>4, <3>1, <3>2, <3>4 DEF InBlock, OutBlock, A!CipherBlock
    <3> QED
      BY <3>3, <3>4
  <2> QED
    BY <1>1, <2>2, <2>3, <2>4 DEF Job
<1> QED
  BY <1>2, <1>3

LEMMA BlocksBound == Blocks \in Nat \ {0}
BY DemoBounds DEF A!AesBounds

LEMMA OutLength == AesTypeOK => Len(out) \in Nat
BY Appended DEF AesTypeOK

(* The peripheral works: only on a block that main waits for, or on the     *)
(* key, does it matter what it computes.                                    *)
LEMMA ComputesStep == ASSUME AesInv, A!Computes PROVE AesInv'
<1>1. /\ UNCHANGED <<key, apc, job, in, out, chunk, result>> /\ ccf' /\ phase = "compute"
  BY DEF A!Computes
<1>2. AesTypeOK' /\ (apc = "idle" => A!CipherIsRight')
  <2>1. A!CipherIsRight' = A!CipherIsRight
    BY <1>1 DEF A!CipherIsRight, A!IsCiphertext, A!CipherBlock, A!Previous
  <2> QED
    BY <1>1, <2>1 DEF AesInv, AesTypeOK, IsSeq
<1>3. apc # "idle" => BuffersRight'
  BY <1>1 DEF AesInv, BuffersRight, InBlock, OutBlock, A!CipherBlock, A!Previous
<1>4. apc \notin {"enable", "process", "write", "read"}
  BY <1>1 DEF AesInv, Computed
<1>5. apc = "derive" => Inverting' /\ Deriving'
  <2> SUFFICES ASSUME apc = "derive" PROVE Inverting' /\ Deriving'
    OBVIOUS
  <2>1. Inverting' /\ key' = job'.size /\ cr.mode = "KEYDER"
    BY <1>1 DEF AesInv, Inverting, Deriving
  <2>2. derived' /\ phase' = "input" /\ cr' = [cr EXCEPT !.en = FALSE]
    BY <2>1 DEF A!Computes
  <2>3. cr'.mode = "KEYDER"
    BY <2>1, <2>2
  <2> QED
    BY <1>1, <2>1, <2>2, <2>3 DEF Deriving
<1>6. apc = "wait" => Configured' /\ Computing'
  <2> SUFFICES ASSUME apc = "wait" PROVE Configured' /\ Computing'
    OBVIOUS
  <2>1. /\ Configured /\ BuffersRight /\ AesTypeOK /\ data = in[InWork] /\ Chained(InWork)
        /\ InWork \in 1..Blocks
    <3>1. Computing /\ Configured /\ BuffersRight /\ AesTypeOK
          /\ chunk \in Nat \ {0} /\ Len(out) + chunk <= Blocks
      BY DEF AesInv
    <3>2. data = in[InWork] /\ Chained(InWork)
      BY <1>1, <3>1 DEF Computing, Computed
    <3>3. InWork \in 1..Blocks
      BY <3>1, OutLength, BlocksBound DEF InWork
    <3> QED
      BY <3>1, <3>2, <3>3
  <2>2. cr.mode \in {"ENCRYPT", "DECRYPT"} /\ cr.chmod = job.chmod
    BY <2>1 DEF Configured
  <2>3. /\ phase' = "output" /\ data' = A!Transform /\ UNCHANGED <<cr, derived>>
        /\ iv' = CASE cr.chmod = "ECB" -> iv
                   [] cr.chmod = "CTR" -> A!CountUp(iv)
                   [] OTHER -> IF cr.mode = "DECRYPT" THEN data ELSE data'
    BY <2>2 DEF A!Computes
  <2>4. Configured'
    BY <1>1, <2>1, <2>3 DEF Configured, Inverting
  <2>5. InWork' = InWork /\ OutBlock(InWork)' = OutBlock(InWork)
    BY <1>1 DEF InWork, OutBlock, A!CipherBlock, A!Previous
  <2>6. data' = OutBlock(InWork)
    BY <2>1, <2>3, BlockComputed
  <2>7. ChainedOn'
    <3>1. CASE job.chmod = "ECB"
      BY <1>1, <3>1 DEF ChainedOn
    <3>2. CASE job.chmod = "CBC"
      <4>1. iv' = IF cr.mode = "DECRYPT" THEN data ELSE data'
        BY <2>2, <2>3, <3>2
      <4>2. iv' = IF job.decrypt THEN in[InWork] ELSE data'
        BY <2>1, <3>2, <4>1 DEF Configured, Inverting
      <4> QED
        BY <1>1, <2>5, <3>2, <4>2 DEF ChainedOn
    <3>3. CASE job.chmod = "CTR"
      <4>1. iv = A!Counter(InWork - 1) /\ iv' = A!CountUp(iv)
        BY <2>1, <2>2, <2>3, <3>3 DEF Chained
      <4>2. InWork - 1 \in Nat /\ (InWork - 1) + 1 = InWork
        BY <2>1
      <4>3. iv' = A!Counter(InWork)
        BY <4>1, <4>2, CountsUp
      <4> QED
        BY <1>1, <2>5, <3>3, <4>3 DEF ChainedOn, A!Counter
    <3> QED
      BY <2>1, <3>1, <3>2, <3>3 DEF AesTypeOK, Job
  <2> QED
    BY <1>1, <2>3, <2>4, <2>5, <2>6, <2>7 DEF Computing, Computed
<1> QED
  BY <1>1, <1>2, <1>3, <1>4, <1>5, <1>6 DEF AesInv

(* A step after which the client or main is at rest or starts anew.         *)
LEMMA AesKept ==
  ASSUME AesInv,
         UNCHANGED <<cr, key, derived, iv, phase, data, ccf, apc, job, in, out, chunk, result>>
  PROVE  AesInv'
<1>1. AesTypeOK' = AesTypeOK /\ A!CipherIsRight' = A!CipherIsRight /\ Inverting' = Inverting
  BY DEF AesTypeOK, IsSeq, A!CipherIsRight, A!IsCiphertext, A!CipherBlock, A!Previous, Inverting
<1>2. BuffersRight' = BuffersRight
  BY DEF BuffersRight, InBlock, OutBlock, A!CipherBlock, A!Previous
<1>3. Deriving' = Deriving /\ Configured' = Configured /\ InWork' = InWork
  BY DEF Deriving, Configured, Inverting, InWork
<1>4. Chained(InWork)' = Chained(InWork) /\ ChainedOn' = ChainedOn
  BY <1>3 DEF Chained, ChainedOn, A!Previous, A!Counter
<1>5. OutBlock(InWork)' = OutBlock(InWork)
  BY <1>3 DEF OutBlock, A!CipherBlock, A!Previous
<1>6. Computed' = Computed
  BY <1>4, <1>5 DEF Computed
<1>7. Computing' = Computing
  BY <1>3, <1>4, <1>6 DEF Computing
<1> QED
  BY <1>1, <1>2, <1>3, <1>4, <1>6, <1>7 DEF AesInv

(* The buffers and the job stay; the call goes on.                          *)
LEMMA CallGoesOn ==
  ASSUME AesInv, UNCHANGED <<job, in, out>>, apc # "idle", result' = result,
         apc' \in {"init", "derive", "enable", "process", "write", "wait", "read"}
  PROVE  AesTypeOK' /\ result' = "busy" /\ BuffersRight' /\ InWork' = InWork /\ Inverting' = Inverting
<1>1. AesTypeOK' /\ result' = "busy"
  BY DEF AesInv, AesTypeOK, IsSeq
<1>2. BuffersRight'
  BY DEF AesInv, BuffersRight, InBlock, OutBlock, A!CipherBlock, A!Previous
<1> QED
  BY <1>1, <1>2 DEF InWork, Inverting

(* A call that ends in an error claims nothing of its buffer.               *)
LEMMA CallFails ==
  ASSUME AesInv, UNCHANGED <<job, in, out>>, apc' = "idle", result' = "ERROR"
  PROVE  AesInv'
<1>1. AesTypeOK' /\ A!CipherIsRight'
  BY DEF AesInv, AesTypeOK, IsSeq, A!CipherIsRight
<1> QED
  BY <1>1 DEF AesInv

(* The IV of a new message is the chaining value of its first block.        *)
LEMMA FirstChained ==
  ASSUME job' \in Job, out' = <<>>, iv' = A!IVOfJob, job' = job
  PROVE  Chained(InWork)'
<1>1. InWork' = 1
  BY DEF InWork
<1>2. job.chmod # "ECB" => iv' = A!Counter(0)
  BY DEF A!IVOfJob
<1>3. A!Counter(0)' = A!Counter(0) /\ 1 - 1 = 0
  BY DEF A!Counter
<1>4. job.chmod = "CBC" => iv' = A!Previous(IF job.decrypt THEN in ELSE out, 1)'
  BY <1>2, <1>3 DEF A!Previous
<1>5. CASE job.chmod = "ECB"
  BY <1>5 DEF Chained
<1>6. CASE job.chmod = "CBC"
  BY <1>1, <1>4, <1>6 DEF Chained, A!Previous
<1>7. CASE job.chmod = "CTR"
  BY <1>1, <1>2, <1>3, <1>7 DEF Chained
<1> QED
  BY <1>5, <1>6, <1>7 DEF Job

LEMMA AesInitSteps ==
  ASSUME AesInv, A!AES_Encrypt_Init \/ A!AES_Decrypt_Init PROVE AesInv'
<1>1. apc = "init" /\ UNCHANGED <<job, in, out, result>> /\ apc' \in {"process", "derive"}
      /\ out = <<>> /\ job \in Job
  BY DEF A!AES_Encrypt_Init, A!AES_Decrypt_Init, AesInv, AesTypeOK
<1>2. AesTypeOK' /\ result' = "busy" /\ BuffersRight' /\ Inverting' = Inverting
  BY <1>1, CallGoesOn
<1>3. CASE A!AES_Encrypt_Init
  <2>1. /\ cr' = [en |-> TRUE, mode |-> "ENCRYPT", chmod |-> job.chmod, size |-> job.size]
        /\ key' = job.size /\ iv' = A!IVOfJob /\ ~ccf' /\ phase' = "input"
        /\ apc' = "process" /\ ~Inverting
    BY <1>3 DEF A!AES_Encrypt_Init, A!Setup, Inverting
  <2>2. Configured'
    BY <1>1, <1>2, <2>1 DEF Configured
  <2>3. Chained(InWork)'
    BY <1>1, <2>1, FirstChained
  <2> QED
    BY <1>2, <2>1, <2>2, <2>3 DEF AesInv
<1>4. CASE A!AES_Decrypt_Init
  <2>1. /\ cr' = [en |-> TRUE, mode |-> "KEYDER", chmod |-> "ECB", size |-> job.size]
        /\ key' = job.size /\ ~ccf' /\ phase' = "compute" /\ apc' = "derive" /\ Inverting
    BY <1>4 DEF A!AES_Decrypt_Init, A!Setup, Inverting
  <2>2. Deriving'
    BY <1>1, <2>1 DEF Deriving
  <2> QED
    BY <1>1, <1>2, <2>1, <2>2 DEF AesInv
<1> QED
  BY <1>3, <1>4

LEMMA DeriveSteps == ASSUME AesInv, A!Derived \/ A!EnableDecryption PROVE AesInv'
<1>1. /\ UNCHANGED <<job, in, out>> /\ apc \in {"derive", "enable"} /\ out = <<>> /\ job \in Job
  BY DEF A!Derived, A!EnableDecryption, AesInv, AesTypeOK
<1>2. CASE A!Derived
  <2>1. apc = "derive" /\ UNCHANGED <<key, derived, phase>> /\ Inverting /\ Deriving
    BY <1>2 DEF A!Derived, AesInv
  <2>2. CASE apc' = "idle" /\ result' = "ERROR"
    BY <1>1, <2>2, CallFails
  <2>3. CASE ccf /\ ~ccf' /\ apc' = "enable" /\ result' = result
    <3>1. AesTypeOK' /\ result' = "busy" /\ BuffersRight' /\ Inverting' = Inverting
      BY <1>1, <2>1, <2>3, CallGoesOn
    <3>2. phase = "input" /\ derived /\ key = job.size
      BY <2>1, <2>3 DEF Deriving
    <3> QED
      BY <1>1, <2>1, <2>3, <3>1, <3>2 DEF AesInv
  <2> QED
    BY <1>2, <2>2, <2>3 DEF A!Derived, A!wait_ccf, A!Fails
<1>3. CASE A!EnableDecryption
  <2>1. /\ apc = "enable" /\ apc' = "process" /\ iv' = A!IVOfJob /\ result' = result
        /\ cr' = [en |-> TRUE, mode |-> "DECRYPT", chmod |-> job.chmod, size |-> job.size]
        /\ UNCHANGED <<key, derived, phase, ccf>>
        /\ Inverting /\ phase = "input" /\ ~ccf /\ key = job.size /\ derived
    BY <1>3 DEF A!EnableDecryption, AesInv
  <2>2. AesTypeOK' /\ result' = "busy" /\ BuffersRight' /\ Inverting' = Inverting
    BY <1>1, <2>1, CallGoesOn
  <2>3. Configured'
    BY <1>1, <2>1, <2>2 DEF Configured
  <2>4. Chained(InWork)'
    BY <1>1, <2>1, FirstChained
  <2> QED
    BY <2>1, <2>2, <2>3, <2>4 DEF AesInv
<1> QED
  BY <1>2, <1>3

(* What is done when every block is out is what was asked for.              *)
LEMMA AllBlocksOut ==
  ASSUME AesTypeOK, BuffersRight, Len(out) = Blocks
  PROVE  IF job.decrypt THEN out = A!Plain ELSE A!IsCiphertext(out, job.chmod, job.size)
<1>1. \A b \in 1..Blocks : out[b] = OutBlock(b)
  BY DEF BuffersRight
<1>2. CASE job.decrypt
  <2>1. \A b \in 1..Blocks : out[b] = A!Plain[b]
    BY <1>1, <1>2 DEF OutBlock
  <2>2. out = [b \in 1..Blocks |-> out[b]]
    BY DEF AesTypeOK, IsSeq
  <2>3. A!Plain = [b \in 1..Blocks |-> A!Plain[b]]
    BY DEF A!Plain
  <2> QED
    BY <1>2, <2>1, <2>2, <2>3
<1>3. CASE ~job.decrypt
  BY <1>1, <1>3 DEF OutBlock, A!IsCiphertext
<1> QED
  BY <1>2, <1>3

(* A step that leaves the peripheral as it is.                              *)
LEMMA ProcessStep == ASSUME AesInv, A!AES_Process PROVE AesInv'
<1>1. /\ apc = "process" /\ UNCHANGED <<cr, key, derived, iv, phase, data, ccf, job, in, out>>
      /\ AesTypeOK /\ BuffersRight /\ Configured /\ phase = "input" /\ ~ccf /\ Chained(InWork)
      /\ result = "busy"
  BY DEF A!AES_Process, A!peripheral, AesInv
<1>2. CASE Len(out) = Blocks
  <2>1. apc' = "idle"
    BY <1>2 DEF A!AES_Process
  <2>2. AesTypeOK'
    BY <1>1, <2>1 DEF AesTypeOK, IsSeq
  <2>3. IF job.decrypt THEN out = A!Plain ELSE A!IsCiphertext(out, job.chmod, job.size)
    BY <1>1, <1>2, AllBlocksOut
  <2>4. A!CipherIsRight'
    BY <1>1, <2>3 DEF A!CipherIsRight, A!IsCiphertext, A!CipherBlock, A!Previous
  <2> QED
    BY <2>1, <2>2, <2>4 DEF AesInv
<1>3. CASE Len(out) # Blocks
  <2>1. apc' = "write" /\ chunk' \in 1 .. Blocks - Len(out) /\ result' = result
    BY <1>3 DEF A!AES_Process
  <2>2. AesTypeOK' /\ result' = "busy" /\ BuffersRight' /\ InWork' = InWork /\ Inverting' = Inverting
    BY <1>1, <2>1, CallGoesOn
  <2>3. chunk' \in Nat \ {0} /\ Len(out)' + chunk' <= Blocks
    <3>1. Len(out) \in Nat /\ Blocks \in Nat /\ Len(out)' = Len(out)
      BY <1>1, OutLength, BlocksBound
    <3> QED
      BY <2>1, <3>1
  <2>4. Configured' /\ Chained(InWork)'
    BY <1>1, <2>2 DEF Configured, Chained, A!Previous, A!Counter
  <2> QED
    BY <1>1, <2>1, <2>2, <2>3, <2>4 DEF AesInv
<1> QED
  BY <1>2, <1>3

LEMMA WriteStep == ASSUME AesInv, A!write_block PROVE AesInv'
<1>1. /\ apc = "write" /\ apc' = "wait" /\ UNCHANGED <<cr, key, derived, iv, ccf, job, in, out, chunk, result>>
      /\ AesTypeOK /\ Configured /\ phase = "input" /\ ~ccf /\ Chained(InWork)
      /\ chunk \in Nat \ {0} /\ Len(out) + chunk <= Blocks
  BY DEF A!write_block, AesInv
<1>2. data' = in[Len(out) + 1] /\ phase' = "compute"
  BY <1>1 DEF A!write_block, Configured
<1>3. AesTypeOK' /\ result' = "busy" /\ BuffersRight' /\ InWork' = InWork /\ Inverting' = Inverting
  BY <1>1, CallGoesOn
<1>4. Configured' /\ Chained(InWork)'
  BY <1>1, <1>3 DEF Configured, Chained, A!Previous, A!Counter
<1>5. Computing'
  BY <1>1, <1>2, <1>3, <1>4 DEF Computing, InWork
<1> QED
  BY <1>1, <1>3, <1>4, <1>5 DEF AesInv

LEMMA WaitStep == ASSUME AesInv, A!WaitOutput PROVE AesInv'
<1>1. /\ apc = "wait" /\ UNCHANGED <<cr, key, derived, iv, phase, data, job, in, out, chunk>>
      /\ AesTypeOK /\ Configured /\ Computing
      /\ chunk \in Nat \ {0} /\ Len(out) + chunk <= Blocks
  BY DEF A!WaitOutput, AesInv
<1>2. CASE apc' = "idle" /\ result' = "ERROR"
  BY <1>1, <1>2, CallFails
<1>3. CASE ccf /\ ~ccf' /\ apc' = "read" /\ result' = result
  <2>1. AesTypeOK' /\ result' = "busy" /\ BuffersRight' /\ InWork' = InWork /\ Inverting' = Inverting
    BY <1>1, <1>3, CallGoesOn
  <2>2. Computed
    BY <1>1, <1>3 DEF Computing
  <2>3. OutBlock(InWork)' = OutBlock(InWork) /\ ChainedOn' = ChainedOn
    BY <1>1, <2>1 DEF OutBlock, ChainedOn, A!CipherBlock, A!Previous, A!Counter
  <2>4. Computed' /\ Configured'
    BY <1>1, <2>1, <2>2, <2>3 DEF Computed, Configured
  <2> QED
    BY <1>1, <1>3, <2>1, <2>4 DEF AesInv
<1> QED
  BY <1>2, <1>3 DEF A!WaitOutput, A!wait_ccf, A!Fails

LEMMA ReadStep == ASSUME AesInv, A!read_block PROVE AesInv'
<1>1. /\ apc = "read" /\ UNCHANGED <<cr, key, derived, iv, data, ccf, job, in, result>>
      /\ AesTypeOK /\ BuffersRight /\ Configured /\ ~ccf /\ Computed
      /\ result = "busy" /\ chunk \in Nat \ {0} /\ Len(out) + chunk <= Blocks
  BY DEF A!read_block, AesInv
<1>2. /\ out' = Append(out, data) /\ phase' = "input" /\ chunk' = chunk - 1
      /\ apc' = IF chunk = 1 THEN "process" ELSE "write"
  BY <1>1 DEF A!read_block, Computed
<1>3. /\ IsSeq(out') /\ Len(out) \in Nat /\ Len(out') = Len(out) + 1
      /\ \A b \in 1..Len(out) : out'[b] = out[b]
      /\ out'[Len(out) + 1] = data
  BY <1>1, <1>2, Appended DEF AesTypeOK
<1>4. AesTypeOK'
  BY <1>1, <1>2, <1>3 DEF AesTypeOK, IsSeq
<1>5. \A b \in 1..Len(out) + 1 : OutBlock(b)' = OutBlock(b)
  <2> SUFFICES ASSUME NEW b \in 1..Len(out) + 1 PROVE OutBlock(b)' = OutBlock(b)
    OBVIOUS
  <2>1. b # 1 => out'[b - 1] = out[b - 1]
    BY <1>3
  <2> QED
    BY <1>1, <2>1 DEF OutBlock, A!CipherBlock, A!Previous, A!Plain, A!Enc, A!Xor, A!Counter
<1>6. BuffersRight'
  <2>1. \A b \in 1..Blocks : in'[b] = InBlock(b)'
    BY <1>1 DEF BuffersRight, InBlock, A!CipherBlock, A!Previous
  <2>2. Len(out') <= Blocks
    BY <1>1, <1>3, BlocksBound
  <2>3. \A b \in 1..Len(out) + 1 : out'[b] = OutBlock(b)
    BY <1>1, <1>3 DEF BuffersRight, Computed, InWork
  <2>4. \A b \in 1..Len(out') : out'[b] = OutBlock(b)'
    BY <1>3, <1>5, <2>3
  <2> QED
    BY <2>1, <2>2, <2>4 DEF BuffersRight
<1>7. Configured'
  BY <1>1 DEF Configured, Inverting
<1>8. Chained(InWork)'
  <2>1. InWork' = InWork + 1 /\ InWork \in Nat /\ InWork >= 1 /\ out'[InWork] = data
    BY <1>3 DEF InWork
  <2>2. InWork' # 1 /\ InWork' - 1 = InWork
    BY <2>1
  <2>3. ChainedOn /\ job \in Job
    BY <1>1 DEF Computed, AesTypeOK
  <2>4. CASE job.chmod = "ECB"
    BY <1>1, <2>4 DEF Chained
  <2>5. CASE job.chmod = "CBC"
    <3>1. iv = IF job.decrypt THEN in[InWork] ELSE out'[InWork]
      BY <2>1, <2>3, <2>5 DEF ChainedOn
    <3>2. iv' = A!Previous(IF job.decrypt THEN in ELSE out, InWork)'
      BY <1>1, <2>2, <3>1 DEF A!Previous
    <3> QED
      BY <1>1, <2>5, <3>2 DEF Chained
  <2>6. CASE job.chmod = "CTR"
    <3>1. iv = A!Counter(InWork)
      BY <2>3, <2>6 DEF ChainedOn
    <3>2. iv' = A!Counter(InWork - 1)'
      BY <1>1, <2>2, <3>1 DEF A!Counter
    <3> QED
      BY <1>1, <2>6, <3>2 DEF Chained
  <2> QED
    BY <2>3, <2>4, <2>5, <2>6 DEF Job
<1>9. apc' = "write" => chunk' \in Nat \ {0} /\ Len(out') + chunk' <= Blocks
  BY <1>1, <1>2, <1>3, BlocksBound
<1> QED
  BY <1>1, <1>2, <1>4, <1>6, <1>7, <1>8, <1>9 DEF AesInv

(* Main: the message, or what the last encryption gave, is the next input.  *)
LEMMA MainSteps == ASSUME AesInv, A!Encrypt \/ A!Decrypt \/ A!Again PROVE AesInv'
<1>1. apc = "idle" /\ A!CipherIsRight /\ AesTypeOK
  BY DEF A!Encrypt, A!Decrypt, A!Again, AesInv
<1>2. IsSeq(<<>>) /\ Len(<<>>) = 0
  BY DEF IsSeq
<1>3. 0 <= Blocks /\ \A b \in 1..0 : FALSE
  BY BlocksBound
<1>4. CASE A!Encrypt
  <2>1. /\ job' \in [chmod : {"ECB", "CBC", "CTR"}, size : {128, 256}, decrypt : {FALSE}]
        /\ in' = A!Plain /\ out' = <<>> /\ result' = "busy" /\ apc' = "init"
    BY <1>4 DEF A!Encrypt
  <2>2. job' \in Job /\ ~job'.decrypt
    BY <2>1 DEF Job
  <2>3. \A b \in 1..Blocks : in'[b] = InBlock(b)'
    BY <2>1, <2>2 DEF InBlock, A!Plain
  <2>4. BuffersRight'
    BY <1>2, <1>3, <2>1, <2>3 DEF BuffersRight
  <2>5. AesTypeOK'
    BY <1>2, <2>1, <2>2 DEF AesTypeOK, IsSeq
  <2> QED
    BY <2>1, <2>4, <2>5 DEF AesInv
<1>5. CASE A!Decrypt
  <2>1. /\ result = "SUCCESS" /\ ~job.decrypt /\ job' = [job EXCEPT !.decrypt = TRUE]
        /\ in' = out /\ out' = <<>> /\ result' = "busy" /\ apc' = "init"
    BY <1>5 DEF A!Decrypt
  <2>2. job' \in Job /\ job'.decrypt /\ job'.chmod = job.chmod /\ job'.size = job.size
    BY <1>1, <2>1 DEF AesTypeOK, Job
  <2>3. \A b \in 1..Blocks : out[b] = A!CipherBlock(out, job.chmod, job.size, b)
    BY <1>1, <2>1 DEF A!CipherIsRight, A!IsCiphertext
  <2>4. \A b \in 1..Blocks : in'[b] = InBlock(b)'
    BY <2>1, <2>2, <2>3 DEF InBlock, A!CipherBlock, A!Previous, A!Plain, A!Enc, A!Xor, A!Counter
  <2>5. BuffersRight'
    BY <1>2, <1>3, <2>1, <2>4 DEF BuffersRight
  <2>6. AesTypeOK'
    BY <1>2, <2>1, <2>2 DEF AesTypeOK, IsSeq
  <2> QED
    BY <2>1, <2>5, <2>6 DEF AesInv
<1>6. CASE A!Again
  <2>1. apc' = "idle" /\ result' = "none" /\ job' = job /\ out' = <<>>
    BY <1>1, <1>6 DEF A!Again
  <2>2. AesTypeOK' /\ A!CipherIsRight'
    BY <1>1, <1>2, <2>1 DEF AesTypeOK, IsSeq, A!CipherIsRight
  <2> QED
    BY <2>1, <2>2 DEF AesInv
<1> QED
  BY <1>4, <1>5, <1>6

LEMMA AesNext == ASSUME AesInv, [A!Next]_aes PROVE AesInv'
<1>1. CASE UNCHANGED aes \/ A!Fault
  <2>1. UNCHANGED <<cr, key, derived, iv, phase, data, ccf, apc, job, in, out, chunk, result>>
    BY <1>1 DEF aes, A!Fault
  <2> QED
    BY <2>1, AesKept
<1>2. CASE A!Next
  BY <1>1, <1>2, ComputesStep, AesInitSteps, DeriveSteps, ProcessStep, WriteStep, WaitStep,
     ReadStep, MainSteps DEF A!Next
<1> QED
  BY <1>1, <1>2

(* What AES_Process returns is the ciphertext of the message in ECB, CBC    *)
(* and CTR, and then the message: for messages of every length, in whatever *)
(* chunks, after any number of faults.                                      *)
THEOREM CipherStaysRight == Spec => []CipherIsRight
<1>1. Init => AesInv
  <2> SUFFICES ASSUME Init PROVE AesInv
    OBVIOUS
  <2>1. /\ job = [chmod |-> "ECB", size |-> 128, decrypt |-> FALSE]
        /\ out = <<>> /\ apc = "idle" /\ result = "none"
    BY DEF Init, A!Init
  <2>2. AesTypeOK
    BY <2>1 DEF AesTypeOK, Job, IsSeq
  <2> QED
    BY <2>1, <2>2 DEF AesInv, A!CipherIsRight
<1>2. AesInv /\ [Next]_vars => AesInv'
  BY AesNext, ImageStep
<1>3. AesInv => CipherIsRight
  BY DEF AesInv, CipherIsRight, A!CipherIsRight
<1> QED
  BY <1>1, <1>2, <1>3, PTL DEF Spec

----------------------------------------------------------------------------
(* Pins: fields of one register begin a width apart, or are the same.       *)

Registers == [moder : SUBSET Nat, otyper : SUBSET Nat, ospeedr : SUBSET Nat, pupdr : SUBSET Nat,
              afrl : SUBSET Nat, afrh : SUBSET Nat]

Configs == [moder : SUBSET Nat, otyper : SUBSET Nat, speed : SUBSET Nat, pull : SUBSET Nat,
            af : SUBSET Nat]

Fits(v, w) == v \subseteq 0 .. w - 1

Apart(at, f, w) == \A j \in at : j = f \/ j + w <= f \/ f + w <= j

Rewrites(r, w, v, at, f) ==
  /\ P!SetField(r, v, at, w) \in SUBSET Nat
  /\ f \in at => P!Field(P!SetField(r, v, at, w), f, w) = v
  /\ f \notin at => P!Field(P!SetField(r, v, at, w), f, w) = P!Field(r, f, w)

LEMMA FieldWritten ==
  ASSUME NEW r \in SUBSET Nat, NEW w \in Nat, NEW v, Fits(v, w), NEW at \in SUBSET Nat,
         NEW f \in Nat, Apart(at, f, w)
  PROVE  Rewrites(r, w, v, at, f)
<1> USE DEF Fits, Apart
<1>1. P!SetField(r, v, at, w) \in SUBSET Nat
  <2>1. ASSUME NEW j \in at, NEW b \in v PROVE j + b \in Nat
    <3>1. j \in Nat /\ b \in 0 .. w - 1
      OBVIOUS
    <3> QED
      BY <3>1
  <2>2. ASSUME NEW x \in P!SetField(r, v, at, w) PROVE x \in Nat
    <3>1. x \in r \/ \E j \in at, b \in v : x = j + b
      BY DEF P!SetField
    <3> QED
      BY <2>1, <3>1
  <2> QED
    BY <2>2
<1>2. ASSUME f \in at PROVE P!Field(P!SetField(r, v, at, w), f, w) = v
  <2>1. ASSUME NEW b \in 0 .. w - 1
        PROVE  f + b \in P!SetField(r, v, at, w) <=> b \in v
    BY <1>2 DEF P!SetField
  <2> QED
    BY <2>1 DEF P!Field
<1>3. ASSUME f \notin at
      PROVE  P!Field(P!SetField(r, v, at, w), f, w) = P!Field(r, f, w)
  <2>1. ASSUME NEW b \in 0 .. w - 1
        PROVE  f + b \in P!SetField(r, v, at, w) <=> f + b \in r
    BY <1>3 DEF P!SetField
  <2> QED
    BY <2>1 DEF P!Field
<1> QED
  BY <1>1, <1>2, <1>3 DEF Rewrites

(* Where the fields of w bits of a set of pins begin, and that of one pin.   *)
Starts(ps, w) == {w * p : p \in ps}

Start(p, w) == w * p

OfPin(r, w, v, ps, q) ==
  LET new == P!SetField(r, v, Starts(ps, w), w)
  IN  /\ new \in SUBSET Nat
      /\ P!Field(new, Start(q, w), w) = IF q \in ps THEN v ELSE P!Field(r, Start(q, w), w)

LEMMA PinField ==
  ASSUME NEW r \in SUBSET Nat, NEW w \in Nat, w > 0, NEW v, Fits(v, w),
         NEW ps \in SUBSET Nat, NEW q \in Nat
  PROVE  OfPin(r, w, v, ps, q)
<1>1. ASSUME NEW a \in Nat, NEW b \in Nat, a < b PROVE w * a + w <= w * b
  BY <1>1, SMT
<1>2. ASSUME NEW p \in ps PROVE w * p = w * q \/ w * p + w <= w * q \/ w * q + w <= w * p
  <2>1. p \in Nat /\ (p = q \/ p < q \/ q < p)
    OBVIOUS
  <2> QED
    BY <1>1, <2>1
<1>3. Apart(Starts(ps, w), Start(q, w), w)
  BY <1>2 DEF Starts, Start, Apart
<1>4. Start(q, w) \in Starts(ps, w) <=> q \in ps
  <2>1. ASSUME NEW p \in ps, w * p = w * q PROVE p = q
    <3>1. p \in Nat /\ w * p \in Nat /\ w * q \in Nat
      OBVIOUS
    <3>2. ~(p < q) /\ ~(q < p)
      BY <1>1, <2>1, <3>1
    <3> QED
      BY <3>1, <3>2
  <2> QED
    BY <2>1 DEF Starts, Start
<1>5. Starts(ps, w) \in SUBSET Nat /\ Start(q, w) \in Nat
  <2>1. \A p \in Nat : w * p \in Nat
    OBVIOUS
  <2> QED
    BY <2>1 DEF Starts, Start
<1>6. r \in SUBSET Nat /\ w \in Nat /\ Fits(v, w)
  OBVIOUS
<1>7. Rewrites(r, w, v, Starts(ps, w), Start(q, w))
  BY <1>3, <1>5, <1>6, FieldWritten
<1> QED
  BY <1>4, <1>7 DEF Rewrites, OfPin

(* A write to one register changes that part of the named pins only.        *)
Decoded(r, p) ==
  [moder |-> P!Field(r.moder, Start(p, 2), 2), otyper |-> P!Field(r.otyper, Start(p, 1), 1),
   speed |-> P!Field(r.ospeedr, Start(p, 2), 2), pull |-> P!Field(r.pupdr, Start(p, 2), 2),
   af |-> IF p < 8 THEN P!Field(r.afrl, Start(p, 4), 4) ELSE P!Field(r.afrh, Start(p - 8, 4), 4)]

LEMMA DecodeAt == ASSUME NEW r, NEW p \in P!Pin PROVE P!Decode(r, p) = Decoded(r, p)
  BY DEF P!Decode, Decoded, Start, P!Pin

(* A configuration with one part changed, and what a write to a register    *)
(* does to the pins: that, to those it names.                               *)
Put(c, part, v) ==
  [moder |-> IF part = "moder" THEN v ELSE c.moder,
   otyper |-> IF part = "otyper" THEN v ELSE c.otyper,
   speed |-> IF part = "speed" THEN v ELSE c.speed, pull |-> IF part = "pull" THEN v ELSE c.pull,
   af |-> IF part = "af" THEN v ELSE c.af]

Gets(new, r, ps, part, v) ==
  /\ new \in Registers
  /\ \A p \in P!Pin : Decoded(new, p) =
       IF p \in ps THEN Put(Decoded(r, p), part, v) ELSE Decoded(r, p)

LEMMA PinsAreNat == P!Pin \subseteq Nat
  BY DEF P!Pin

LEMMA ModerWritten ==
  ASSUME NEW r \in Registers, NEW ps \in SUBSET P!Pin, NEW v, Fits(v, 2)
  PROVE  Gets(P!Moder(r, ps, v), r, ps, "moder", v)
<1> DEFINE new == P!SetField(r.moder, v, Starts(ps, 2), 2)
<1>1. P!Moder(r, ps, v) = [r EXCEPT !.moder = new]
  BY DEF P!Moder, Starts
<1>2. ASSUME NEW p \in P!Pin PROVE OfPin(r.moder, 2, v, ps, p)
  <2>1. /\ r.moder \in SUBSET Nat /\ ps \in SUBSET Nat /\ p \in Nat
        /\ 2 \in Nat /\ 2 > 0
    BY PinsAreNat DEF Registers
  <2> QED
    BY <2>1, PinField
<1>3. /\ new \in SUBSET Nat
      /\ \A p \in P!Pin : P!Field(new, Start(p, 2), 2) =
           IF p \in ps THEN v ELSE P!Field(r.moder, Start(p, 2), 2)
  <2>1. 0 \in P!Pin
    BY DEF P!Pin
  <2> QED
    BY <1>2, <2>1 DEF OfPin
<1> HIDE DEF new
<1> QED
  BY <1>1, <1>3 DEF Registers, Decoded, Gets, Put

LEMMA OtyperWritten ==
  ASSUME NEW r \in Registers, NEW ps \in SUBSET P!Pin, NEW v, Fits(v, 1)
  PROVE  Gets(P!Otyper(r, ps, v), r, ps, "otyper", v)
<1> DEFINE new == P!SetField(r.otyper, v, Starts(ps, 1), 1)
<1>1. P!Otyper(r, ps, v) = [r EXCEPT !.otyper = new]
  <2>1. \A p \in ps : 1 * p = p
    BY PinsAreNat
  <2>2. Starts(ps, 1) = ps
    BY <2>1 DEF Starts
  <2> QED
    BY <2>2 DEF P!Otyper
<1>2. ASSUME NEW p \in P!Pin PROVE OfPin(r.otyper, 1, v, ps, p)
  <2>1. /\ r.otyper \in SUBSET Nat /\ ps \in SUBSET Nat /\ p \in Nat
        /\ 1 \in Nat /\ 1 > 0
    BY PinsAreNat DEF Registers
  <2> QED
    BY <2>1, PinField
<1>3. /\ new \in SUBSET Nat
      /\ \A p \in P!Pin : P!Field(new, Start(p, 1), 1) =
           IF p \in ps THEN v ELSE P!Field(r.otyper, Start(p, 1), 1)
  <2>1. 0 \in P!Pin
    BY DEF P!Pin
  <2> QED
    BY <1>2, <2>1 DEF OfPin
<1> HIDE DEF new
<1> QED
  BY <1>1, <1>3 DEF Registers, Decoded, Gets, Put

LEMMA OspeedrWritten ==
  ASSUME NEW r \in Registers, NEW ps \in SUBSET P!Pin, NEW v, Fits(v, 2)
  PROVE  Gets(P!Ospeedr(r, ps, v), r, ps, "speed", v)
<1> DEFINE new == P!SetField(r.ospeedr, v, Starts(ps, 2), 2)
<1>1. P!Ospeedr(r, ps, v) = [r EXCEPT !.ospeedr = new]
  BY DEF P!Ospeedr, Starts
<1>2. ASSUME NEW p \in P!Pin PROVE OfPin(r.ospeedr, 2, v, ps, p)
  <2>1. /\ r.ospeedr \in SUBSET Nat /\ ps \in SUBSET Nat /\ p \in Nat
        /\ 2 \in Nat /\ 2 > 0
    BY PinsAreNat DEF Registers
  <2> QED
    BY <2>1, PinField
<1>3. /\ new \in SUBSET Nat
      /\ \A p \in P!Pin : P!Field(new, Start(p, 2), 2) =
           IF p \in ps THEN v ELSE P!Field(r.ospeedr, Start(p, 2), 2)
  <2>1. 0 \in P!Pin
    BY DEF P!Pin
  <2> QED
    BY <1>2, <2>1 DEF OfPin
<1> HIDE DEF new
<1> QED
  BY <1>1, <1>3 DEF Registers, Decoded, Gets, Put

LEMMA PupdrWritten ==
  ASSUME NEW r \in Registers, NEW ps \in SUBSET P!Pin, NEW v, Fits(v, 2)
  PROVE  Gets(P!Pupdr(r, ps, v), r, ps, "pull", v)
<1> DEFINE new == P!SetField(r.pupdr, v, Starts(ps, 2), 2)
<1>1. P!Pupdr(r, ps, v) = [r EXCEPT !.pupdr = new]
  BY DEF P!Pupdr, Starts
<1>2. ASSUME NEW p \in P!Pin PROVE OfPin(r.pupdr, 2, v, ps, p)
  <2>1. /\ r.pupdr \in SUBSET Nat /\ ps \in SUBSET Nat /\ p \in Nat
        /\ 2 \in Nat /\ 2 > 0
    BY PinsAreNat DEF Registers
  <2> QED
    BY <2>1, PinField
<1>3. /\ new \in SUBSET Nat
      /\ \A p \in P!Pin : P!Field(new, Start(p, 2), 2) =
           IF p \in ps THEN v ELSE P!Field(r.pupdr, Start(p, 2), 2)
  <2>1. 0 \in P!Pin
    BY DEF P!Pin
  <2> QED
    BY <1>2, <2>1 DEF OfPin
<1> HIDE DEF new
<1> QED
  BY <1>1, <1>3 DEF Registers, Decoded, Gets, Put

(* AFRL holds the functions of pins 0 to 7, AFRH those of pins 8 to 15.     *)
LEMMA AfrWritten ==
  ASSUME NEW r \in Registers, NEW ps \in SUBSET P!Pin, NEW v, Fits(v, 4)
  PROVE  Gets(P!Afr(r, ps, v), r, ps, "af", v)
<1> DEFINE low  == ps \cap 0 .. 7
           high == {p - 8 : p \in ps \cap 8 .. 15}
           newl == P!SetField(r.afrl, v, Starts(low, 4), 4)
           newh == P!SetField(r.afrh, v, Starts(high, 4), 4)
<1>1. P!Afr(r, ps, v) = [r EXCEPT !.afrl = newl, !.afrh = newh]
  <2>1. {4 * p : p \in ps \cap 0 .. 7} = Starts(low, 4)
    BY DEF Starts
  <2>2. {4 * (p - 8) : p \in ps \cap 8 .. 15} = Starts(high, 4)
    BY DEF Starts
  <2> QED
    BY <2>1, <2>2 DEF P!Afr
<1>2. /\ r.afrl \in SUBSET Nat /\ r.afrh \in SUBSET Nat
      /\ low \in SUBSET Nat /\ high \in SUBSET Nat /\ 4 \in Nat /\ 4 > 0
  BY DEF Registers
<1>3. /\ \A p \in P!Pin : p < 8 => (p \in low <=> p \in ps)
      /\ \A p \in P!Pin : ~(p < 8) => (p - 8 \in high <=> p \in ps) /\ p - 8 \in Nat
  <2>1. ASSUME NEW p \in P!Pin, ~(p < 8) PROVE (p - 8 \in high <=> p \in ps) /\ p - 8 \in Nat
    <3>1. p \in 8 .. 15
      BY <2>1 DEF P!Pin
    <3>2. ASSUME NEW o \in ps \cap 8 .. 15, p - 8 = o - 8 PROVE o = p
      BY <3>1, <3>2
    <3> QED
      BY <3>1, <3>2
  <2> QED
    BY <2>1 DEF P!Pin
<1> HIDE DEF low, high
<1>4. ASSUME NEW q \in Nat PROVE OfPin(r.afrl, 4, v, low, q) /\ OfPin(r.afrh, 4, v, high, q)
  BY <1>2, PinField
<1>5. /\ newl \in SUBSET Nat /\ newh \in SUBSET Nat
      /\ \A q \in Nat : P!Field(newl, Start(q, 4), 4) =
           IF q \in low THEN v ELSE P!Field(r.afrl, Start(q, 4), 4)
      /\ \A q \in Nat : P!Field(newh, Start(q, 4), 4) =
           IF q \in high THEN v ELSE P!Field(r.afrh, Start(q, 4), 4)
  <2>1. 0 \in Nat
    OBVIOUS
  <2> QED
    BY <1>4, <2>1 DEF OfPin
<1> HIDE DEF newl, newh
<1>6. ASSUME NEW p \in P!Pin
      PROVE  (IF p < 8 THEN P!Field(newl, Start(p, 4), 4) ELSE P!Field(newh, Start(p - 8, 4), 4))
               = IF p \in ps THEN v ELSE IF p < 8 THEN P!Field(r.afrl, Start(p, 4), 4)
                                      ELSE P!Field(r.afrh, Start(p - 8, 4), 4)
  <2>1. CASE p < 8
    <3>1. p \in Nat
      BY PinsAreNat
    <3> QED
      BY <1>3, <1>5, <2>1, <3>1
  <2>2. CASE ~(p < 8)
    BY <1>3, <1>5, <2>2
  <2> QED
    BY <2>1, <2>2
<1>7. P!Afr(r, ps, v) \in Registers
  BY <1>1, <1>5 DEF Registers
<1>8. ASSUME NEW p \in P!Pin
      PROVE  Decoded(P!Afr(r, ps, v), p) =
               IF p \in ps THEN Put(Decoded(r, p), "af", v) ELSE Decoded(r, p)
  <2>1. /\ P!Afr(r, ps, v).afrl = newl /\ P!Afr(r, ps, v).afrh = newh
        /\ P!Afr(r, ps, v).moder = r.moder /\ P!Afr(r, ps, v).otyper = r.otyper
        /\ P!Afr(r, ps, v).ospeedr = r.ospeedr /\ P!Afr(r, ps, v).pupdr = r.pupdr
    BY <1>1 DEF Registers
  <2> QED
    BY <1>6, <2>1 DEF Decoded, Put
<1> QED
  BY <1>7, <1>8 DEF Gets

(* A setup that writes what it promises for its pins, and leaves the others *)
(* of the port as they were, keeps every port as asked.                     *)
PinsInv ==
  image = "pins" =>
    /\ reg \in [P!Ports -> Registers] /\ asked \in [P!Ports -> [P!Pin -> Configs]]
    /\ \A port \in P!Ports, p \in P!Pin : Decoded(reg[port], p) = asked[port][p]

Promise(port, written, want) ==
  /\ port \in P!Ports /\ written \in Registers
  /\ \A p \in P!Pin : Decoded(written, p) = IF p \in DOMAIN want THEN want[p] ELSE asked[port][p]

LEMMA DecodedIsConfig ==
  ASSUME NEW r \in Registers, NEW p \in P!Pin PROVE Decoded(r, p) \in Configs
  BY DEF Decoded, Configs, P!Field

LEMMA SetupKeeps ==
  ASSUME NEW port, NEW written, NEW want, PinsInv, image = "pins", Promise(port, written, want),
         P!Setup(port, written, want), image' = image
  PROVE  PinsInv'
<1>1. /\ reg \in [P!Ports -> Registers] /\ asked \in [P!Ports -> [P!Pin -> Configs]]
      /\ \A q \in P!Ports, p \in P!Pin : Decoded(reg[q], p) = asked[q][p]
  BY DEF PinsInv
<1> DEFINE now == [p \in P!Pin |-> IF p \in DOMAIN want THEN want[p] ELSE asked[port][p]]
<1>2. reg' = [reg EXCEPT ![port] = written] /\ asked' = [asked EXCEPT ![port] = now]
  BY <1>1 DEF P!Setup, Promise
<1>3. port \in P!Ports /\ written \in Registers /\ \A p \in P!Pin : Decoded(written, p) = now[p]
  BY DEF Promise
<1>4. now \in [P!Pin -> Configs]
  BY <1>3, DecodedIsConfig
<1> HIDE DEF now
<1>5. reg' \in [P!Ports -> Registers] /\ asked' \in [P!Ports -> [P!Pin -> Configs]]
  BY <1>1, <1>2, <1>3, <1>4
<1>6. ASSUME NEW q \in P!Ports, NEW p \in P!Pin PROVE Decoded(reg'[q], p) = asked'[q][p]
  <2>1. CASE q = port
    BY <1>1, <1>2, <1>3, <2>1
  <2>2. CASE q # port
    BY <1>1, <1>2, <2>2
  <2> QED
    BY <2>1, <2>2
<1> QED
  BY <1>5, <1>6 DEF PinsInv

Config(m, o, s, l, f) == [moder |-> m, otyper |-> o, speed |-> s, pull |-> l, af |-> f]

(* Put, part by part.                                                       *)
LEMMA Puts ==
  ASSUME NEW m, NEW o, NEW s, NEW l, NEW f, NEW v
  PROVE  /\ Put(Config(m, o, s, l, f), "moder", v) = Config(v, o, s, l, f)
         /\ Put(Config(m, o, s, l, f), "otyper", v) = Config(m, v, s, l, f)
         /\ Put(Config(m, o, s, l, f), "speed", v) = Config(m, o, v, l, f)
         /\ Put(Config(m, o, s, l, f), "pull", v) = Config(m, o, s, v, f)
         /\ Put(Config(m, o, s, l, f), "af", v) = Config(m, o, s, l, v)
  BY DEF Put, Config

LEMMA ConfigParts ==
  ASSUME NEW c \in Configs
  PROVE  c = Config(c.moder, c.otyper, c.speed, c.pull, c.af)
  BY DEF Configs, Config

(* USART_Init and CAN_Init promise a mode and a function.                   *)
Selecting(c, m, f) == [c EXCEPT !.moder = m, !.af = f]

LEMMA PutSelects ==
  ASSUME NEW c \in Configs, NEW m \in SUBSET Nat, NEW f \in SUBSET Nat
  PROVE  Put(Put(c, "moder", m), "af", f) = Selecting(c, m, f)
<1>1. Put(Put(c, "moder", m), "af", f) = Config(m, c.otyper, c.speed, c.pull, f)
  <2>1. c = Config(c.moder, c.otyper, c.speed, c.pull, c.af)
    BY ConfigParts
  <2>2. Put(c, "moder", m) = Config(m, c.otyper, c.speed, c.pull, c.af)
    BY <2>1, Puts
  <2> QED
    BY <2>2, Puts
<1>2. Selecting(c, m, f) = Config(m, c.otyper, c.speed, c.pull, f)
  <2> DEFINE d == Selecting(c, m, f)
  <2>1. d \in Configs
    BY DEF Configs, Selecting
  <2>2. d.moder = m /\ d.otyper = c.otyper /\ d.speed = c.speed /\ d.pull = c.pull /\ d.af = f
    BY DEF Configs, Selecting
  <2> HIDE DEF d
  <2>3. d = Config(m, c.otyper, c.speed, c.pull, f)
    BY <2>1, <2>2, ConfigParts
  <2> QED
    BY <2>3 DEF d
<1> QED
  BY <1>1, <1>2

(* All that GPIO_Init puts to a configuration: in an alternate function, in *)
(* another driven mode, and in a mode that is not driven.                   *)
LEMMA PutAll ==
  ASSUME NEW c \in Configs, NEW m, NEW o, NEW s, NEW l, NEW f
  PROVE  /\ Put(Put(Put(Put(Put(c, "af", f), "moder", m), "speed", s), "otyper", o), "pull", l)
              = Config(m, o, s, l, f)
         /\ Put(Put(Put(Put(c, "moder", m), "speed", s), "otyper", o), "pull", l)
              = Config(m, o, s, l, c.af)
         /\ Put(Put(c, "moder", m), "pull", l) = Config(m, c.otyper, c.speed, l, c.af)
<1> DEFINE b == Put(c, "moder", m)
<1>1. c = Config(c.moder, c.otyper, c.speed, c.pull, c.af)
  BY ConfigParts
<1>2. Put(c, "af", f) = Config(c.moder, c.otyper, c.speed, c.pull, f)
  BY <1>1, Puts
<1>3. b = Config(m, c.otyper, c.speed, c.pull, c.af)
  BY <1>1, Puts
<1>4. Put(b, "speed", s) = Config(m, c.otyper, s, c.pull, c.af)
  BY <1>3, Puts
<1>5. Put(Put(b, "speed", s), "otyper", o) = Config(m, o, s, c.pull, c.af)
  BY <1>4, Puts
<1>6. Put(Put(c, "af", f), "moder", m) = Config(m, c.otyper, c.speed, c.pull, f)
  BY <1>2, Puts
<1>7. Put(Put(Put(c, "af", f), "moder", m), "speed", s) = Config(m, c.otyper, s, c.pull, f)
  BY <1>6, Puts
<1>8. Put(Put(Put(Put(c, "af", f), "moder", m), "speed", s), "otyper", o)
        = Config(m, o, s, c.pull, f)
  BY <1>7, Puts
<1> QED
  BY <1>3, <1>5, <1>8, Puts

LEMMA PortIsAsked ==
  ASSUME PinsInv, image = "pins", NEW port \in P!Ports
  PROVE  /\ reg[port] \in Registers
         /\ \A p \in P!Pin : asked[port][p] = Decoded(reg[port], p)
  BY DEF PinsInv

LEMMA GpioPromise ==
  ASSUME PinsInv, image = "pins", image' = image, NEW g \in PinCalls, P!GPIO_Init(g)
  PROVE  PinsInv'
<1> DEFINE r     == reg[g.port]
           was   == asked[g.port]
           value == [p \in g.pins |->
             [moder |-> g.mode \cap 0..1, pull |-> g.pull,
              otyper |-> IF g.mode \in P!Driven THEN P!Type(g.mode) ELSE was[p].otyper,
              speed  |-> IF g.mode \in P!Driven THEN g.speed ELSE was[p].speed,
              af     |-> IF g.mode \in P!Alternate THEN g.af ELSE was[p].af]]
           one   == IF g.mode \in P!Alternate THEN P!Afr(r, g.pins, g.af) ELSE r
           two   == P!Moder(one, g.pins, g.mode \cap 0..1)
           three == IF g.mode \in P!Driven THEN P!Ospeedr(two, g.pins, g.speed) ELSE two
           four  == IF g.mode \in P!Driven THEN P!Otyper(three, g.pins, P!Type(g.mode)) ELSE three
           five  == P!Pupdr(four, g.pins, g.pull)
<1>1. /\ g.port \in P!Ports /\ g.pins \in SUBSET P!Pin
      /\ Fits(g.mode \cap 0..1, 2) /\ Fits(g.pull, 2) /\ Fits(g.speed, 2) /\ Fits(g.af, 4)
      /\ Fits(P!Type(g.mode), 1)
  <2>1. g \in P!Setups
    BY DemoBounds DEF P!PinBounds
  <2>2. P!Type(g.mode) \subseteq 0..0
    BY DEF P!Type
  <2> QED
    BY <2>1, <2>2 DEF P!Setups, Fits
<1>2. /\ r \in Registers
      /\ \A p \in P!Pin : was[p] = Decoded(r, p)
  BY <1>1, PortIsAsked
<1>3. P!Setup(g.port, five, value)
  <2>1. P!Written(r, g) = five
    BY DEF P!Written
  <2> QED
    BY <2>1 DEF P!GPIO_Init
<1>4. one \in Registers
  BY <1>1, <1>2, AfrWritten DEF Gets
<1>5. g.mode \in P!Alternate => Gets(one, r, g.pins, "af", g.af)
  BY <1>1, <1>2, AfrWritten
<1>6. g.mode \notin P!Alternate => one = r
  OBVIOUS
<1> HIDE DEF one
<1>7. Gets(two, one, g.pins, "moder", g.mode \cap 0..1)
  BY <1>1, <1>4, ModerWritten
<1>8. two \in Registers
  BY <1>7 DEF Gets
<1> HIDE DEF two
<1>9. Gets(P!Ospeedr(two, g.pins, g.speed), two, g.pins, "speed", g.speed)
  BY <1>1, <1>8, OspeedrWritten
<1>10. /\ three \in Registers
       /\ g.mode \in P!Driven => Gets(three, two, g.pins, "speed", g.speed)
       /\ g.mode \notin P!Driven => three = two
  BY <1>8, <1>9 DEF Gets
<1> HIDE DEF three
<1>11. Gets(P!Otyper(three, g.pins, P!Type(g.mode)), three, g.pins, "otyper", P!Type(g.mode))
  BY <1>1, <1>10, OtyperWritten
<1>12. /\ four \in Registers
       /\ g.mode \in P!Driven => Gets(four, three, g.pins, "otyper", P!Type(g.mode))
       /\ g.mode \notin P!Driven => four = three
  BY <1>10, <1>11 DEF Gets
<1> HIDE DEF four
<1>13. Gets(five, four, g.pins, "pull", g.pull)
  BY <1>1, <1>12, PupdrWritten
<1> HIDE DEF five
<1>14. Promise(g.port, five, value)
  <2> SUFFICES ASSUME NEW p \in P!Pin
               PROVE  Decoded(five, p) = IF p \in DOMAIN value THEN value[p] ELSE was[p]
    BY <1>1, <1>13 DEF Promise, Gets
  <2>1. CASE p \in g.pins
    <3> DEFINE driven == Put(Put(Decoded(two, p), "speed", g.speed), "otyper", P!Type(g.mode))
    <3>1. Decoded(one, p) = IF g.mode \in P!Alternate THEN Put(was[p], "af", g.af) ELSE was[p]
      BY <1>2, <1>5, <1>6, <2>1 DEF Gets
    <3>2. Decoded(two, p) = Put(Decoded(one, p), "moder", g.mode \cap 0..1)
      BY <1>7, <2>1 DEF Gets
    <3>3. Decoded(four, p) = IF g.mode \in P!Driven THEN driven ELSE Decoded(two, p)
      BY <1>10, <1>12, <2>1 DEF Gets
    <3>4. Decoded(five, p) = Put(Decoded(four, p), "pull", g.pull)
      BY <1>13, <2>1 DEF Gets
    <3>5. DOMAIN value = g.pins
      OBVIOUS
    <3>6. value[p] = Config(g.mode \cap 0..1,
                           IF g.mode \in P!Driven THEN P!Type(g.mode) ELSE was[p].otyper,
                           IF g.mode \in P!Driven THEN g.speed ELSE was[p].speed, g.pull,
                           IF g.mode \in P!Alternate THEN g.af ELSE was[p].af)
      BY <2>1 DEF Config
    <3>7. was[p] \in Configs
      BY <1>2, DecodedIsConfig
    <3> HIDE DEF value, was
    <3>8. CASE g.mode \in P!Alternate
      <4>1. g.mode \in P!Driven
        BY <3>8 DEF P!Alternate, P!Driven
      <4>2. value[p] = Config(g.mode \cap 0..1, P!Type(g.mode), g.speed, g.pull, g.af)
        BY <3>6, <3>8, <4>1
      <4>3. Decoded(five, p) = Put(Put(Put(Put(Put(was[p], "af", g.af), "moder", g.mode \cap 0..1),
                                 "speed", g.speed), "otyper", P!Type(g.mode)), "pull", g.pull)
        BY <3>1, <3>2, <3>3, <3>4, <3>8, <4>1
      <4>4. Decoded(five, p) = value[p]
        BY <3>7, <4>2, <4>3, PutAll
      <4> QED
        BY <2>1, <3>5, <4>4
    <3>9. CASE g.mode \in P!Driven /\ g.mode \notin P!Alternate
      <4>1. value[p] = Config(g.mode \cap 0..1, P!Type(g.mode), g.speed, g.pull, was[p].af)
        BY <3>6, <3>9
      <4>2. Decoded(five, p) = Put(Put(Put(Put(was[p], "moder", g.mode \cap 0..1),
                                 "speed", g.speed), "otyper", P!Type(g.mode)), "pull", g.pull)
        BY <3>1, <3>2, <3>3, <3>4, <3>9
      <4>3. Decoded(five, p) = value[p]
        BY <3>7, <4>1, <4>2, PutAll
      <4> QED
        BY <2>1, <3>5, <4>3
    <3>10. CASE g.mode \notin P!Driven /\ g.mode \notin P!Alternate
      <4>1. value[p] = Config(g.mode \cap 0..1, was[p].otyper, was[p].speed, g.pull, was[p].af)
        BY <3>6, <3>10
      <4>2. Decoded(five, p) = Put(Put(was[p], "moder", g.mode \cap 0..1), "pull", g.pull)
        BY <3>1, <3>2, <3>3, <3>4, <3>10
      <4>3. Decoded(five, p) = value[p]
        BY <3>7, <4>1, <4>2, PutAll
      <4> QED
        BY <2>1, <3>5, <4>3
    <3> QED
      BY <3>8, <3>9, <3>10
  <2>2. CASE p \notin g.pins
    <3>1. /\ Decoded(one, p) = Decoded(r, p) /\ Decoded(two, p) = Decoded(one, p)
          /\ Decoded(three, p) = Decoded(two, p) /\ Decoded(four, p) = Decoded(three, p)
          /\ Decoded(five, p) = Decoded(four, p)
      BY <1>5, <1>6, <1>7, <1>10, <1>12, <1>13, <2>2 DEF Gets
    <3> QED
      BY <1>2, <2>2, <3>1
  <2> QED
    BY <2>1, <2>2
<1> HIDE DEF value
<1> QED
  BY <1>3, <1>14, SetupKeeps

(* What the NVIC demo promises for the LED and the button, and CAN_Init.    *)
Driving(c, m, o) == [c EXCEPT !.moder = m, !.otyper = o]

LEMMA PutDriving ==
  ASSUME NEW c \in Configs, NEW m \in SUBSET Nat, NEW o \in SUBSET Nat
  PROVE  Put(Put(c, "moder", m), "otyper", o) = Driving(c, m, o)
<1>1. Put(Put(c, "moder", m), "otyper", o) = Config(m, o, c.speed, c.pull, c.af)
  BY ConfigParts, Puts
<1>2. Driving(c, m, o) = Config(m, o, c.speed, c.pull, c.af)
  <2> DEFINE d == Driving(c, m, o)
  <2>1. d \in Configs
    BY DEF Configs, Driving
  <2>2. d.moder = m /\ d.otyper = o /\ d.speed = c.speed /\ d.pull = c.pull /\ d.af = c.af
    BY DEF Configs, Driving
  <2> HIDE DEF d
  <2>3. d = Config(m, o, c.speed, c.pull, c.af)
    BY <2>1, <2>2, ConfigParts
  <2> QED
    BY <2>3 DEF d
<1> QED
  BY <1>1, <1>2

Sensing(c, m, l) == [c EXCEPT !.moder = m, !.pull = l]

LEMMA PutSensing ==
  ASSUME NEW c \in Configs, NEW m \in SUBSET Nat, NEW l \in SUBSET Nat
  PROVE  Put(Put(c, "moder", m), "pull", l) = Sensing(c, m, l)
<1>1. Put(Put(c, "moder", m), "pull", l) = Config(m, c.otyper, c.speed, l, c.af)
  BY ConfigParts, Puts
<1>2. Sensing(c, m, l) = Config(m, c.otyper, c.speed, l, c.af)
  <2> DEFINE d == Sensing(c, m, l)
  <2>1. d \in Configs
    BY DEF Configs, Sensing
  <2>2. d.moder = m /\ d.otyper = c.otyper /\ d.speed = c.speed /\ d.pull = l /\ d.af = c.af
    BY DEF Configs, Sensing
  <2> HIDE DEF d
  <2>3. d = Config(m, c.otyper, c.speed, l, c.af)
    BY <2>1, <2>2, ConfigParts
  <2> QED
    BY <2>3 DEF d
<1> QED
  BY <1>1, <1>2

Joining(c, m, f, l) == [c EXCEPT !.moder = m, !.af = f, !.pull = l]

LEMMA JoiningParts ==
  ASSUME NEW c \in Configs, NEW m \in SUBSET Nat, NEW f \in SUBSET Nat, NEW l \in SUBSET Nat
  PROVE  Joining(c, m, f, l) = Config(m, c.otyper, c.speed, l, f)
<1> DEFINE d == Joining(c, m, f, l)
<1>1. d \in Configs
  BY DEF Configs, Joining
<1>2. d.moder = m /\ d.otyper = c.otyper /\ d.speed = c.speed /\ d.pull = l /\ d.af = f
  BY DEF Configs, Joining
<1> HIDE DEF d
<1>3. d = Config(m, c.otyper, c.speed, l, f)
  BY <1>1, <1>2, ConfigParts
<1> QED
  BY <1>3 DEF d

(* A port whose registers are written twice, for one pin.                   *)
LEMMA TwoWrites ==
  ASSUME PinsInv, image = "pins", image' = image, NEW port \in P!Ports, NEW p \in P!Pin,
         NEW mid \in Registers, NEW new, NEW want, NEW one, NEW two, NEW v, NEW w,
         Gets(mid, reg[port], {p}, one, v), Gets(new, mid, {p}, two, w),
         DOMAIN want = {p}, want[p] = Put(Put(asked[port][p], one, v), two, w),
         P!Setup(port, new, want)
  PROVE  PinsInv'
<1>1. \A q \in P!Pin : asked[port][q] = Decoded(reg[port], q)
  BY PortIsAsked
<1>2. ASSUME NEW q \in P!Pin
      PROVE  Decoded(new, q) = IF q \in DOMAIN want THEN want[q] ELSE asked[port][q]
  <2>1. CASE q = p
    <3>1. Decoded(new, q) = Put(Put(asked[port][q], one, v), two, w)
      BY <1>1, <2>1 DEF Gets
    <3> QED
      BY <2>1, <3>1
  <2>2. CASE q # p
    BY <1>1, <2>2 DEF Gets
  <2> QED
    BY <2>1, <2>2
<1>3. Promise(port, new, want)
  BY <1>2 DEF Promise, Gets
<1> QED
  BY <1>3, SetupKeeps

LEMMA UsartPromise ==
  ASSUME PinsInv, image = "pins", image' = image, NEW u \in UsartSides, P!USART_Init(u[1], u[2])
  PROVE  PinsInv'
<1> DEFINE row  == P!UsartPins[u[1]]
           port == row.ports[u[2]]
           p    == row.pins[u[2]]
           f    == row.af
           mid  == P!Moder(reg[port], {p}, {1})
           new  == P!Afr(mid, {p}, f)
           want == [q \in {p} |-> [asked[port][q] EXCEPT !.moder = {1}, !.af = f]]
<1>1. port \in P!Ports /\ p \in P!Pin /\ Fits(f, 4)
  <2>1. u \in (1..5) \X (1..2)
    BY DemoBounds DEF P!PinBounds
  <2>2. u[1] \in 1..5 /\ u[2] \in 1..2
    BY <2>1
  <2>3. u[1] = 1 \/ u[1] = 2 \/ u[1] = 3 \/ u[1] = 4 \/ u[1] = 5
    BY <2>2
  <2>4. \A m \in 1..2 : row.ports[m] \in P!Ports /\ row.pins[m] \in P!Pin
    <3>1. CASE u[1] = 1 \/ u[1] = 2
      BY <3>1 DEF P!UsartPins, P!Ports, P!Pin
    <3>2. CASE u[1] = 3 \/ u[1] = 4
      BY <3>2 DEF P!UsartPins, P!Ports, P!Pin
    <3>3. CASE u[1] = 5
      BY <3>3 DEF P!UsartPins, P!Ports, P!Pin
    <3> QED
      BY <2>3, <3>1, <3>2, <3>3
  <2>5. Fits(f, 4)
    BY <2>3 DEF P!UsartPins, Fits
  <2> QED
    BY <2>2, <2>4, <2>5
<1>2. P!Setup(port, new, want)
  BY DEF P!USART_Init
<1> HIDE DEF port, p, f, row
<1>3. /\ reg[port] \in Registers
      /\ \A q \in P!Pin : asked[port][q] = Decoded(reg[port], q)
  BY <1>1, PortIsAsked
<1>4. {p} \in SUBSET P!Pin /\ Fits({1}, 2)
  BY <1>1 DEF Fits
<1>5. Gets(mid, reg[port], {p}, "moder", {1})
  BY <1>3, <1>4, ModerWritten
<1>6. mid \in Registers
  BY <1>5 DEF Gets
<1> HIDE DEF mid
<1>7. Gets(new, mid, {p}, "af", f)
  BY <1>1, <1>4, <1>6, AfrWritten
<1> HIDE DEF new
<1>8. want[p] = Put(Put(asked[port][p], "moder", {1}), "af", f)
  <2> DEFINE c == asked[port][p]
  <2>1. want[p] = Selecting(c, {1}, f)
    BY DEF Selecting
  <2>2. c \in Configs /\ {1} \in SUBSET Nat /\ f \in SUBSET Nat
    BY <1>1, <1>3, DecodedIsConfig DEF Fits
  <2> HIDE DEF want, c
  <2>3. Put(Put(c, "moder", {1}), "af", f) = Selecting(c, {1}, f)
    BY <2>2, PutSelects
  <2> QED
    BY <2>1, <2>3 DEF c
<1>9. DOMAIN want = {p}
  OBVIOUS
<1> HIDE DEF want
<1> QED
  BY <1>1, <1>2, <1>5, <1>6, <1>7, <1>8, <1>9, TwoWrites

LEMMA NvicLedPromise ==
  ASSUME PinsInv, image = "pins", image' = image, P!NvicLed
  PROVE  PinsInv'
<1> DEFINE p    == 5
           port == "A"
           mid  == P!Moder(reg[port], {p}, {0})
           new  == P!Otyper(mid, {p}, {})
           want == [q \in {p} |-> [asked[port][q] EXCEPT !.moder = {0}, !.otyper = {}]]
<1>1. port \in P!Ports /\ p \in P!Pin
  BY DEF P!Ports, P!Pin
<1>2. P!Setup(port, new, want)
  BY DEF P!NvicLed
<1> HIDE DEF port, p
<1>3. /\ reg[port] \in Registers
      /\ \A q \in P!Pin : asked[port][q] = Decoded(reg[port], q)
  BY <1>1, PortIsAsked
<1>4. {p} \in SUBSET P!Pin /\ Fits({0}, 2) /\ Fits({}, 1)
  BY <1>1 DEF Fits
<1>5. Gets(mid, reg[port], {p}, "moder", {0})
  BY <1>3, <1>4, ModerWritten
<1>6. mid \in Registers
  BY <1>5 DEF Gets
<1> HIDE DEF mid
<1>7. Gets(new, mid, {p}, "otyper", {})
  BY <1>4, <1>6, OtyperWritten
<1> HIDE DEF new
<1>8. want[p] = Put(Put(asked[port][p], "moder", {0}), "otyper", {})
  <2> DEFINE c == asked[port][p]
  <2>1. want[p] = Driving(c, {0}, {})
    BY DEF Driving
  <2>2. c \in Configs /\ {0} \in SUBSET Nat /\ {} \in SUBSET Nat
    BY <1>1, <1>3, DecodedIsConfig
  <2> HIDE DEF want, c
  <2>3. Put(Put(c, "moder", {0}), "otyper", {}) = Driving(c, {0}, {})
    BY <2>2, PutDriving
  <2> QED
    BY <2>1, <2>3 DEF c
<1>9. DOMAIN want = {p}
  OBVIOUS
<1> HIDE DEF want
<1> QED
  BY <1>1, <1>2, <1>5, <1>6, <1>7, <1>8, <1>9, TwoWrites

LEMMA NvicButtonPromise ==
  ASSUME PinsInv, image = "pins", image' = image, P!NvicButton
  PROVE  PinsInv'
<1> DEFINE p    == 13
           port == "C"
           mid  == P!Moder(reg[port], {p}, {})
           new  == P!Pupdr(mid, {p}, {0})
           want == [q \in {p} |-> [asked[port][q] EXCEPT !.moder = {}, !.pull = {0}]]
<1>1. port \in P!Ports /\ p \in P!Pin
  BY DEF P!Ports, P!Pin
<1>2. P!Setup(port, new, want)
  BY DEF P!NvicButton
<1> HIDE DEF port, p
<1>3. /\ reg[port] \in Registers
      /\ \A q \in P!Pin : asked[port][q] = Decoded(reg[port], q)
  BY <1>1, PortIsAsked
<1>4. {p} \in SUBSET P!Pin /\ Fits({}, 2) /\ Fits({0}, 2)
  BY <1>1 DEF Fits
<1>5. Gets(mid, reg[port], {p}, "moder", {})
  BY <1>3, <1>4, ModerWritten
<1>6. mid \in Registers
  BY <1>5 DEF Gets
<1> HIDE DEF mid
<1>7. Gets(new, mid, {p}, "pull", {0})
  BY <1>4, <1>6, PupdrWritten
<1> HIDE DEF new
<1>8. want[p] = Put(Put(asked[port][p], "moder", {}), "pull", {0})
  <2> DEFINE c == asked[port][p]
  <2>1. want[p] = Sensing(c, {}, {0})
    BY DEF Sensing
  <2>2. c \in Configs /\ {0} \in SUBSET Nat /\ {} \in SUBSET Nat
    BY <1>1, <1>3, DecodedIsConfig
  <2> HIDE DEF want, c
  <2>3. Put(Put(c, "moder", {}), "pull", {0}) = Sensing(c, {}, {0})
    BY <2>2, PutSensing
  <2> QED
    BY <2>1, <2>3 DEF c
<1>9. DOMAIN want = {p}
  OBVIOUS
<1> HIDE DEF want
<1> QED
  BY <1>1, <1>2, <1>5, <1>6, <1>7, <1>8, <1>9, TwoWrites

LEMMA CanPromise ==
  ASSUME PinsInv, image = "pins", image' = image, P!CAN_Init
  PROVE  PinsInv'
<1> DEFINE both == {11, 12}
           pull == {11}
           port == "A"
           one  == P!Moder(reg[port], both, {1})
           two  == P!Afr(one, both, {0, 3})
           new  == P!Pupdr(two, pull, {0})
           want == [p \in both |-> [asked[port][p] EXCEPT
                      !.moder = {1}, !.af = {0, 3}, !.pull = IF p = 11 THEN {0} ELSE @]]
<1>1. /\ port \in P!Ports /\ both \in SUBSET P!Pin /\ pull \in SUBSET P!Pin
      /\ pull \subseteq both /\ \A p \in both : p \in pull <=> p = 11
  BY DEF P!Ports, P!Pin
<1>2. P!Setup(port, new, want)
  BY DEF P!CAN_Init
<1> HIDE DEF port, both, pull
<1>3. /\ reg[port] \in Registers
      /\ \A q \in P!Pin : asked[port][q] = Decoded(reg[port], q)
  BY <1>1, PortIsAsked
<1>4. Fits({1}, 2) /\ Fits({0, 3}, 4) /\ Fits({0}, 2)
  BY DEF Fits
<1>5. Gets(one, reg[port], both, "moder", {1})
  BY <1>1, <1>3, <1>4, ModerWritten
<1>6. one \in Registers
  BY <1>5 DEF Gets
<1> HIDE DEF one
<1>7. Gets(two, one, both, "af", {0, 3})
  BY <1>1, <1>4, <1>6, AfrWritten
<1>8. two \in Registers
  BY <1>7 DEF Gets
<1> HIDE DEF two
<1>9. Gets(new, two, pull, "pull", {0})
  BY <1>1, <1>4, <1>8, PupdrWritten
<1> HIDE DEF new
<1>10. DOMAIN want = both
  OBVIOUS
<1>11. ASSUME NEW q \in P!Pin
       PROVE  Decoded(new, q) = IF q \in DOMAIN want THEN want[q] ELSE asked[port][q]
  <2>1. CASE q \notin both
    BY <1>1, <1>3, <1>5, <1>7, <1>9, <1>10, <2>1 DEF Gets
  <2>2. CASE q \in both
    <3> DEFINE c == asked[port][q]
               l == IF q = 11 THEN {0} ELSE c.pull
    <3>1. want[q] = Joining(c, {1}, {0, 3}, l)
      BY <2>2 DEF Joining
    <3>2. c \in Configs /\ c = Decoded(reg[port], q)
      BY <1>3, DecodedIsConfig
    <3>3. {1} \in SUBSET Nat /\ {0, 3} \in SUBSET Nat /\ l \in SUBSET Nat
      BY <3>2 DEF Configs
    <3> HIDE DEF want, c
    <3>4. Decoded(two, q) = Put(Put(c, "moder", {1}), "af", {0, 3})
      BY <1>5, <1>7, <2>2, <3>2 DEF Gets
    <3>5. Decoded(two, q) = Config({1}, c.otyper, c.speed, c.pull, {0, 3})
      BY <3>2, <3>4, ConfigParts, Puts
    <3>6. Decoded(new, q) = Config({1}, c.otyper, c.speed, l, {0, 3})
      <4>1. CASE q = 11
        BY <1>1, <1>9, <2>2, <3>5, <4>1, Puts DEF Gets
      <4>2. CASE q # 11
        BY <1>1, <1>9, <2>2, <3>5, <4>2 DEF Gets
      <4> QED
        BY <4>1, <4>2
    <3> HIDE DEF l
    <3>7. Joining(c, {1}, {0, 3}, l) = Config({1}, c.otyper, c.speed, l, {0, 3})
      BY <3>2, <3>3, JoiningParts
    <3> QED
      BY <1>10, <2>2, <3>1, <3>6, <3>7
  <2> QED
    BY <2>1, <2>2
<1>12. Promise(port, new, want)
  BY <1>1, <1>9, <1>11 DEF Promise, Gets
<1> HIDE DEF want
<1> QED
  BY <1>2, <1>12, SetupKeeps

LEMMA PinsInit == ASSUME Init PROVE PinsInv
<1>1. /\ reg = [port \in P!Ports |-> P!AtReset(port)]
      /\ asked = [port \in P!Ports |-> [p \in P!Pin |-> P!Decode(P!AtReset(port), p)]]
  BY DEF Init, P!Init
<1>2. ASSUME NEW port \in P!Ports PROVE P!AtReset(port) \in Registers
  <2>1. CASE port = "A"
    BY <2>1 DEF P!AtReset, Registers
  <2>2. CASE port = "B"
    BY <2>2 DEF P!AtReset, Registers
  <2>3. CASE port \notin {"A", "B"}
    BY <2>3 DEF P!AtReset, Registers
  <2> QED
    BY <2>1, <2>2, <2>3
<1>3. ASSUME NEW port \in P!Ports, NEW p \in P!Pin
      PROVE  /\ P!Decode(P!AtReset(port), p) = Decoded(P!AtReset(port), p)
             /\ Decoded(P!AtReset(port), p) \in Configs
  BY <1>2, DecodeAt, DecodedIsConfig
<1> QED
  BY <1>1, <1>2, <1>3 DEF PinsInv

LEMMA PinsNext == ASSUME PinsInv, [Next]_vars PROVE PinsInv'
<1>1. image' = image /\ [P!Next]_pins
  BY ImageStep DEF Next, vars
<1>2. CASE image # "pins"
  BY <1>1, <1>2 DEF PinsInv
<1>3. CASE image = "pins" /\ UNCHANGED pins
  BY <1>1, <1>3 DEF PinsInv, pins
<1>4. CASE image = "pins" /\ P!Next
  <2>1. ASSUME NEW g \in PinCalls, P!GPIO_Init(g) PROVE PinsInv'
    BY <1>1, <1>4, <2>1, GpioPromise
  <2>2. ASSUME NEW u \in UsartSides, P!USART_Init(u[1], u[2]) PROVE PinsInv'
    BY <1>1, <1>4, <2>2, UsartPromise
  <2>3. ASSUME P!CAN_Init PROVE PinsInv'
    BY <1>1, <1>4, <2>3, CanPromise
  <2>4. ASSUME P!NvicLed PROVE PinsInv'
    BY <1>1, <1>4, <2>4, NvicLedPromise
  <2>5. ASSUME P!NvicButton PROVE PinsInv'
    BY <1>1, <1>4, <2>5, NvicButtonPromise
  <2> QED
    BY <1>4, <2>1, <2>2, <2>3, <2>4, <2>5 DEF P!Next
<1> QED
  BY <1>1, <1>2, <1>3, <1>4

(* Whatever calls of GPIO_Init, USART_Init, CAN_Init and the NVIC demo run, *)
(* in whatever order, every pin is as the last of them asked.               *)
THEOREM PinsStayAsAsked == Spec => []PinsAsAsked
<1>1. Init => PinsInv
  BY PinsInit
<1>2. PinsInv /\ [Next]_vars => PinsInv'
  BY PinsNext
<1>3. PinsInv => PinsAsAsked
  BY DecodeAt DEF PinsInv, PinsAsAsked, P!PinsAsAsked
<1> QED
  BY <1>1, <1>2, <1>3, PTL DEF Spec

================================================================================
