---------------------------------- MODULE Demos ----------------------------------
(***************************************************************************)
(* The demonstration images of the drivers.  The board runs one image at a  *)
(* time, from its reset on; the peripherals of the others stand still.      *)
(* Every image is a module of its own, instantiated here with its variables *)
(* (those whose names two modules use get a letter in front).               *)
(***************************************************************************)
EXTENDS Integers

CONSTANTS PinCalls, UsartSides, Presses, Length, Calls, Period, TickMod, CycleMod, MicroMod,
          Delays, Horizon, BlockWords, Lengths, MaxMessages, Blocks, Faults,
          LimbBits, KeyLimbs, MaxLimbs, Keys, Messages, Bytes, Longest,
          Typed, Line, Block

VARIABLES
  image,   \* the image that runs
  tdr, garbled, flags, typed, rdr, rxneie, callback, dma, chan, tcie, tcFlag,
  lpc, left, lhpc, isr,                                               \* Link
  clock, reg, asked,                                                  \* Pins
  demo, presses, fpr, owed, table, enabled, odr, toggles, bpc, temp, bhpc, htemp,   \* Button
  rngen, ie, drdy, err, registered, status, idx, npc, nhpc, nresult, calls,   \* Rng
  val, ctrl, flag, pending, ticks, start, ms, i, tpc, timed, spent, seen,
  cycles, since, prompt, last, millis, rem,                                   \* Ticks
  engine, dinis, dcis, dcal, nblw, room, block, hr, hpc, hmsg, words, digest, messages, \* Hash
  cr, key, derived, iv, phase, data, ccf, aerr, faults, apc, job, in, out, chunk, result, \* Aes
  k, msg, op, input, bit, turn, res, sq, enc, dec,                    \* Rsa
  cmsg, taken, dr, crc                                                \* Crc

link   == <<tdr, garbled, flags, typed, rdr, rxneie, callback, dma, chan, tcie, tcFlag,
           lpc, left, lhpc, isr>>
pins   == <<clock, reg, asked>>
button == <<demo, presses, fpr, owed, table, enabled, odr, toggles, bpc, temp, bhpc, htemp>>
rng    == <<rngen, ie, drdy, err, registered, status, idx, npc, nhpc, nresult, calls>>
time   == <<val, ctrl, flag, pending, ticks, start, ms, i, tpc, timed, spent, seen,
           cycles, since, prompt, last, millis, rem>>
hash   == <<engine, dinis, dcis, dcal, nblw, room, block, hr, hpc, hmsg, words, digest, messages>>
aes    == <<cr, key, derived, iv, phase, data, ccf, aerr, faults, apc, job, in, out, chunk, result>>
rsa    == <<k, msg, op, input, bit, turn, res, sq, enc, dec>>
sums   == <<cmsg, taken, dr, crc>>

L == INSTANCE Link WITH pc <- lpc, hpc <- lhpc
P == INSTANCE Pins
B == INSTANCE Button WITH pc <- bpc, hpc <- bhpc
N == INSTANCE Rng WITH pc <- npc, hpc <- nhpc, result <- nresult
T == INSTANCE Ticks WITH pc <- tpc
H == INSTANCE Hash WITH pc <- hpc, msg <- hmsg
A == INSTANCE Aes WITH pc <- apc, err <- aerr
R == INSTANCE Rsa
C == INSTANCE Crc WITH msg <- cmsg

ASSUME DemoBounds ==
  /\ L!LinkBounds /\ P!PinBounds /\ B!PressesBound /\ N!RngBounds /\ T!TicksBounds
  /\ H!HashBounds /\ A!AesBounds /\ R!RsaBounds /\ C!CrcBounds

----------------------------------------------------------------------------
Images == {"UART", "GPIO", "NVIC", "RNG", "SysTick", "HASH", "AES", "RSA", "CRC", "pins"}

(* The image is what differs between the initial states; where a part that  *)
(* stands still has several, it is one of them.                             *)
Init ==
  /\ image \in Images
  /\ image \notin {"GPIO", "NVIC"} => demo = "gpio"
  /\ image # "SysTick" => tpc = "idle"
  /\ image # "RSA" => k = (CHOOSE x \in Keys : TRUE) /\ msg = 0
  /\ image # "CRC" => cmsg = <<>>
  /\ L!Init /\ P!Init /\ B!Init /\ N!Init /\ T!Init /\ H!Init /\ A!Init /\ R!Init /\ C!Init
  /\ image \in {"GPIO", "NVIC"} => demo = IF image = "GPIO" THEN "gpio" ELSE "nvic"

Next ==
  /\ UNCHANGED image
  /\ \/ /\ image = "UART" /\ L!Next
        /\ UNCHANGED <<pins, button, rng, time, hash, aes, rsa, sums>>
     \/ /\ image = "pins" /\ P!Next
        /\ UNCHANGED <<link, button, rng, time, hash, aes, rsa, sums>>
     \/ /\ image \in {"GPIO", "NVIC"} /\ B!Next
        /\ UNCHANGED <<link, pins, rng, time, hash, aes, rsa, sums>>
     \/ /\ image = "RNG" /\ N!Next
        /\ UNCHANGED <<link, pins, button, time, hash, aes, rsa, sums>>
     \/ /\ image = "SysTick" /\ T!Next
        /\ UNCHANGED <<link, pins, button, rng, hash, aes, rsa, sums>>
     \/ /\ image = "HASH" /\ H!Next
        /\ UNCHANGED <<link, pins, button, rng, time, aes, rsa, sums>>
     \/ /\ image = "AES" /\ A!Next
        /\ UNCHANGED <<link, pins, button, rng, time, hash, rsa, sums>>
     \/ /\ image = "RSA" /\ R!Next
        /\ UNCHANGED <<link, pins, button, rng, time, hash, aes, sums>>
     \/ /\ image = "CRC" /\ C!Next
        /\ UNCHANGED <<link, pins, button, rng, time, hash, aes, rsa>>

vars == <<image, link, pins, button, rng, time, hash, aes, rsa, sums>>

(* The fairness of the running image: hardware that was asked answers,      *)
(* handlers run to their end, main runs whenever no handler does, and the   *)
(* countdown of RNG_Generate_IT ends.                                       *)
Fairness ==
  /\ WF_link(image = "UART" /\ L!ByteLeaves)
  /\ \A c \in L!Channels : WF_link(image = "UART" /\ L!ChannelMoves(c))
  /\ WF_link(image = "UART" /\ L!Handler) /\ WF_link(image = "UART" /\ L!Main)
  /\ WF_button(image \in {"GPIO", "NVIC"} /\ B!Handler)
  /\ WF_button(image \in {"GPIO", "NVIC"} /\ B!Main)
  /\ WF_rng(image = "RNG" /\ N!Produces) /\ WF_rng(image = "RNG" /\ N!Handler)
  /\ WF_rng(image = "RNG" /\ N!Progress) /\ SF_rng(image = "RNG" /\ N!GiveUp)
  /\ WF_hash(image = "HASH" /\ H!Processor) /\ WF_hash(image = "HASH" /\ H!Driver)

Spec == Init /\ [][Next]_vars /\ Fairness
----------------------------------------------------------------------------
(* No byte that waits to go out is written over, whoever writes next; a job *)
(* that returned left no channel running and its completion to nobody else; *)
(* a byte received while its interrupt is enabled reaches the callback.     *)
LinkIsClean == image = "UART" => L!NothingGarbled /\ L!QuietWhenIdle /\ L!EchoDelivers

(* Every pin is as the last setup that named it asked, all others are as    *)
(* they were at reset (GPIO_Init, USART_Init, CAN_Init, the NVIC demo).     *)
PinsAsAsked == image = "pins" => P!PinsAsAsked

(* A press of the button is answered by a toggle, also one that comes while *)
(* the callback of the last one runs.                                       *)
PressAnswered == image \in {"GPIO", "NVIC"} => B!PressAnswered

(* RNG_OK is a buffer filled by the call; a call that returned, or gave up, *)
(* has seen the last write to its buffer.                                   *)
BufferIsOwned == image = "RNG" => N!BufferIsOwned

(* A digest is of the message it was asked for, and of nothing before it.   *)
DigestOfMessage == image = "HASH" => H!DigestOfMessage

(* What AES_Process returns is the ciphertext, and then the plaintext.      *)
CipherIsRight == image = "AES" => A!CipherIsRight

(* RSA_PubOp and RSA_PrivOp are powers modulo n.                            *)
OpIsPower == image = "RSA" => R!OpIsPower

(* The CRC unit and the software loops compute one and the same checksum.   *)
UnitIsLoop == image = "CRC" => C!UnitIsLoop

(* Delays last as long as asked, a reading of the timer is within a         *)
(* millisecond, and the USB clock loses no cycle while no call is late, and *)
(* is never ahead.                                                          *)
TimeIsKept == T!DelayLasts /\ T!ReadingBounds /\ []T!MillisExact

(* Every call that does not wait for the user returns: the jobs of the UART *)
(* and DMA demos, both RNG calls, a hash.                                   *)
CallsReturn == L!JobsReturn /\ N!CallReturns /\ H!HashReturns
================================================================================
