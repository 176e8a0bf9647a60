# A model of the STM32C5 bootloader and its drivers

This directory holds TLA+ modules about the firmware in this repository: the resident
bootloader, the FLASH driver it stands on, the host tools that talk to it, the secure boot and
update demos, and the peripheral drivers under the demos that use them. TLC model-checks them on
small instances; TLAPS proves their safety properties, and two refinements of abstract specifications,
for every value of the constants: every flash geometry, checksum and host, every number of sectors, every
counter that wraps, every buffer length, delay and RSA key. Every safety property of a passing run is proved; liveness stays with TLC.

```
tlc -config bootloader.cfg MCBootloader      # each run: module and .cfg of the table below
tlapm BootloaderProofs.tla                   # each proof module of the table in section 2
```

## 1. The system and its parts

The board runs one program at a time from 512 KB of flash: the bootloader (sectors 0-7),
an application in the *active slot* (sectors 8-29), a CRC-32 *tag* that seals the slot
(sector 30), and, for the Secure_* projects, a fallback slot (32-61). There is no operating
system: a program is a main loop, polled peripherals and a few interrupt handlers.

| Part | State | Operations | Talks to |
|---|---|---|---|
| **Bootloader** `Projects/Bootloader/src` | `stay`, the session's locals (`image_size`, `received`, `addr`), flash contents, FLASH lock | wait for `u`, receive an image, verify the slot, jump | tool (bytes), FLASH driver (calls), application (jump) |
| wait window, same file | `deadline`, `ready_last`, `now` | loop turn, READY line, grace after a USB opening | USB CDC (open event), cycle counter |
| **FLASH driver** `Projects/FLASH/src/flash.c` | `s_flash_eop`, `s_flash_error`, FLASH_CR/SR | init, lock/unlock, erase with interrupt, program by polling | FLASH controller, its interrupt |
| flash protection `flash_protect.c` | none of its own | store an integrity tag, read RDP/WRP, stage WRP | FLASH driver |
| **Upload tool** `tools/bl_upload.py` | step of the conversation, offset | wait READY, request, size, chunks, CRC; fail or report UPLOADED | bootloader over one serial link |
| **Secure boot** `Projects/Secure_Boot`, **secure update** `Projects/Secure_FW_Update` | flash slots and tags, VTOR, PRIMASK | verify and jump; erase and write the fallback slot | flash, interrupts, the image in the slot |
| seal/clear tools `tools/seal.py`, `clear_tag.py`, `make flash` | none; two programmer calls each | write image, write or clear tag | flash over SWD, while the board runs |
| vector tables, every `startup.c` | - | - | the interrupts the drivers enable |
| **FDCAN driver** `Drivers/FDCAN` | message RAM, TX buffers, RX FIFO, callback | transmit with timeout, receive, self-tests | its interrupt 0, the bus |
| **UART, DMA drivers** | callback, flags, `tc_flag`, channels | polled and DMA transfers, receive interrupt | line, channels, handlers |
| **RNG driver** | `buffer`, `count`, `idx`, `status` | poll or be filled by interrupt, time-out | RNG, its interrupt |
| NVIC, GPIO drivers | dispatch table, EXTI routing, port registers | register a handler, configure and toggle pins | button, every driver with pins |
| SysTick driver, USB clock | `s_tick_ms`, VAL; `last_cyc`, `ms`, `rem` | delays, elapsed time, milliseconds | counters that wrap |
| HASH, AES, CRC drivers, RSA | peripheral registers; big numbers | digest, cipher, checksum, modular power | peripherals |
| USB CDC `Drivers/USB_CDC` | `s_open_event` | read byte, bounded write, take open event, detach | TinyUSB (third-party) |
| linker layouts, CI | - | - | - |

What is hard about them:

* **Power.** A reset comes at any instruction; flash keeps what was done, and the operation
  under way may leave anything.
* **Partial failure.** Each flash step can fail, and each exit of a session has to leave
  the controller locked and the slot in a state the boot decision judges rightly.
* **A conversation over a byte link**: no message framing, no sequence numbers, answers
  mixed with text lines, timeouts on both sides, and a tool that is started again.
* **Main code against handlers**: the erase waits for a flag its handler sets, both
  read-modify-write the same register; NVIC registrations, the RNG buffer, UART/DMA flags and
  the FDCAN FIFO are handed over in the same way.
* **Handing over the machine**: a loader has interrupts enabled and a vector table of its own;
  what it leaves masked, enabled or pending meets another image's table.
* **Registers that keep their value**: STR of the HASH processor, CCF of the AES, flags of a DMA
  channel or of the FDCAN survive the job they belong to.
* **Clocks that wrap**: deadlines are differences of 32-bit counters.

What makes each part correct: the bootloader runs only sealed, intact images, writes a flash
word once per erase, never touches a locked flash and ends every session; the driver's answers
are true and it leaves nothing behind; the tool says UPLOADED only of a sealed image; the
window closes when it should; what runs from the slot was checked, whichever loader is resident
and wherever a tool was stopped; each driver gives its caller what was asked for, of this call and no
other, and every call ends. `PROJECT.json` lists every component with its status, and under
`hazards` the places of the code where these could go wrong, with the properties that cover
each.

## 2. Modules

| Module | Models | Uses |
|---|---|---|
| `ActiveSlot` | what the bootloader promises about the slot: abstract specification | - |
| `Bootloader` | main loop, session, boot decision, power cuts | `INSTANCE ActiveSlot` |
| `MCBootloader` | a checksum for TLC | `Bootloader` |
| `BootloaderProofs` | theorems about `Bootloader` | `Bootloader`, TLAPS |
| `FlashDriver` | `flash.c`, `BL_ProgramFlashWord`, `FLASH_StoreIntegrityTag`, the controller | - |
| `FlashDriverProofs` | theorems about `FlashDriver` | `FlashDriver`, TLAPS |
| `BootWindow` | the clock of `BL_WaitForUpdateRequest` | - |
| `BootWindowProofs` | theorems about `BootWindow` | `BootWindow`, TLAPS |
| `Upload` | `bl_upload.py`, the link, and the board's side of it | extends `Bootloader` |
| `MCUpload` | images and a checksum for TLC | `Upload` |
| `UploadProofs` | theorems about `Upload` | `Upload`, `BootloaderProofs` |
| `Vectors` | the vector table of every image and the interrupts it enables | - |
| `SecureUpdate` | both loaders' hand-over, the images of the slot, the update demo, the programmer | extends `Vectors` |
| `SecureUpdateProofs` | theorems about `SecureUpdate` | `SecureUpdate`, TLAPS |
| `RxQueue` | a bounded queue of frames: abstract specification of reception | - |
| `Fdcan` | `fdcan.c` under its demo's main, message RAM and bus | `INSTANCE RxQueue` |
| `FdcanProofs` | theorems about `Fdcan` | `Fdcan`, TLAPS |
| `Link` | `uart.c`, `dma.c`, under the jobs of their demos | - |
| `Pins` | `GPIO_Init`, and the pins of the USART, CAN and NVIC code | - |
| `Button` | dispatch in `nvic.c`, the button demos of GPIO and NVIC | - |
| `Rng` | `rng.c` | - |
| `Ticks` | `systick.c`, the millisecond clock of `usb_cdc.c` | - |
| `Hash` | `hash.c` and the HASH processor | - |
| `Aes` | `aes.c`, `modes_of_op.c` and the AES peripheral | - |
| `Rsa`, `MCRsa` | `rsa.c` on small limbs; keys for TLC | - |
| `Crc` | `crc.c`, and the CRC loops of the update and root-of-trust demos | - |
| `Demos`, `MCDemos` | the board with one of the driver demos on it | `INSTANCE` of the nine above |
| `DemosProofs` | theorems about the UART, pins, RNG, HASH, AES and CRC parts of `Demos` | `Demos`, TLAPS |
| `ArithmeticProofs` | theorems about its SysTick and RSA parts | `DemosProofs` |

The views of the board fit together: `Bootloader` takes a flash step to succeed or
fail and the wait to end in one of its ways; `FlashDriver` shows when a flash step tells the
truth about that and when it ends; `BootWindow` shows when the wait ends; `Upload` adds to each
bootloader step the bytes it takes from and puts on the link; `SecureUpdate` takes a session as what
`ActiveSlot` promises of it, and adds what comes before and after: who wrote the slot, and how the machine
is handed over. `Demos` runs one image at a time, as the board does, so that its states are the sum
of the images' and not their product.

### Bootloader

The control state `pc` follows `main` and `BL_ReceiveImage`:

| `pc` | Code |
|---|---|
| `Reset` | `main.c:31-50`, up to the sample of B1 |
| `Wait` | `BL_WaitForUpdateRequest` |
| `Size`, `Erase`, `Chunk`, `Program`, `Crc`, `Seal` | `BL_ReceiveImage`, steps 1-5 |
| `Verify` | `BL_VerifyActiveSlot` and `main.c:68-75` |
| `App` | after `BL_JumpToApplication` |

`slot`, `tag` are the flash; `lock` is FLASH_CR.LOCK; `size`, `received`, `addr`, `chunk`,
`hostCrc` are the session's locals, `sector` the loop variable of `BL_EraseActiveSlot`.
`writes` (programmings of a flash word since its erase), `image` (the padded image delivered
so far) and `result` (what the last session returned) are history.

* A flash word is a value of `Word`, addresses count flash words. The padding arithmetic of
  `bootloader.c:303-313` is kept in bytes (`ChunkLen`, `Padded`).
* An erase or programming that fails, or during which power is cut, leaves any value in the
  words it concerned (`TornErase`, `Program` with an arbitrary value), in the tag too. On the
  device a torn word can also fault when read (double ECC error, NMI); that is left out.
* `ReceiveSize` has the refusals of `bootloader.c:282-295`, which do *not* go through the
  `fail:` label; all other failures do (`Abort`).
* The checksum is an arbitrary function of the slot, with collisions.

### FlashDriver

One step per register access of `FLASH_ErasePage`: a read-modify-write of CR is a load and a
store with the interrupt handler possibly between them. Registers are sets of bits. The
controller follows the reference manual in `docs/` (RM0522, 6.3.5-6.3.6, 6.8-6.10): a request is
refused with PGSERR while an error flag stands or the other operation is configured, with
WRPERR on a write-protected sector, and a refused request is over at once with no end of operation;
EOP is set by completion only; writes of CR stall while BSY. A sector's number is the set of its
bits, so that SNB lies in CR as it does in the register. Callers erase and program in any order,
with the controller unlocked, and `BL_ProgramFlashWord` is called on erased words only - which
is what `WordsWrittenOnce` proves of its caller. Left out: what a forced write (FW) of an
all-ones word does, on which the manual can be read two ways.

### BootWindow

The counter `cyc` counts modulo `Wrap`; `left`, `sinceOpen`, `sinceReady` are the real times that
the code's differences stand for, capped where they no longer matter. Time passes in
`BL_Service` and in the writing of a READY line (at most `Slice` and `WriteTime`), and the port may
be opened and closed there. The open event is raised by a TinyUSB callback that runs inside
`tud_task`, in the main loop, so it is not raised between the two statements of
`USB_CDC_TakeOpenEvent`.

### Upload

`Upload` extends `Bootloader`: each board action is a `Bootloader` action together with its
effect on the link. A field (`u`, size, flash word, CRC) is one symbol, and all fields share one
alphabet, so that a board in the wrong place of the conversation takes any symbol for what
it waits for. Text lines are one element each; none of the lines that can stand where an answer is
expected contains an ACK or NACK byte, so cutting a line makes no difference. The banner after a reset
(`main.c:40-50`) is left out: its "Stay" and "staying" hold a `y`, which is ACK (0x79), and a flush that cuts the line
just there lets the tool take it for the answer to `u`; the next byte it reads is none, so that this run fails one step later. The tool may pause
between any two steps and its timeouts may come before the answer. Assumed: symbols on the
way arrive within `BL_BYTE_TIMEOUT_MS`, nothing is lost or duplicated except by the flushes and
resets of the code, and a run of the tool starts when what an earlier run wrote has arrived (it listens for
1.5 s after a failure). One link is modelled; a byte on the other link is ignored during a session
and flushed after it.

### SecureUpdate and Vectors

`resident` is the image at the reset address: `Bootloader`, `Secure_Boot`, or one of the demos, each of which
then only starts and takes its interrupts. A reset, which may come at any step, starts it again. `slot` and `tag`
say *whose* contents they hold, not which: an image, a part of one, an image with another's rest behind it.
`Secure_Boot` looks at the first bytes only (`signed`, the image it was built with), the `Bootloader` at
the whole slot and its tag. The interrupt handlers keep their work to themselves, except `FLASH_IRQHandler`.
An interrupt is *requested* only if the running image set its peripheral up for it, is *taken* if enabled and not
masked, and through the table of VTOR; an entry without handler is `HardFault`.

The programmer's steps are the calls of `seal.py` (image, then tag) and of `make flash` (image, then
`clear_tag.py`); each may fail, write a part, or be the last (`ToolStops`). After `seal.py`'s first call the
board is held; after `make flash` it runs before the tag is cleared. The update demo's erase keeps the interrupt
and the wait of `FLASH_ErasePage`, its sector loop, and its ignored results; its signature check, which has no HASH
handle, passes always. `SFU_InvalidateActiveSlot` and `SFU_SoftReset` have no caller.

### Fdcan

Main runs `CAN_LoopbackTest` (phases L1-L3) or `CAN_TransceiverTest` (T1-T4) step by step; the handler preempts
it; the controller sends, loops back, aborts (DAR mode) and stores frames at any moment, as RM0522 46.4 has it. A
frame is its identifier and first byte, the bytes counting modulo `CounterMod`; the loop index of phase 4 is a variable of its
own (`round`), as the code has 500 rounds and 256 bytes. A time-out may come at any poll, in loop-back mode too, and the frame given
up is sent all the same or never: no relation of durations is assumed but that a frame in loop-back is stored before the next one is
sent. `ReadsAsQueue` is a refinement: the RX FIFO with its get index, fill
level and acknowledge, read element by element while frames arrive, is a queue of `Elements` frames.

### The driver demos

Each module has the driver's calls, one register access per step where an interrupt or the hardware can come in
between, and a client that makes the calls of the demos - in the demo's order where they build on one another
(`Rng`, `Aes`, `Rsa`), in any order where they do not (`Link`, `Pins`, `Ticks`, `Hash`).

* `Link`: TXE/TDR, RXNE/ORE and the errors, three channels (USART TX and RX, memory to memory). A line is
  characters of three kinds; what a block holds is its length. Clearing EN does not stop a channel, so `DMA_Stop`
  is no step of its own.
* `Pins`: the registers of four ports, and the numbers written to them, as sets of bits. `PinCalls` and
  `UsartSides` are the calls that are made, in any order; they may be all that gpio.h's arguments allow.
  The loop of `GPIO_Init`, which writes the same values for pin after pin, is one step.
* `Button`: the pending bit of EXTI and of the NVIC, the handler's four steps, main's read and write of ODR.
* `Rng`: the polls and the handler, seed and clock errors, and a time-out at any poll.
* `Ticks`: a cycle is a step. The core keeps up: what a tick makes ready is done within the millisecond
  (`Late`), and the few instructions before a delay restarts the counter, or between the start of a timer and its
  snapshot, take less than one (`Slow`). Between the two
  reads of the microsecond reading any time may pass; it is modelled in cycles and wraps as the microseconds do. The sum of
  `usb_cdc.c:36` wraps at the width of the counter it adds differences of, whatever the gap between two calls: a call after nearly a
  turn of that counter loses a turn. `MillisExact` says what is left: the clock is never ahead, and exact while no call was that late (`Prompt`).
* `Hash`: a digest stands for what was fed. The processor has the 17-word first burst, the 16-word rest and DINIS
  as hash.c describes them.
* `Aes`: symbolic blocks, with exclusive or; ECB, CBC and CTR, both directions, chunks of any split.
* `Rsa`: `bn_mul` and `bn_reduce` word by word on limbs of `LimbBits` bits, each C loop a `Loop` of one operator (`Cell` in `Row` in
  `bn_mul`, `Minus` in `Subtract`); what lies behind the accumulator may hold anything. (`MaxLimbs` larger than the key keeps `demos`
  inside it.) `RsaBounds` says what is assumed of the constants: the sizes of `bn_t`, and that the vectors are RSA key pairs, whose `d`
  undoes `e` on messages below `n`. Nothing is assumed of the messages' size against `n`.
* `Crc`: bit by bit, all 32 of them.

## 3. Runs

| Run | Instance | Shows |
|---|---|---|
| `bootloader` | 2+1 sectors of 2 words, 2-byte words, 3-word chunks; sizes 0, 1, 5-9 | the properties of section 4, in every interleaving of host, button, window, failures and power cuts |
| `bootloader_failed_update` | the same | *violated*: finding 1 |
| `flash_driver` | 4 sectors, any set of them write-protected | answers are true, nothing is left behind, erases return |
| `flash_hang` | 2 sectors | *violated*: finding 2 |
| `boot_window` | counter of 32 values, window 11, grace 7, repeat 11, delay 2, turn 2, write 2 | the window closes and READY is sent on time, at every value of the counter |
| `upload` | slot of 3 words, 2-word chunks, 2 images, 2 runs of the tool | the conversation of tool and board |
| `upload_ready_race` | the same, one undisturbed run | *violated*: finding 3 |
| `secure_update` | 8 sectors: loader, slot, tag, fallback of 3 and 2 Secure ones; all 19 images | what runs was checked, no interrupt meets an empty vector, the update ends and leaves the board bootable |
| `fdcan` | RX FIFO and TX buffers of 3, as in the device; counters of 2, 3 rounds, both self-tests | no frame lost, mixed up or reported without having been sent; the tests end |
| `demos` | the nine driver modules, see below | each driver does what its demo says |
| `led_toggle` | `Button`, 3 presses | *violated*: finding 4 |
| `rsa_reduce` | `Rsa`, a key as wide as the numbers | *violated*: finding 5 |

Why the bounds are enough:

* `bootloader`: three-word chunks straddle the two-word sectors; the sizes hit a partial word,
  a partial chunk, the whole slot (8 bytes), one byte less and more, and zero. Three word values
  (erased, bootable, other) make all contents; three CRC values give collisions and an image
  whose CRC is the blank tag. `SizeInput` is the only bound on what a host sends; resets and sessions
  are unbounded.
* `flash_driver`: two sector-number bits give a low and a high half (a wrong SNB needs both), and
  more sectors than an operation and its predecessor concern.
* `boot_window`: every start value of the counter, unbounded time and openings; the spans are ordered
  as in `bootloader.h` and stay below half the counter (`TimingAssumption`), as 5 s at 48 MHz do; a turn of the loop
  and the writing of a line take no longer than a repeat (`USB_CDC_WRITE_TIMEOUT_MS` is 100, `BL_READY_REPEAT_MS` 1000).
* `upload`: an image of one chunk and one of two, both containing the symbol of `u`, one with the
  blank tag as its CRC; two runs let what one left behind meet the next. `MaxToHost` bounds the lines
  the board adds on its own account before the tool reads; it holds as many as a READY and an answer.
* `secure_update`: one sector of each kind is enough except in the fallback slot, whose erase loop turns
  three times; two image words give a first and a repeated programming of it. Resets, sessions and programmer calls are
  unbounded.
* `fdcan`: FIFO and buffers are as large as the device's; two counter values tell a phase's frame from
  its predecessor's, three rounds (`Loops`) of phase 4 make the counter wrap within it and let a round leave something to the next, and `RemoteMod`
  bounds the other node's counter, not how often it sends.
* `demos`: `Presses` 3 (one while the callback of another runs, one after); RNG buffers of 3 bytes, and two calls; `Period` 4 cycles to the millisecond - from 4 on the upper
  bound on delays could fail - tick counter of 4 values, cycle counter of 9 and microseconds of 13 cycles, so that all wrap within `Horizon` and calls of the USB clock are late and in time; the
  `GPIO_Init` calls of the demos, a bus on PB6 to PB9 and two open drains, which overlap on PB9 and, with USART3, on PB10; blocks of 2 words for the hash, two messages of lengths on both sides of the first burst and of a word; three AES
  blocks, two faults; RSA keys of 2 limbs of 3 bits, four key pairs with moduli of 4 to 6 bits and messages from 0 to n and beyond; CRC messages of up to 3 bytes; a
  line of one character, blocks of 2, the user typing twice.

Deadlock is checked where the system never stops (`bootloader`, `upload`, `secure_update`, `fdcan`, where
the other node goes on). The erase of a protected sector never ends, the wait window returns, the driver demos come to their end: those runs
say `CHECK_DEADLOCK FALSE`.

## 4. Properties

`Bootloader`: `RunsValidImage`, `WriteOnce`, `ChunkFits`, `UnsealedUntilSeal`,
`AcceptedIsDelivered`, `LockedOutsideWriting`, `LockedIsImmutable`, `SessionEnds`, and
`KeepsPromise`, the refinement of `ActiveSlot` (the slot is *open* while the controller is unlocked,
*running* in `App`, *closed* otherwise).
`FlashDriver`: `AnswersAreTrue` (an erase answered OK left its sector erased; a word or tag reported
as programmed is there), `CleanWhenIdle`, `InSequence`, `EraseReturns`.
`BootWindow`: `ClosesOnTime`, `ReadyRepeats`, `ReadyNotDiscarded`, `WindowEnds`.
`Upload`: `UploadedIsSealed`, `SilentWhileBusy`, `RequestIsHarmless`, `RunEnds`.
`SecureUpdate`: `NoFault`, `RunsTrusted`, `StaysBootable`, `UpdateEnds`.
`Fdcan`: `FullRaises`, `SuccessWasSent`, `LoopbackMatches`, `ReadsAsQueue` (refinement of `RxQueue`), `TestsEnd`.
`Demos`: `LinkIsClean`, `PinsAsAsked`, `PressAnswered`, `BufferIsOwned`, `TimeIsKept`, `DigestOfMessage`, `CipherIsRight`, `OpIsPower`,
`UnitIsLoop` (the CRC unit and the software loops agree) and `CallsReturn`; those of several parts are conjunctions of the parts' own definitions.
`TypeOK` of `Bootloader` is proved (`TypeCorrect`) and conjoined to nothing the runs check.
Each is stated in words above its definition. For each one `PROJECT.json` names a mutant, a version
of a definition with a plausible mistake (a loop that stops before the tag sector, a check left
out, an unsigned comparison), under which TLC finds the property violated.

Fairness:

* `Bootloader!FairSpec`: `WF(BoardStep)`. The CPU runs; a read without bytes times out
  (`BL_BYTE_TIMEOUT_MS`); flash operations end, which `FlashDriver!EraseReturns` shows for sectors no option
  byte protects. Nothing is assumed of the host, the button or the window.
* `FlashDriver!FairSpec`: the controller ends what it accepted, an enabled pending interrupt is taken,
  the CPU runs.
* `BootWindow!Spec`: the loop runs and each turn takes time. `WindowEnds` has as its premise that hosts
  stop opening the port: each opening grants another 3 s, so a port opened again and again does keep the board.
* `Upload!UploadSpec`: the tool's process runs, and its reads have timeouts (0.2 s, 3 s, 15 s, `--wait`).
  Nothing is assumed of the board.
* `SecureUpdate!Spec`: the CPU runs, an erase ends, and its interrupt is taken when nothing masks it. Nobody has to reset the
  board, to program it or to upload.
* `Fdcan!Spec`: the handler runs when its interrupt stands; main runs when the handler does not, strongly fair, since frames may
  interrupt it again and again but not for ever between two of its steps; in loop-back mode the controller sends and loops back; the
  other node goes on sending. In normal mode a frame need never be sent.
* `Demos!Spec`: hardware that was asked answers (bytes leave, channels move, the RNG and the HASH processor produce), handlers run to
  their end, main runs when no handler does, and the countdown of `RNG_Generate_IT` ends (strong fairness, as the handler comes in
  between). Nothing is assumed of the user or the line.

## 5. What is proved

`BootloaderProofs` proves, for all values of the constants: `TypeCorrect`, `OnlyValidImagesRun`,
`WordsWrittenOnce`, `ChunksFitSlot`, `OpenSlotUnsealed`, `AcceptedImageDelivered`,
`LockedOutside` (invariants), `LockedFlashKept` (an action property) and `Refinement`
(`Spec => Promise!Spec`, the implementation of `ActiveSlot`).

Assumptions: `GeometryAssumption` (positive sizes - the slot may be anything from one word up, a chunk need not
divide a sector or the slot, but it is a whole number of flash words, as `BL_CHUNK_SIZE` is) and
`DataAssumption` (the checksum of a slot is a value of the tag word; an erased word is no usable vector).

The argument is one inductive invariant, `IInv`. None of the properties is inductive alone:

* `EraseInv`: the sectors the erase has passed are erased and their words unwritten, so that after
  the last one, the tag's, the whole slot is.
* `WriteInv`: below `addr` the slot is the delivered image, from `addr` on it is erased and
  unwritten, and the image there is the rest of the chunk followed by erased bytes. This gives `WriteOnce`,
  `UnsealedUntilSeal` and, once the last chunk is done, `slot = image`.
* `LoopInv`: as long as another chunk is to come, the bytes received fill whole words,
  `received = addr * WordBytes`. Only a full chunk may be followed by another; this is what keeps the
  padded last chunk inside the slot (`ChunkFits`). It is the arithmetic of `ChunkArith`.
* `SealInv`: the CRC about to be written is the slot's; with `slot = image`, `AcceptedIsDelivered`.
* `StartInv`, `ResultInv`, `LockedOutsideWriting`: what a session starts from, and which steps are in one.

One lemma per action shows that it preserves `IInv`; `NextInv` collects them. The refinement maps each
action to an action of `ActiveSlot` or to a stutter (`PromiseStep`); the cuts and failures in an open slot map
to its `Write`, `Refuse` and `Reset`, which may leave anything.

`FlashDriverProofs` proves `NothingLeftBehind` (`CleanWhenIdle`), `AnswersTrue` (`AnswersAreTrue`) and `SequencesAccepted`
(`InSequence`), for any number of sectors and any protection of them. Assumption: `BitsAssumption` (the bits of a sector number
are finitely many and none of the other bits of CR). The inductive invariant fixes what stands where:

* `ConfigInv`: the contents of CR, and of main's copy of it, at every statement. The two read-modify-writes before the start find
  no interrupt armed that could fire between load and store, and the clean-up comes after the handler's write.
* `EraseInv`: the flags at every statement; the wait is in one of four states - erasing, erased, handled, refused. The last has no way out
  (finding 2), so that `s_flash_error` is never set at all.
* `JobInv`: the controller works only under the two waits, and on what was asked. `CallInv`: a call stays what it is.
* `StoreInv`: the word of a tag goes to the sector just erased, with no flag standing. This is why a tag reported as stored is there although
  `FLASH_ProgramWord` reports nothing.

`SecureUpdateProofs` proves `NeverFaults` (`NoFault`), `OnlyTrustedRuns` (`RunsTrusted`) and `BoardStaysBootable` (the action property
`StaysBootable`), for any number of sectors and of words per update. Assumption: `SectorsAssumption`. The inductive invariant:

* `PlaceInv`: which image runs, by the place in the code, and that VTOR holds its table (in `Start` too: a loader writes VTOR before it
  branches).
* `TrustInv`: what the loader found of the slot holds from its decision to the branch and after it; nobody programs in between.
* `VectorInv`: what is pending was requested under the table in use, and at the branch nothing is pending or enabled. With
  `RequestsHandled`, which compares each table with what its image asks for, every interrupt finds its handler.
* `SectorInv`: the update erases within its Non-Secure sectors.

Both also state that their `IInv` holds in every reachable state (`Inductive`).

`BootWindowProofs` proves `ClosesInTime` (`ClosesOnTime`), `ReadyKeepsComing` (`ReadyRepeats`) and `ReadyIsHeard`
(`ReadyNotDiscarded`), for every width of the counter and all times that `TimingAssumption` admits. The lemmas
`SinceGrows` and `MomentStays` say what the differences of a wrapping counter are worth; the invariant ties them to real time:

* `DeadlineInv`: the deadline lies `left` ahead of the counter, and is never missed by half a turn of the counter, where
  the signed comparison would change its mind.
* `OpenInv`, `FreshInv`: the event of an opened port is taken within a turn, and puts READY off by the delay.
* `ReadyInv`: while somebody may wait for READY, `ready_last` is at most a repeat and a turn old.

`UploadProofs` proves `BoardRefinement` (`UploadSpec => Spec`: under the tool and a link with answers in flight the board still is
`Bootloader`, so that all of `BootloaderProofs` holds of the composition), `DoneMeansSealed` (`UploadedIsSealed`), `NothingToHold`
(`SilentWhileBusy`) and `FirstRequestHarmless` (the action property `RequestIsHarmless`), for any number of runs of the tool, all images
and every chunk size. Assumption: `UploadAssumption` (a flash word is one symbol of the link, and every field is a symbol).
The invariant says what either side may conclude from what it has seen:

* `AwaitInv`, the core: while the tool waits, the board is *before* its request, *working* on it or *after* it, with exactly that request
  or that answer on the way - or what the tool will read next is no ACK, and this run fails. An ACK of an earlier run is never in
  its way, since a run begins by waiting for a READY (`ReadyInv`), which no session sends.
* `SentInv`, `Delivered`: what the board has taken are the first `sent` words of the tool's file, and at the end the padded file.
* `FirstInv`: before its first answer a tool has put nothing but `u` on the link.

`FdcanProofs` proves `FullFifoRaises` (`FullRaises`), `SuccessIsTrue` (`SuccessWasSent`), `LoopbackIsTrue` (`LoopbackMatches`) and `Refinement`
(`ReadsAsQueue`: the FIFO implements `RxQueue`), for any traffic, any number of rounds that fits `uint16_t` and any wrap of the counters in
the frames (`BoundsAssumption`, which the code's 500 and 256 meet); the FIFOs have the device's three elements.

* `TxInv`: the pending requests are a run of the ring that ends before the put index, so a sent request means that no older one is left. This is
  why frames that timed out before do not confuse `CAN_Transmit`.
* `RxInv`: whoever reads the FIFO holds its oldest element until the acknowledge, and a full FIFO has raised its flag again after it was cleared.
* `LoopInv`: where the one frame of a loop-back phase is - also after `CAN_Transmit` gave it up, since the first phase then ends the
  test and the second waits for its frame. Only the endless phase goes on without its frame, and with that its verdict has fallen; `EndlessInv`
  says that all it can take then is frames of its own. `FlowInv`: when the handler may run.

`DemosProofs` and `ArithmeticProofs` prove, of the images of `Demos`, with `DemoBounds` as assumption:

* `BufferOwned` (`BufferIsOwned`): the handler is armed only inside the call, and while armed there is room (`RngInv`).
* `DigestIsOfMessage` (`DigestOfMessage`), for messages and blocks of any length: the flags that a step of the driver waits for say what
  the processor has finished (`Starting`, `Feeding`, `Finishing`).
* `LinkStaysClean` (`LinkIsClean`): a channel runs only while main waits for it (`ChannelsAwaited`), and the receive interrupt is enabled
  only under a callback (`EchoInv`).
* `UnitAgreesWithLoop` (`UnitIsLoop`), for every message of bytes: the register of the unit is at each step the mirror image of the loop's variable.
* `CipherStaysRight` (`CipherIsRight`), for any number of blocks, chunks and faults: a block that is read was computed from the input block of
  the same number under that number's chaining value (`Computing`, `Chained`).
* `PinsStayAsAsked` (`PinsAsAsked`), for *all* calls of `GPIO_Init` and `USART_Init` with the arguments of gpio.h: fields of a register begin a
  width apart (`FieldWritten`, `PinField`), so that each write changes one part of the pins it names (`ModerWritten` to `AfrWritten`), and a setup
  whose writes keep its promise keeps all others' (`SetupKeeps`).
* `TimeStaysKept` (`TimeIsKept`), for every clock rate, delay and wrap of both counters: the cycles that have passed are the ticks
  handled and pending, times `Period`, and the phase of VAL (`Turned`); a tick of before the delay's start counts for at most one (`WaitInv`).
  The USB clock has counted the cycles up to its last call, less the turns of the counter it lost, and it lost none while no call was late.

* `PowersAreRight` (`OpIsPower`), for every width and number of limbs, every modulus, exponent and message, if `3 * KeyLimbs <= 2 * MaxLimbs`.
  That is the 512- and the 1024-bit keys in numbers of 2048; for the widest the property is false (finding 5). The argument has three layers:
  - *A loop is a function.* The recursive function of a `Loop` exists (`LoopExists`), so that what its turns preserve its end has, by
    induction over a set of turn numbers (`SetInduction`); `NumberStep` and `NumberSet` say what a limb adds to a number.
  - *Limbs.* `MulIsProduct`: a cell of `bn_mul` adds one product of limbs (`CellAdds`), a row one multiple of the other factor (`RowAdds`),
    and no carry is lost. `ReduceIsRemainder`: the limbs of `n << shift` are those of `n * 2^shift` (`RaisedNumber`), the comparison compares
    the numbers (`BelowCompares`), the subtraction ends without a borrow (`SubtractTakes`), and so after the turn for `shift` less than
    `n * 2^shift` is left (`TurnTakes`, `ReduceEnds`). It holds for keys of *all* sizes, as long as the first comparison stays inside the
    accumulator or finds zeros behind it, which is where finding 5 ends: nothing else is wrong with `bn_reduce`. `RoomForThree`
    shows that it always stays inside where the hypothesis above holds.
  - *Powers.* `RsaInv`: the result, times the square to what is left of the exponent, is the power that is wanted, modulo `n` (`Kept`,
    `Wanted`); `RsaInv` is inductive, and at the end nothing of the exponent is left (`NothingLeft`).

What the proofs corrected in the models: `ReadyRepeats` was too tight by a turn of the loop where the writing of a line and the opening of a
port fall together, and the assumption under it (a turn takes no longer than a repeat) had been left unsaid; an upper bound on delays did not hold
of clocks with four or more cycles to the millisecond unless what comes before the restart is quick, which `Slow` now says, while
an assumption about the time between the two reads of `SysTick` was not needed; in two CASE expressions (`Aes`, `Link`) alternatives
overlapped.

Only model-checked:

* liveness (`SessionEnds`, `EraseReturns`, `WindowEnds`, `RunEnds`, `UpdateEnds`, `TestsEnd`, `CallsReturn`) and `PressAnswered`, which is a
  leads-to as well: the prover does not treat fairness.

## 6. Findings

1. **A failed update can be followed by the old application** (`bootloader_failed_update`).
   `bootloader.h:160` and `ARCHITECTURE.md:108` say that *any* failure leaves the slot unsealed and the board in
   the bootloader. A session refused before the erase (silence after `u`, size 0 or too large, unlock failure) leaves
   the old tag, and `main` boots the old image at once - also when the button had asked to stay. The behaviour is safe
   (`RunsValidImage` holds); the statement is too wide.
2. **The erase of a protected sector never returns** (`flash_hang`). Only EOPIE is enabled; WRPERR and PGSERR raise no
   interrupt, so `flash.c:109` spins, the error branch of the handler is unreachable for a refused erase and the host
   is never answered.
3. **A READY line can take the place of the answer** (`upload_ready_race`). Rare (milliseconds of each second, and only
   if the tool reads a READY late) and harmless: `RequestIsHarmless`, and the next run works.
4. **A press can leave the LED as it was** (`led_toggle`). `GPIO/src/main.c:14` says that the callback toggles the LED on each press.
   `main` enables the interrupt and then blinks the same LED; a press between the read and the write of that toggle is overwritten. A few cycles,
   once after reset.
5. **`bn_reduce` reads a limb behind its accumulator** (`rsa_reduce`) when the key has `RSA_MAX_LIMBS` limbs, the modulus and the product their
   top bits set; the result is then wrong if that stack word is not zero. With shorter keys (`demos`) the result is right, as it is with the
   widest whenever that word is zero or is not read: `PowersAreRight` and `ReduceIsRemainder` prove it.

Disagreements of code and text that need no run, as they show in the text alone:

* `secure_fw_update.h:39-43` says that sectors 32-61 are erased, the tag is written to sector 62 and 0 is returned; the code erases 32-47,
  writes no tag and returns -2 (the comment in the code explains why).
* `Secure_FW_Update/src/main.c:92` reports "DONE" whatever the erases and programmings returned. `SecureUpdate` lets each of them fail;
  `UpdateEnds` and `StaysBootable` do not depend on it, and nothing is claimed of the fallback slot's contents.
* `App_Demo/src/main.c:7` speaks of the CRC tag, also when `Secure_Boot` started it, which knows none.

## 7. Not modelled, and the plan

Not to be modelled: TinyUSB (third-party), linker layouts, the build and CI scripts, console output, VBUS sensing
(compiled out), memory faults of torn flash words (ECC/NMI), real durations outside `BootWindow` and `Ticks`, clock and baud-rate set-up,
FDCAN bit timing, interrupt priorities (every caller asks for 0), `flash_protect.c`'s WRP staging (never committed), the readings of
UID, RDP and WRP, and the ECDSA stub's comparison of constants.

Known and without a property; all but the first two need calls no image of the repository makes:

* an image whose CRC-32 is 0xFFFFFFFF is answered OK and never boots, as its tag reads as a blank one (`bootloader.c:364`): one image in 2^32.
  No text says in so many words that an update answered OK boots; `bootloader` and `upload` have such an image, and nothing else goes wrong with it;
* the button callback of the NVIC demo prints, and a press during main's last line (`NVIC/src/main.c:64`) can fall between its test of TXE and its write of TDR (`uart.c:187`):
  a character is lost. No call promises otherwise; `Link` keeps to the UART demo, whose main does not write while its echo is on;
* a UART transfer by DMA with the channel's TC interrupt enabled never returns: the handler clears the flag that `USART_WriteDMA` polls (`uart.c:276`);
* a handler registered again while its interrupt is enabled could be dispatched with the old argument (`nvic.c:46`);
* a second `HASH_SHA256_Update` of one message would wait for DINIS; every caller makes one;
* after a line ended by CR LF the LF is left for whoever reads next, a transfer by DMA too.

What could come next: `bn_powmod` for the widest keys once `bn_reduce` has the bound its comparison lacks (`ReduceIsRemainder` is the lemma
that would be needed), and what is left of `TogglesEachPress` once main's own toggles of the LED are over.
