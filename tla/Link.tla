---------------------------------- MODULE Link ----------------------------------
(***************************************************************************)
(* USART2 and the LPDMA channels behind it: the drivers uart.c and dma.c    *)
(* under a client that runs the jobs of the UART and DMA demos in any order *)
(* and any number of times.  Main is preempted by USART_IRQHandler (the     *)
(* echo of the UART demo) and by the channel's TC handler; the line, the    *)
(* user and the channels never stand still.                                 *)
(*                                                                         *)
(* A byte is "CR" (ends a line), "LF" or "x" (any other); a block of a DMA  *)
(* job is a count of bytes.  The client keeps the demos' discipline: main   *)
(* neither reads nor writes the USART while the echo is on.                 *)
(***************************************************************************)
EXTENDS Integers

CONSTANTS
  Typed,   \* bound: bytes the user types in a behaviour
  Line,    \* bound: maxLength - 1 of USART_ReadString
  Block    \* bound: bytes of a DMA block and of a string

LinkBounds == Typed \in Nat /\ Line \in Nat \ {0} /\ Block \in Nat \ {0}

Channels == {"tx", "rx", "mem"}
Errors   == {"ORE", "NE"}    \* NE stands for NE, FE and PE
Quiet    == [en |-> FALSE, tcf |-> FALSE, todo |-> 0, failed |-> FALSE]

VARIABLES
  tdr,       \* TXE is clear: TDR holds a byte that has not gone out
  garbled,   \* some byte was written over another in TDR
  flags,     \* ISR: the receive flags that are set
  typed,     \* bytes the user has typed
  rdr,       \* RDR
  rxneie,    \* CR1.RXNEIE
  callback,  \* huart->callback is set
  dma,       \* CR3: DMAT and DMAR
  chan,      \* the channels: CR.EN, SR.TCF, BR1, stopped by an error
  tcie,      \* the TC interrupt of the mem channel is enabled and registered
  tcFlag,    \* dma_mem.tc_flag
  pc, left,  \* main: the step of its job and the bytes left
  hpc, isr   \* the handlers, and the ISR value USART_IRQHandler read

uart   == <<flags, typed, rdr>>
vars   == <<tdr, garbled, flags, typed, rdr, rxneie, callback, dma, chan, tcie, tcFlag, pc, left, hpc, isr>>

----------------------------------------------------------------------------
(* The line and the channels *)

(* A byte arrives; with RDR still full it is lost and ORE is set.           *)
ByteArrives ==
  /\ typed < Typed
  /\ typed' = typed + 1
  /\ \/ /\ "RXNE" \in flags
        /\ flags' = flags \cup {"ORE"}
        /\ UNCHANGED rdr
     \/ /\ "RXNE" \notin flags
        /\ rdr' \in {"x", "CR"}
        /\ \E noise \in SUBSET {"NE"} : flags' = flags \cup {"RXNE"} \cup noise
  /\ UNCHANGED <<tdr, garbled, rxneie, callback, dma, chan, tcie, tcFlag, pc, left, hpc, isr>>

ByteLeaves ==
  /\ tdr
  /\ tdr' = FALSE
  /\ UNCHANGED <<garbled, uart, rxneie, callback, dma, chan, tcie, tcFlag, pc, left, hpc, isr>>

WriteTDR == tdr' = TRUE /\ garbled' = (garbled \/ tdr)

(* One byte of the block, when the request of its peripheral is raised; the *)
(* last one ends the transfer.                                              *)
Moved(c) == [chan EXCEPT ![c] = [en |-> @.todo > 1, tcf |-> @.todo = 1,
                                 todo |-> @.todo - 1, failed |-> @.failed]]

ChannelMoves(c) ==
  /\ chan[c].en
  /\ chan' = Moved(c)
  /\ CASE c = "tx"  -> "tx" \in dma /\ ~tdr /\ WriteTDR /\ UNCHANGED flags
       [] c = "rx"  -> "rx" \in dma /\ "RXNE" \in flags /\ flags' = flags \ {"RXNE"} /\ UNCHANGED <<tdr, garbled>>
       [] OTHER     -> UNCHANGED <<tdr, garbled, flags>>
  /\ UNCHANGED <<typed, rdr, rxneie, callback, dma, tcie, tcFlag, pc, left, hpc, isr>>

(* A bus error stops a memory-to-memory transfer.                           *)
ChannelFails ==
  /\ chan["mem"].en
  /\ chan' = [chan EXCEPT !["mem"].en = FALSE, !["mem"].failed = TRUE]
  /\ UNCHANGED <<tdr, garbled, uart, rxneie, callback, dma, tcie, tcFlag, pc, left, hpc, isr>>

----------------------------------------------------------------------------
(* The handlers.  Both have one priority: neither interrupts the other.     *)

EnterUart ==
  /\ hpc = "idle" /\ rxneie /\ flags \cap {"RXNE", "ORE"} # {}
  /\ isr' = flags
  /\ hpc' = IF flags \cap Errors # {} THEN "errors" ELSE "take"
  /\ UNCHANGED <<tdr, garbled, uart, rxneie, callback, dma, chan, tcie, tcFlag, pc, left>>

DiscardKeepingErrors ==   \* mutant: the error flags are not cleared
  /\ hpc = "errors" /\ hpc' = "idle"
  /\ flags' = flags \ {"RXNE"}
  /\ isr' = {}
  /\ UNCHANGED <<tdr, garbled, typed, rdr, rxneie, callback, dma, chan, tcie, tcFlag, pc, left>>

Discard ==
  /\ hpc = "errors" /\ hpc' = "idle"
  /\ flags' = flags \ isr     \* the flags read, and RXNE by reading RDR
  /\ isr' = {}
  /\ UNCHANGED <<tdr, garbled, typed, rdr, rxneie, callback, dma, chan, tcie, tcFlag, pc, left>>

(* RDR is read; uart_rx_cb echoes the byte, CR as CR LF.                    *)
Take ==
  /\ hpc = "take"
  /\ flags' = flags \ {"RXNE"}
  /\ hpc' = IF callback THEN rdr ELSE "idle"
  /\ isr' = {}
  /\ UNCHANGED <<tdr, garbled, typed, rdr, rxneie, callback, dma, chan, tcie, tcFlag, pc, left>>

CallbackWrites ==
  /\ hpc \in {"x", "CR", "LF"} /\ ~tdr
  /\ WriteTDR
  /\ hpc' = IF hpc = "CR" THEN "LF" ELSE "idle"
  /\ UNCHANGED <<uart, rxneie, callback, dma, chan, tcie, tcFlag, pc, left, isr>>

(* dma_tc_irq_callback                                                      *)
TransferComplete ==
  /\ hpc = "idle" /\ tcie /\ chan["mem"].tcf
  /\ chan' = [chan EXCEPT !["mem"].tcf = FALSE]
  /\ tcFlag' = TRUE
  /\ UNCHANGED <<tdr, garbled, uart, rxneie, callback, dma, tcie, pc, left, hpc, isr>>

Handler == EnterUart \/ Discard \/ Take \/ CallbackWrites \/ TransferComplete

----------------------------------------------------------------------------
(* Main *)

Echoing == callback \/ rxneie
Goto(p, n) == pc' = p /\ left' = n
Busy(p) == hpc = "idle" /\ pc = p

StartJob ==
  /\ Busy("idle")
  /\ \E job \in IF Echoing THEN {"disable", "mem", "memIrq"}
                          ELSE {"write", "read", "txdma", "rxdma", "enable", "mem", "memIrq"} :
       Goto(job, IF job = "read" THEN Line ELSE Block)
  /\ UNCHANGED <<tdr, garbled, uart, rxneie, callback, dma, chan, tcie, tcFlag, hpc, isr>>

(* USART_WriteString: one USART_x_Write each                                *)
WriteString ==
  /\ Busy("write") /\ ~tdr
  /\ WriteTDR
  /\ IF left > 1 THEN Goto("write", left - 1) ELSE Goto("idle", 0)
  /\ UNCHANGED <<uart, rxneie, callback, dma, chan, tcie, tcFlag, hpc, isr>>

(* USART_ReadString: CR ends the line, and so does a full buffer.           *)
ReadChar ==
  /\ Busy("read") /\ "RXNE" \in flags
  /\ flags' = flags \ {"RXNE"}
  /\ Goto(IF rdr = "CR" THEN "readCR" ELSE "readEcho", left)
  /\ UNCHANGED <<tdr, garbled, typed, rdr, rxneie, callback, dma, chan, tcie, tcFlag, hpc, isr>>

ReadEchoes ==
  /\ pc \in {"readEcho", "readCR", "readLF"} /\ Busy(pc) /\ ~tdr
  /\ WriteTDR
  /\ CASE pc = "readCR" -> Goto("readLF", left)
       [] pc = "readLF" -> Goto("idle", 0)
       [] pc = "readEcho" -> IF left = 1 THEN Goto("idle", 0) ELSE Goto("read", left - 1)
  /\ UNCHANGED <<uart, rxneie, callback, dma, chan, tcie, tcFlag, hpc, isr>>

(* Writing 0 to EN does not stop a channel that is active, and an active    *)
(* channel is not reset.                                                    *)
DMA_StartKeepingFlags(c, n) ==   \* mutant: FCR is not written
  [chan EXCEPT ![c].en = TRUE, ![c].todo = n]

DMA_Start(c, n) ==
  [chan EXCEPT ![c] = [en |-> TRUE, tcf |-> FALSE, todo |-> n, failed |-> FALSE]]

DMA_Init(c) == IF chan[c].en THEN [chan EXCEPT ![c].tcf = FALSE] ELSE [chan EXCEPT ![c] = Quiet]

(* USART_WriteDMA and USART_ReadDMA: configured and started, then polled;   *)
(* the caller stops the channel and disables the USART's DMA requests.      *)
StartDMA(job, c) ==
  /\ Busy(job) /\ (c = "tx" => ~tdr)
  /\ dma' = dma \cup {c}
  /\ chan' = DMA_Start(c, Block)
  /\ Goto(c, 0)
  /\ UNCHANGED <<tdr, garbled, uart, rxneie, callback, tcie, tcFlag, hpc, isr>>

DMAComplete(c) ==
  /\ Busy(c) /\ chan[c].tcf
  /\ dma' = dma \ {c}
  /\ Goto("idle", 0)
  /\ UNCHANGED <<tdr, garbled, uart, rxneie, callback, chan, tcie, tcFlag, hpc, isr>>

(* The memory-to-memory tests of the DMA demo: DMA_Init, with the interrupt *)
(* DMA_EnableTCInterrupt, then DMA_Start.                                   *)
InitMem ==
  /\ pc \in {"mem", "memIrq"} /\ Busy(pc)
  /\ chan' = DMA_Init("mem")
  /\ tcie' = (pc = "memIrq")
  /\ tcFlag' = FALSE
  /\ Goto("memStart", left)
  /\ UNCHANGED <<tdr, garbled, uart, rxneie, callback, dma, hpc, isr>>

StartMem ==
  /\ Busy("memStart")
  /\ chan' = DMA_Start("mem", left)
  /\ tcFlag' = FALSE
  /\ Goto("memWait", 0)
  /\ UNCHANGED <<tdr, garbled, uart, rxneie, callback, dma, tcie, hpc, isr>>

(* Each poll is 500000 turns for 1 KB: it gives up only on a transfer that  *)
(* failed; that the others end within it is assumed, as their fairness.     *)
MemEnds ==
  /\ Busy("memWait")
  /\ (IF tcie THEN tcFlag ELSE chan["mem"].tcf) \/ chan["mem"].failed
  /\ tcie' = FALSE
  /\ Goto("idle", 0)
  /\ UNCHANGED <<tdr, garbled, uart, rxneie, callback, dma, chan, tcFlag, hpc, isr>>

(* USART_EnableRXInterrupt and USART_DisableRXInterrupt, two writes each    *)
EnableBackwards ==   \* mutant: RXNEIE before the callback
  /\ pc \in {"enable", "enabled"} /\ Busy(pc)
  /\ IF pc = "enable" THEN rxneie' = TRUE /\ Goto("enabled", 0) /\ UNCHANGED callback
                      ELSE callback' = TRUE /\ Goto("idle", 0) /\ UNCHANGED rxneie
  /\ UNCHANGED <<tdr, garbled, uart, dma, chan, tcie, tcFlag, hpc, isr>>

EnableRXInterrupt ==
  /\ pc \in {"enable", "enabled"} /\ Busy(pc)
  /\ IF pc = "enable" THEN callback' = TRUE /\ Goto("enabled", 0) /\ UNCHANGED rxneie
                      ELSE rxneie' = TRUE /\ Goto("idle", 0) /\ UNCHANGED callback
  /\ UNCHANGED <<tdr, garbled, uart, dma, chan, tcie, tcFlag, hpc, isr>>

DisableRXInterrupt ==
  /\ pc \in {"disable", "disabled"} /\ Busy(pc)
  /\ IF pc = "disable" THEN rxneie' = FALSE /\ Goto("disabled", 0) /\ UNCHANGED callback
                       ELSE callback' = FALSE /\ Goto("idle", 0) /\ UNCHANGED rxneie
  /\ UNCHANGED <<tdr, garbled, uart, dma, chan, tcie, tcFlag, hpc, isr>>

Main ==
  \/ WriteString \/ ReadChar \/ ReadEchoes
  \/ StartDMA("txdma", "tx") \/ StartDMA("rxdma", "rx")
  \/ DMAComplete("tx") \/ DMAComplete("rx")
  \/ InitMem \/ StartMem \/ MemEnds
  \/ EnableRXInterrupt \/ DisableRXInterrupt

----------------------------------------------------------------------------
Init ==
  /\ tdr = FALSE /\ garbled = FALSE
  /\ flags = {} /\ typed = 0 /\ rdr = "x"
  /\ rxneie = FALSE /\ callback = FALSE /\ dma = {}
  /\ chan = [c \in Channels |-> Quiet]
  /\ tcie = FALSE /\ tcFlag = FALSE
  /\ pc = "idle" /\ left = 0 /\ hpc = "idle" /\ isr = {}

Next == \/ ByteArrives \/ ByteLeaves \/ ChannelFails \/ \E c \in Channels : ChannelMoves(c)
        \/ Handler \/ StartJob \/ Main

(* The line empties TDR and the channels move their bytes; handlers run to  *)
(* their end and main runs whenever no handler does.  The user owes nothing.*)
Fairness == /\ WF_vars(ByteLeaves) /\ \A c \in Channels : WF_vars(ChannelMoves(c))
            /\ WF_vars(Handler) /\ WF_vars(Main)

Spec == Init /\ [][Next]_vars /\ Fairness
----------------------------------------------------------------------------
(* Writing TDR waits for TXE, and so does the channel: no byte waiting to   *)
(* go out is written over, whoever writes next.                             *)
NothingGarbled == ~garbled

(* A job that returned left nothing behind: no channel moves bytes between  *)
(* a buffer and the USART or memory, and a poll reports only its own        *)
(* transfer.  (Stopping a channel would not help: EN cannot be cleared.)    *)
QuietWhenIdle == pc = "idle" => \A c \in Channels : ~chan[c].en

(* A byte received without error while its interrupt is enabled reaches the *)
(* callback: the window between the two writes of USART_EnableRXInterrupt   *)
(* and USART_DisableRXInterrupt loses none.                                 *)
EchoDelivers == hpc = "take" => callback

(* Every job that does not wait for the user returns, whatever the user     *)
(* types and the line disturbs: no flag is left that interrupts main for    *)
(* ever, and no completion is missed.                                       *)
JobsReturn == pc \notin {"idle", "read", "rx"} ~> pc \in {"idle", "read", "rx"}
================================================================================
