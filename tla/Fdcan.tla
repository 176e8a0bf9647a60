--------------------------------- MODULE Fdcan ---------------------------------
(***************************************************************************)
(* The FDCAN driver (Drivers/FDCAN/src/fdcan.c) under its demo's main:      *)
(* CAN_LoopbackTest on a handle in loop-back mode, then CAN_TransceiverTest *)
(* on a handle in normal mode, over the message RAM, the Tx FIFO and Rx     *)
(* FIFO 0 of the reference manual (RM0522 46.4).  There is one core: main   *)
(* stands still while the handler runs; the peripheral never does.          *)
(*                                                                         *)
(* A frame is its identifier and its first data byte, which is all the      *)
(* tests tell apart.  The LED, the UART and the delays are left out.        *)
(***************************************************************************)
EXTENDS Integers, Sequences

CONSTANTS
  CounterMod,  \* bound: values of the counter byte (256 in C)
  Loops,       \* bound: NO_OF_CONT_TX_RX_TEST (500 in C, counted in a uint16_t)
  RemoteMod    \* bound: distinct frames of the other node

ASSUME BoundsAssumption ==
  /\ CounterMod \in Nat \ {0} /\ Loops \in Nat \ {0} /\ RemoteMod \in Nat \ {0}
  /\ Loops < 65536

Elements == 3         \* of Rx FIFO 0 and of the Tx FIFO
Index    == 0..(Elements - 1)

Stages == {"L1", "L2", "L3", "T1", "T2", "T3", "T4", "Done"}
Zero   == [id |-> 0, byte |-> 0]
Counter == 0..(CounterMod - 1)

(* tx_msg of each phase of the two tests.                                   *)
Message(s, c) ==
  CASE s = "L1" -> [id |-> 291,  byte |-> 222]
    [] s = "L2" -> [id |-> 1110, byte |-> 202]
    [] s = "T1" -> [id |-> 512,  byte |-> 67]
    [] s = "T3" -> [id |-> 513,  byte |-> 66]
    [] OTHER    -> [id |-> 256,  byte |-> c]

Remote(n) == [id |-> 768, byte |-> n]
Frame == {Zero} \cup {Message(s, c) : s \in Stages, c \in Counter}
                \cup {Remote(n) : n \in 0..(RemoteMod - 1)}

VARIABLES
  mode,      \* CCCR.TEST and TEST.LBCK: "loopback" or "normal"
  slot, get, fill,  \* Rx FIFO 0: its elements, F0GI and F0FL
  rf0n,      \* IR.RF0N
  elem, pending, put, txbto,  \* Tx FIFO: its elements, TXBRP in order, TFQPI, TXBTO
  feedback,  \* loop-back: frames sent and not yet stored
  bus,       \* the last frame the controller sent
  heard,     \* the next frame of the other node
  irq,       \* IE.RF0NE, and the handler registered
  hpc,       \* fdcan_it0_handler: "idle", "flagCleared", "reading", "callback"
  read,      \* CAN_ReadFIFO between the load of an element and its acknowledge
  taken,     \* the frame CAN_ReadFIFO returned last
  stage, pc, \* where the tests are
  tx, buf, result,  \* tx_msg, buf_idx and the result of CAN_Transmit
  rx, irqRx, received,  \* rx_msg, s_irq_rx_msg, s_irq_msg_received
  counter, round, pass  \* the byte that is sent, and the loop index of phase 4

rxfifo == <<slot, get, fill>>
txfifo == <<elem, pending, put, txbto>>
locals == <<tx, buf, result>>
test   == <<stage, pc, tx, buf, result, rx, counter, round, pass>>
answer == <<irqRx, received>>
vars   == <<mode, slot, get, fill, rf0n, elem, pending, put, txbto, feedback, bus, heard,
            irq, hpc, read, taken, stage, pc, tx, buf, result, rx, irqRx, received, counter,
            round, pass>>

----------------------------------------------------------------------------
(* The peripheral *)

(* A received frame is stored behind the others and RF0N is set; with the   *)
(* FIFO full it is lost (blocking mode).                                    *)
Store(f) ==
  IF fill < Elements
    THEN /\ slot' = [slot EXCEPT ![(get + fill) % Elements] = f]
         /\ fill' = fill + 1
         /\ rf0n' = TRUE
         /\ UNCHANGED get
    ELSE UNCHANGED <<rxfifo, rf0n>>

RemoteSends ==
  /\ mode = "normal"
  /\ Store(Remote(heard))
  /\ heard' = (heard + 1) % RemoteMod
  /\ UNCHANGED <<mode, txfifo, feedback, bus, irq, hpc, read, taken, test, answer>>

(* The oldest request is served: its frame goes out, or, on a real bus,     *)
(* loses arbitration or is disturbed and is not tried again (DAR).  A frame *)
(* that loops back is stored before the next one starts.                    *)
FrameSent ==
  /\ pending # <<>> /\ feedback = <<>>
  /\ LET i == Head(pending) IN
       /\ txbto' = txbto \cup {i}
       /\ bus' = elem[i]
       /\ feedback' = IF mode = "loopback" THEN Append(feedback, elem[i]) ELSE feedback
  /\ pending' = Tail(pending)
  /\ UNCHANGED <<mode, rxfifo, rf0n, elem, put, heard, irq, hpc, read, taken, test, answer>>

FrameAborted ==
  /\ mode = "normal" /\ pending # <<>>
  /\ pending' = Tail(pending)
  /\ UNCHANGED <<mode, rxfifo, rf0n, elem, put, txbto, feedback, bus, heard, irq, hpc, read,
                 taken, test, answer>>

FrameLooped ==
  /\ feedback # <<>>
  /\ Store(Head(feedback))
  /\ feedback' = Tail(feedback)
  /\ UNCHANGED <<mode, txfifo, bus, heard, irq, hpc, read, taken, test, answer>>

----------------------------------------------------------------------------
(* CAN_ReadFIFO *)

LoadElement == read' = [at |-> get, frame |-> slot[get]]

NotReading == read = [at |-> -1, frame |-> Zero]

AcknowledgeNext ==   \* mutant: RXF0A takes the next index
  /\ get' = (read.at + 2) % Elements
  /\ fill' = fill - 1
  /\ taken' = read.frame
  /\ read' = [at |-> -1, frame |-> Zero]
  /\ UNCHANGED slot

(* The acknowledge frees the element; the copy is parsed afterwards.        *)
Acknowledge ==
  /\ get' = (read.at + 1) % Elements
  /\ fill' = fill - 1
  /\ taken' = read.frame
  /\ read' = [at |-> -1, frame |-> Zero]
  /\ UNCHANGED slot

----------------------------------------------------------------------------
(* fdcan_it0_handler and its callback *)

HandlerEnter ==
  /\ irq /\ rf0n /\ hpc = "idle"
  /\ rf0n' = FALSE
  /\ hpc' = "flagCleared"
  /\ UNCHANGED <<mode, rxfifo, txfifo, feedback, bus, heard, irq, read, taken, test, answer>>

HandlerReadsAlways ==   \* mutant: the FIFO is read without a look at its fill level
  /\ hpc = "flagCleared"
  /\ LoadElement /\ hpc' = "reading"
  /\ UNCHANGED <<mode, rxfifo, rf0n, txfifo, feedback, bus, heard, irq, taken, test, answer>>

HandlerReads ==
  /\ hpc = "flagCleared"
  /\ IF fill = 0 THEN hpc' = "idle" /\ UNCHANGED read
                 ELSE hpc' = "reading" /\ LoadElement
  /\ UNCHANGED <<mode, rxfifo, rf0n, txfifo, feedback, bus, heard, irq, taken, test, answer>>

HandlerFrees ==
  /\ hpc = "reading"
  /\ Acknowledge
  /\ hpc' = "callback"
  /\ UNCHANGED <<mode, txfifo, rf0n, feedback, bus, heard, irq, test, answer>>

HandlerClearsLast ==   \* mutant: the flag is cleared after the read
  /\ hpc = "callback"
  /\ irqRx' = taken /\ received' = TRUE
  /\ rf0n' = FALSE
  /\ hpc' = "idle"
  /\ UNCHANGED <<mode, rxfifo, txfifo, feedback, bus, heard, irq, read, taken, test>>

HandlerReturns ==
  /\ hpc = "callback"
  /\ irqRx' = taken /\ received' = TRUE   \* loopback_irq_callback
  /\ hpc' = "idle"
  /\ UNCHANGED <<mode, rxfifo, rf0n, txfifo, feedback, bus, heard, irq, read, taken, test>>

----------------------------------------------------------------------------
(* Main: the driver's calls *)

MainAt(l) == hpc = "idle" /\ pc = l

(* CAN_Transmit up to TXBAR; a full Tx FIFO is refused.                     *)
Transmit ==
  /\ MainAt("Send")
  /\ tx' = Message(stage, counter)
  /\ IF Len(pending) = Elements
       THEN /\ result' = -1 /\ pc' = "Sent"
            /\ UNCHANGED <<txfifo, buf>>
       ELSE /\ buf' = put /\ pc' = "Polling"
            /\ elem' = [elem EXCEPT ![put] = tx']
            /\ pending' = Append(pending, put)
            /\ txbto' = txbto \ {put}
            /\ put' = (put + 1) % Elements
            /\ UNCHANGED result
  /\ UNCHANGED <<mode, rxfifo, rf0n, feedback, bus, heard, irq, hpc, read, taken, stage, rx,
                 answer, counter, round, pass>>

OccurredAny == txbto # {}   \* mutant: TXBTO # 0
Occurred    == buf \in txbto

(* The poll of TXBTO times out at any point; the request stays.             *)
TransmitEnds ==
  /\ MainAt("Polling")
  /\ \/ Occurred /\ result' = 0
     \/ ~Occurred /\ result' = -1
  /\ pc' = "Sent"
  /\ UNCHANGED <<mode, rxfifo, rf0n, txfifo, feedback, bus, heard, irq, hpc, read, taken, stage,
                 tx, buf, rx, answer, counter, round, pass>>

ReceivePolls ==
  /\ MainAt("Receive")
  /\ \/ /\ fill > 0
        /\ LoadElement /\ pc' = "Acknowledge"
     \/ /\ fill = 0 /\ stage = "T4"    \* the only caller that does not spin
        /\ pc' = "Again" /\ UNCHANGED read
  /\ UNCHANGED <<mode, rxfifo, rf0n, txfifo, feedback, bus, heard, irq, hpc, taken, stage, locals,
                 rx, answer, counter, round, pass>>

ReceiveEnds ==
  /\ MainAt("Acknowledge")
  /\ Acknowledge
  /\ rx' = taken'
  /\ pc' = "Check"
  /\ UNCHANGED <<mode, rf0n, txfifo, feedback, bus, heard, irq, hpc, stage, locals, answer,
                 counter, round, pass>>

ArmUnregistered ==   \* mutant: the handler is not registered
  /\ MainAt("Arm")
  /\ received' = FALSE
  /\ pc' = "Send"
  /\ UNCHANGED <<mode, rxfifo, rf0n, txfifo, feedback, bus, heard, irq, hpc, read, taken, stage,
                 locals, rx, irqRx, counter, round, pass>>

(* CAN_EnableRXInterrupt, with the flag cleared before it.                  *)
Arm ==
  /\ MainAt("Arm")
  /\ received' = FALSE /\ irq' = TRUE
  /\ pc' = "Send"
  /\ UNCHANGED <<mode, rxfifo, rf0n, txfifo, feedback, bus, heard, hpc, read, taken, stage, locals,
                 rx, irqRx, counter, round, pass>>

----------------------------------------------------------------------------
(* Main: the two tests *)

Begin(s) == stage' = s /\ pc' = CASE s \in {"L2", "T3"} -> "Arm"
                                  [] s = "T2"           -> "Receive"
                                  [] OTHER              -> "Send"

(* CAN_Init: setting CCE empties both FIFOs, the message RAM is zeroed and  *)
(* the handlers of the peripheral are idle; IR keeps its flags.             *)
CAN_Init(m) ==
  /\ mode' = m
  /\ slot' = [i \in Index |-> Zero] /\ get' = 0 /\ fill' = 0
  /\ elem' = [i \in Index |-> Zero] /\ pending' = <<>> /\ put' = 0 /\ txbto' = {}
  /\ feedback' = <<>>

StartTransceiver ==
  /\ CAN_Init("normal")
  /\ Begin("T1")
  /\ counter' = 0 /\ round' = 0 /\ pass' = 0
  /\ UNCHANGED <<rf0n, bus, heard, irq, hpc, read, taken, locals, rx, answer>>

(* The phases that wait for the callback do so after a failure, too.        *)
WaitsIfSent == stage \in {"L2", "T3"} /\ result = 0   \* mutant: a failed phase polls instead
Waits       == stage \in {"L2", "T3"}

(* What each phase makes of the result of CAN_Transmit.                     *)
AfterTransmit ==
  /\ MainAt("Sent")
  /\ IF stage = "L1" /\ result # 0
       THEN StartTransceiver
       ELSE /\ pass' = IF result # 0 /\ stage \in {"L2", "L3", "T1"} THEN -1 ELSE pass
            /\ CASE stage = "T1"                  -> Begin("T2")
                 [] Waits                         -> pc' = "Wait" /\ UNCHANGED stage
                 [] stage = "L3" /\ result # 0    -> pc' = "Again" /\ UNCHANGED stage
                 [] OTHER                         -> pc' = "Receive" /\ UNCHANGED stage
            /\ UNCHANGED <<mode, rxfifo, rf0n, txfifo, feedback, bus, heard, irq, hpc, read, taken,
                           locals, rx, answer, counter, round>>

WaitForCallback ==
  /\ MainAt("Wait") /\ received
  /\ pc' = "Check"
  /\ UNCHANGED <<mode, rxfifo, rf0n, txfifo, feedback, bus, heard, irq, hpc, read, taken, stage,
                 locals, rx, answer, counter, round, pass>>

Answer == IF stage \in {"L2", "T3"} THEN irqRx ELSE rx

(* L1 and L2 compare and fail the test; the other phases print.             *)
Check ==
  /\ MainAt("Check")
  /\ pass' = IF stage \in {"L1", "L2"} /\ Answer # tx THEN -1 ELSE pass
  /\ CASE stage = "L1"             -> Begin("L2")
       [] stage = "T2"             -> Begin("T3")
       [] stage \in {"L2", "T3"}   -> pc' = "Disarm" /\ UNCHANGED stage
       [] OTHER                    -> pc' = "Again" /\ UNCHANGED stage
  /\ UNCHANGED <<mode, rxfifo, rf0n, txfifo, feedback, bus, heard, irq, hpc, read, taken, locals,
                 rx, answer, counter, round>>

(* CAN_DisableRXInterrupt.                                                  *)
Disarm ==
  /\ MainAt("Disarm")
  /\ irq' = FALSE
  /\ Begin(IF stage = "L2" THEN "L3" ELSE "T4")
  /\ counter' = 0 /\ round' = 0
  /\ UNCHANGED <<mode, rxfifo, rf0n, txfifo, feedback, bus, heard, hpc, read, taken, locals, rx,
                 answer, pass>>

(* The end of an iteration: L3 runs until B1 is pressed, T4 Loops times.    *)
LoopL3 ==
  /\ MainAt("Again") /\ stage = "L3"
  /\ \/ StartTransceiver      \* B1 pressed
     \/ /\ counter' = (counter + 1) % CounterMod
        /\ pc' = "Send"
        /\ UNCHANGED <<mode, rxfifo, rf0n, txfifo, feedback, bus, heard, irq, hpc, read, taken,
                       stage, locals, rx, answer, round, pass>>

LoopT4 ==
  /\ MainAt("Again") /\ stage = "T4"
  /\ counter' = (counter + 1) % CounterMod
  /\ round' = (round + 1) % Loops
  /\ IF round + 1 < Loops THEN pc' = "Send" /\ UNCHANGED stage
                          ELSE pc' = "Done" /\ stage' = "Done"
  /\ UNCHANGED <<mode, rxfifo, rf0n, txfifo, feedback, bus, heard, irq, hpc, read, taken, locals,
                 rx, answer, pass>>

----------------------------------------------------------------------------
Init ==
  /\ mode = "loopback"
  /\ slot = [i \in Index |-> Zero] /\ get = 0 /\ fill = 0 /\ rf0n = FALSE
  /\ elem = [i \in Index |-> Zero] /\ pending = <<>> /\ put = 0 /\ txbto = {}
  /\ feedback = <<>> /\ bus = Zero /\ heard = 0
  /\ irq = FALSE /\ hpc = "idle" /\ NotReading /\ taken = Zero
  /\ stage = "L1" /\ pc = "Send"
  /\ tx = Zero /\ buf = 0 /\ result = 0
  /\ rx = Zero /\ irqRx = Zero /\ received = FALSE /\ counter = 0 /\ round = 0 /\ pass = 0

Peripheral == RemoteSends \/ FrameSent \/ FrameAborted \/ FrameLooped
Handler    == HandlerEnter \/ HandlerReads \/ HandlerFrees \/ HandlerReturns
Main       == \/ Transmit \/ TransmitEnds \/ ReceivePolls \/ ReceiveEnds \/ Arm \/ AfterTransmit
              \/ WaitForCallback \/ Check \/ Disarm \/ LoopL3 \/ LoopT4
Next       == Peripheral \/ Handler \/ Main

(* The program runs.  Main needs strong fairness because the handler stops  *)
(* it again and again; a frame time is far longer than the handler, so it   *)
(* always gets on.  The controller sends its own frames in loop-back mode,  *)
(* and the transceiver test requires another node that goes on sending.     *)
Fairness ==
  /\ SF_vars(Main) /\ WF_vars(Handler)
  /\ WF_vars(mode = "loopback" /\ FrameSent) /\ WF_vars(FrameLooped)
  /\ WF_vars(RemoteSends)

Spec == Init /\ [][Next]_vars /\ Fairness

----------------------------------------------------------------------------
(* Properties *)

(* A full Rx FIFO stores nothing more and so raises no further interrupt:   *)
(* whenever it is full the new-message flag stands, or the handler has      *)
(* cleared it and has yet to free an element.  Otherwise reception by       *)
(* interrupt would stop for good.                                           *)
FullRaises == fill = Elements => rf0n \/ hpc # "idle"

(* The frames waiting in the message RAM, oldest first.                     *)
Waiting == [i \in 1..fill |-> slot[(get + i - 1) % Elements]]
Q == INSTANCE RxQueue WITH Cap <- Elements, queue <- Waiting

(* CAN_ReadFIFO, polled or in the handler, with frames arriving in the      *)
(* middle of it, takes each frame once, in order and unharmed.              *)
ReadsAsQueue == Q!Spec

(* CAN_Transmit reports success only for a frame the controller has sent:   *)
(* the outcome of an earlier, timed-out frame is not taken for this one's.  *)
SuccessWasSent == pc = "Sent" /\ result = 0 => bus = tx

(* In loop-back mode a phase gets back the frame it sent: no frame and no   *)
(* interrupt flag of an earlier phase is taken for its answer, also when    *)
(* CAN_Transmit gave the frame up and it came all the same; the verdict is  *)
(* that of CAN_Transmit.  The endless phase may take a frame of its own,    *)
(* which it gave up, for a later one, but only when its verdict has fallen. *)
LoopbackMatches ==
  mode = "loopback" /\ pc = "Check" =>
    /\ Answer = tx \/ (stage = "L3" /\ pass = -1 /\ Answer.id = tx.id)
    /\ stage # "L3" => pass = result

(* The loop-back test gets to its endless phase, or fails its first phase   *)
(* and is over; the transceiver test ends when another node goes on         *)
(* sending.  No interrupt that is needed is lost, and no transmission is    *)
(* waited for for ever.                                                     *)
TestsEnd == stage \in {"L1", "T1"} ~> stage \in {"L3", "Done"}
================================================================================
