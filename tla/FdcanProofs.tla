------------------------------ MODULE FdcanProofs ------------------------------
(***************************************************************************)
(* What Fdcan promises, whatever the bounds on counters and frames: no      *)
(* interrupt of a full Rx FIFO is lost, CAN_ReadFIFO reads a queue, and the *)
(* tests' answers are true.                                                 *)
(***************************************************************************)
EXTENDS Fdcan, SequenceTheorems, TLAPS

----------------------------------------------------------------------------
(* The inductive invariant *)

TypeOK ==
  /\ mode \in {"loopback", "normal"}
  /\ slot \in [Index -> Frame] /\ get \in Index /\ fill \in 0..Elements /\ rf0n \in BOOLEAN
  /\ elem \in [Index -> Frame] /\ pending \in Seq(Index) /\ put \in Index /\ txbto \subseteq Index
  /\ feedback \in Seq(Frame) /\ bus \in Frame /\ heard \in 0..(RemoteMod - 1)
  /\ irq \in BOOLEAN /\ hpc \in {"idle", "flagCleared", "reading", "callback"}
  /\ read \in [at : -1..(Elements - 1), frame : Frame] /\ taken \in Frame
  /\ stage \in Stages
  /\ pc \in {"Send", "Polling", "Sent", "Receive", "Acknowledge", "Arm", "Wait", "Check",
             "Disarm", "Again", "Done"}
  /\ tx \in Frame /\ buf \in Index /\ result \in {-1, 0}
  /\ rx \in Frame /\ irqRx \in Frame /\ received \in BOOLEAN
  /\ counter \in Counter /\ round \in 0..(Loops - 1) /\ pass \in {-1, 0}

(* The handler runs only in the phases that wait for it, and main reads the *)
(* FIFO only in the others.                                                 *)
FlowInv ==
  /\ mode = "loopback" <=> stage \in {"L1", "L2", "L3"}
  /\ irq => stage \in {"L2", "T3"} /\ pc \in {"Send", "Polling", "Sent", "Wait", "Check", "Disarm"}
  /\ hpc # "idle" => irq
  /\ pc \in {"Arm", "Wait", "Disarm"} => stage \in {"L2", "T3"}
  /\ pc \in {"Receive", "Acknowledge", "Again"} => stage \notin {"L2", "T3"}
  /\ pc = "Done" => stage = "Done"

(* A reader of the FIFO holds its oldest element until it frees it, and a   *)
(* frame stored since then has raised the flag again.                       *)
RxInv ==
  /\ FullRaises
  /\ hpc = "callback" /\ fill = Elements => rf0n
  /\ hpc = "reading" \/ pc = "Acknowledge" => fill > 0 /\ read = [at |-> get, frame |-> slot[get]]

(* The requests are a run of the ring that ends before put; the one polled  *)
(* is the youngest, so with it sent none is left.                           *)
TxInv ==
  /\ Len(pending) <= Elements
  /\ \A k \in 1..Len(pending) : pending[k] = (put + Elements - Len(pending) + k - 1) % Elements
  /\ pc = "Polling" => elem[buf] = tx /\ put = (buf + 1) % Elements
  /\ pc = "Polling" /\ buf \in txbto => pending = <<>> /\ bus = tx
  /\ pc = "Sent" /\ result = 0 => pending = <<>> /\ bus = tx

(* Where the one frame of a loop-back phase is: requested, on its way back, *)
(* in the FIFO, or taken.                                                   *)
Sending == /\ pending = <<buf>> /\ elem[buf] = tx
           /\ feedback = <<>> /\ fill = 0 /\ buf \notin txbto
Looping == pending = <<>> /\ Len(feedback) = 1 /\ feedback[1] = tx /\ fill = 0 /\ buf \in txbto
Stored  == pending = <<>> /\ feedback = <<>> /\ fill = 1 /\ slot[get] = tx /\ buf \in txbto
Taken   == pending = <<>> /\ feedback = <<>> /\ fill = 0

(* That is known until the endless phase gives a frame up.                  *)
Known == mode = "loopback" /\ (stage = "L3" => pass = 0)

LoopInv ==
  Known =>
    /\ stage = "L1" \/ (stage = "L2" /\ pc \in {"Arm", "Send", "Polling", "Sent"}) => pass = 0
    /\ stage = "L1" /\ pc \in {"Receive", "Acknowledge", "Check"} => result = 0
    /\ stage = "L2" /\ pc \in {"Wait", "Check"} => pass = result
    /\ pc \in {"Send", "Arm", "Check", "Disarm", "Again"} => Taken
    /\ pc \in {"Polling", "Sent", "Wait", "Receive", "Acknowledge"} =>
         Sending \/ Looping \/ Stored \/ (Taken /\ buf \in txbto)
    /\ pc \in {"Polling", "Sent", "Wait", "Receive", "Acknowledge"} /\ Taken =>
         stage = "L2" /\ (hpc = "callback" \/ received)
    /\ hpc = "callback" => Taken /\ taken = tx /\ pc \in {"Polling", "Sent", "Wait"}
    /\ stage = "L2" /\ pc = "Send" => ~received
    /\ stage = "L2" /\ pc # "Arm" /\ received => Taken /\ irqRx = tx
    /\ stage = "L2" /\ pc \in {"Check", "Disarm"} => received
    /\ stage # "L2" /\ pc = "Check" => rx = tx

IInv == TypeOK /\ FlowInv /\ RxInv /\ TxInv /\ LoopInv

----------------------------------------------------------------------------
(* The invariant holds at first *)

(* What the message RAM may hold.                                           *)
LEMMA Frames ==
  /\ Zero \in Frame
  /\ \A s \in Stages, c \in Counter : Message(s, c) \in Frame
  /\ \A n \in 0..(RemoteMod - 1) : Remote(n) \in Frame
  BY DEF Frame

LEMMA InitInv == Init => IInv
  <1> SUFFICES ASSUME Init PROVE IInv
    OBVIOUS
  <1>1. TypeOK
    <2>1. /\ slot \in [Index -> Frame] /\ elem \in [Index -> Frame]
          /\ get \in Index /\ put \in Index /\ buf \in Index /\ fill \in 0..Elements
      BY Frames DEF Init, Index, Elements
    <2>4. counter \in Counter /\ heard \in 0..(RemoteMod - 1) /\ round \in 0..(Loops - 1)
      <3>1. counter = 0 /\ heard = 0 /\ round = 0
        BY DEF Init
      <3>2. 0 \in 0..(CounterMod - 1) /\ 0 \in 0..(RemoteMod - 1) /\ 0 \in 0..(Loops - 1)
        BY BoundsAssumption
      <3> QED
        BY <3>1, <3>2 DEF Counter
    <2>2. read \in [at : -1..(Elements - 1), frame : Frame]
      BY Frames DEF Init, NotReading, Elements
    <2>3. pending \in Seq(Index) /\ feedback \in Seq(Frame) /\ stage \in Stages
      BY DEF Init, Stages
    <2> QED
      BY <2>1, <2>2, <2>3, <2>4, Frames DEF Init, TypeOK
  <1>2. FlowInv /\ RxInv /\ TxInv /\ LoopInv
    BY DEF Init, FlowInv, RxInv, FullRaises, Elements, TxInv, LoopInv, Known, Taken
  <1> QED
    BY <1>1, <1>2 DEF IInv

----------------------------------------------------------------------------
(* Steps that several actions share *)

(* What the branches of the tests come to.                                  *)
LEMMA Begins ==
  ASSUME NEW s, Begin(s)
  PROVE  /\ stage' = s
         /\ s \in {"L2", "T3"} => pc' = "Arm"
         /\ s = "T2" => pc' = "Receive"
         /\ s \notin {"L2", "T2", "T3"} => pc' = "Send"
  BY DEF Begin

(* A frame that is stored goes behind those that wait.                      *)
LEMMA Stores ==
  ASSUME TypeOK, NEW f \in Frame, Store(f)
  PROVE  /\ slot' \in [Index -> Frame] /\ get' = get /\ fill' \in 0..Elements /\ rf0n' \in BOOLEAN
         /\ fill = Elements => slot' = slot /\ fill' = fill /\ rf0n' = rf0n
         /\ fill # Elements => fill' = fill + 1 /\ rf0n' /\ slot' = [slot EXCEPT ![(get + fill) % Elements] = f]
         /\ fill > 0 => slot'[get] = slot[get]
         /\ fill = 0 => slot'[get] = f
  <1>1. /\ slot \in [Index -> Frame] /\ get \in Index /\ fill \in 0..Elements /\ rf0n \in BOOLEAN
        /\ (get + fill) % Elements \in Index /\ 0 < Elements
    BY DEF TypeOK, Index, Elements
  <1>2. CASE fill = Elements
    <2>1. slot' = slot /\ get' = get /\ fill' = fill /\ rf0n' = rf0n
      BY <1>1, <1>2 DEF Store, rxfifo, Elements
    <2> QED
      BY <1>1, <1>2, <2>1
  <1>3. CASE fill # Elements
    <2>1. /\ get' = get /\ fill' = fill + 1 /\ rf0n' = TRUE
          /\ slot' = [slot EXCEPT ![(get + fill) % Elements] = f]
      BY <1>1, <1>3 DEF Store, Elements
    <2>2. slot' \in [Index -> Frame] /\ fill' \in 0..Elements
      BY <1>1, <1>3, <2>1 DEF Elements
    <2>3. fill > 0 => get # (get + fill) % Elements
      BY <1>1, <1>3 DEF Index, Elements
    <2>4. fill = 0 => get = (get + fill) % Elements
      BY <1>1, <1>3 DEF Index, Elements
    <2>5. (fill > 0 => slot'[get] = slot[get]) /\ (fill = 0 => slot'[get] = f)
      BY <1>1, <2>1, <2>3, <2>4
    <2>6. rf0n' \in BOOLEAN /\ rf0n'
      BY <2>1
    <2> QED
      BY <1>3, <2>1, <2>2, <2>5, <2>6
  <1> QED
    BY <1>2, <1>3

(* The youngest request of the ring is the oldest when it is the only one.  *)
LEMMA Youngest ==
  ASSUME NEW b \in Index, NEW n \in 1..Elements, b = (((b + 1) % Elements) + Elements - n) % Elements
  PROVE  n = 1
  <1>1. CASE b = 0
    BY <1>1 DEF Index, Elements
  <1>2. CASE b = 1
    BY <1>2 DEF Index, Elements
  <1>3. CASE b = 2
    BY <1>3 DEF Index, Elements
  <1> QED
    BY <1>1, <1>2, <1>3 DEF Index, Elements

----------------------------------------------------------------------------
(* Every step keeps it *)

LEMMA RemoteSendsInv ==
  ASSUME IInv, RemoteSends
  PROVE  IInv'
  <1>1. /\ TypeOK /\ FlowInv /\ RxInv /\ TxInv /\ mode = "normal" /\ heard \in 0..(RemoteMod - 1)
        /\ heard' = (heard + 1) % RemoteMod
        /\ UNCHANGED <<mode, txfifo, feedback, bus, irq, hpc, read, taken, test, answer>>
    BY DEF IInv, RemoteSends, TypeOK
  <1>2. PICK f \in Frame : Store(f)
    BY <1>1, Frames DEF RemoteSends
  <1>3. /\ slot' \in [Index -> Frame] /\ get' = get /\ fill' \in 0..Elements /\ rf0n' \in BOOLEAN
        /\ fill = Elements => slot' = slot /\ fill' = fill /\ rf0n' = rf0n
        /\ fill # Elements => fill' = fill + 1 /\ rf0n'
        /\ fill > 0 => slot'[get] = slot[get]
    BY <1>1, <1>2, Stores
  <1>4. TypeOK'
    <2>1. heard' \in 0..(RemoteMod - 1)
      BY <1>1, BoundsAssumption
    <2>2. get' \in Index
      BY <1>1, <1>3 DEF TypeOK
    <2> QED
      BY <1>1, <1>3, <2>1, <2>2 DEF TypeOK, txfifo, test, answer
  <1>5. RxInv'
    BY <1>1, <1>3 DEF RxInv, FullRaises, TypeOK, Elements, test
  <1>6. FlowInv' /\ TxInv' /\ LoopInv'
    BY <1>1 DEF FlowInv, TxInv, LoopInv, Known, txfifo, test
  <1> QED
    BY <1>4, <1>5, <1>6 DEF IInv

(* With the oldest request gone, the others are still a run that ends       *)
(* before put.                                                              *)
LEMMA RequestGone ==
  ASSUME TypeOK, TxInv, pending # <<>>, pending' = Tail(pending), UNCHANGED put
  PROVE  /\ pending \in Seq(Index) /\ pending' \in Seq(Index)
         /\ Len(pending) \in 1..Elements /\ Len(pending') = Len(pending) - 1 /\ Len(pending') <= Elements
         /\ \A k \in 1..Len(pending') : pending'[k] = pending[k + 1]
         /\ \A k \in 1..Len(pending') : pending'[k] = (put' + Elements - Len(pending') + k - 1) % Elements
  <1>1. pending \in Seq(Index) /\ pending' \in Seq(Index) /\ put \in Index
    BY DEF TypeOK
  <1>2. PICK n \in Nat : n = Len(pending)
    BY <1>1
  <1>3. n \in 1..Elements
    <2>1. n <= Elements
      BY <1>2 DEF TxInv
    <2>2. n # 0
      BY <1>1, <1>2
    <2> QED
      BY <2>1, <2>2 DEF Elements
  <1>4. /\ Len(pending') = n - 1
        /\ \A k \in 1..Len(pending') : pending'[k] = pending[k + 1]
    BY <1>1, <1>2
  <1>5. n - 1 <= Elements
    BY <1>3 DEF Elements
  <1>6. ASSUME NEW k \in 1..Len(pending')
        PROVE  pending'[k] = (put' + Elements - Len(pending') + k - 1) % Elements
    <2>1. k \in Nat /\ k + 1 \in 1..n /\ put' = put
      BY <1>3, <1>4 DEF Elements
    <2>2. pending[k + 1] = (put + Elements - n + (k + 1) - 1) % Elements
      BY <1>2, <2>1 DEF TxInv
    <2>3. put + Elements - n + (k + 1) - 1 = put' + Elements - Len(pending') + k - 1
      BY <1>1, <1>3, <1>4, <2>1 DEF Index, Elements
    <2> QED
      BY <1>4, <2>2, <2>3
  <1> QED
    BY <1>1, <1>2, <1>3, <1>4, <1>5, <1>6

LEMMA FrameSentInv ==
  ASSUME IInv, FrameSent
  PROVE  IInv'
  <1> DEFINE i == pending[1]
  <1>1. /\ TypeOK /\ FlowInv /\ RxInv /\ TxInv /\ LoopInv
        /\ pending # <<>> /\ pending \in Seq(Index) /\ i \in Index
        /\ txbto' = txbto \cup {i} /\ bus' = elem[i]
        /\ feedback' = IF mode = "loopback" THEN Append(feedback, elem[i]) ELSE feedback
        /\ pending' = Tail(pending) /\ pending' \in Seq(Index)
        /\ UNCHANGED <<mode, rxfifo, rf0n, elem, put, heard, irq, hpc, read, taken, test, answer>>
    BY DEF IInv, FrameSent, TypeOK
  <1>2. /\ Len(pending) \in 1..Elements /\ Len(pending') = Len(pending) - 1 /\ Len(pending') <= Elements
        /\ \A k \in 1..Len(pending') : pending'[k] = (put' + Elements - Len(pending') + k - 1) % Elements
    BY <1>1, RequestGone DEF txfifo
  <1>3. i = (put + Elements - Len(pending)) % Elements
    BY <1>1 DEF TxInv, Elements, TypeOK, Index
  <1>4. TypeOK'
    <2>1. elem[i] \in Frame /\ feedback' \in Seq(Frame) /\ txbto' \subseteq Index
      BY <1>1 DEF TypeOK
    <2> QED
      BY <1>1, <2>1 DEF TypeOK, rxfifo, test, answer
  <1>5. FlowInv' /\ RxInv'
    BY <1>1 DEF FlowInv, RxInv, FullRaises, rxfifo, test
  <1>6. pc = "Polling" /\ i = buf => Len(pending) = 1 /\ elem[i] = tx
    <2> SUFFICES ASSUME pc = "Polling", i = buf PROVE Len(pending) = 1 /\ elem[i] = tx
      OBVIOUS
    <2>1. /\ elem[i] = tx /\ put = (buf + 1) % Elements /\ buf \in Index
          /\ buf = (put + Elements - Len(pending)) % Elements
      BY <1>1, <1>3 DEF TxInv, TypeOK
    <2> QED
      BY <1>2, <2>1, Youngest
  <1>7. Len(pending) = 1 => pending' = <<>>
    BY <1>1, <1>2
  <1>8. TxInv'
    <2>3. pc' = "Polling" /\ buf' \in txbto' => pending' = <<>> /\ bus' = tx'
      BY <1>1, <1>6, <1>7 DEF TxInv, test
    <2>4. pc' = "Polling" => elem'[buf'] = tx' /\ put' = (buf' + 1) % Elements
      BY <1>1 DEF TxInv, test
    <2>5. ~(pc' = "Sent" /\ result' = 0)
      BY <1>1 DEF TxInv, test
    <2> QED
      BY <1>2, <2>3, <2>4, <2>5 DEF TxInv
  <1>9. LoopInv'
    <2> SUFFICES ASSUME Known PROVE LoopInv'
      BY <1>1 DEF LoopInv, Known, test
    <2>1. /\ Sending /\ ~Taken /\ pc \in {"Polling", "Sent", "Wait", "Receive", "Acknowledge"}
      BY <1>1 DEF LoopInv, Looping, Stored, Sending, Taken, TypeOK, FlowInv, Known
    <2>2. i = buf /\ buf \in Index /\ elem[buf] = tx /\ pending' = <<>>
      BY <1>1, <2>1 DEF Sending, TypeOK
    <2>3. feedback' = <<tx>>
      BY <1>1, <2>1, <2>2 DEF Sending, Known
    <2>4. Looping'
      BY <1>1, <2>1, <2>2, <2>3 DEF Looping, Sending, rxfifo, test
    <2>5. UNCHANGED <<mode, stage, pc, tx, buf, result, rx, irqRx, received, pass, hpc, taken>> /\ ~Taken'
      BY <1>1, <2>4 DEF test, answer, Looping, Taken
    <2> QED
      BY <1>1, <2>1, <2>4, <2>5 DEF LoopInv, Known
  <1> QED
    BY <1>4, <1>5, <1>8, <1>9 DEF IInv

LEMMA FrameAbortedInv ==
  ASSUME IInv, FrameAborted
  PROVE  IInv'
  <1>1. /\ TypeOK /\ TxInv /\ pending # <<>> /\ pending' = Tail(pending) /\ pending' \in Seq(Index)
        /\ UNCHANGED <<mode, rxfifo, rf0n, elem, put, txbto, feedback, bus, heard, irq, hpc, read,
                       taken, test, answer>>
    BY DEF FrameAborted, IInv, TypeOK
  <1>2. TypeOK'
    BY <1>1 DEF TypeOK, rxfifo, test, answer
  <1>4. FlowInv' /\ RxInv'
    BY DEF FrameAborted, rxfifo, test, answer, IInv, FlowInv, RxInv, FullRaises
  <1>5. TxInv'
    <2>1. /\ Len(pending') <= Elements
          /\ \A k \in 1..Len(pending') : pending'[k] = (put' + Elements - Len(pending') + k - 1) % Elements
      BY <1>1, RequestGone
    <2>2. /\ ~(pc' = "Polling" /\ buf' \in txbto') /\ ~(pc' = "Sent" /\ result' = 0)
          /\ pc' = "Polling" => elem'[buf'] = tx' /\ put' = (buf' + 1) % Elements
      BY <1>1 DEF TxInv, test
    <2> QED
      BY <2>1, <2>2 DEF TxInv
  <1>3. LoopInv'
    BY DEF FrameAborted, rxfifo, test, answer, IInv, LoopInv, Known, Sending, Looping, Stored, Taken
  <1> QED
    BY <1>2, <1>3, <1>4, <1>5 DEF IInv

LEMMA FrameLoopedInv ==
  ASSUME IInv, FrameLooped
  PROVE  IInv'
  <1>1. /\ TypeOK /\ FlowInv /\ RxInv /\ TxInv /\ LoopInv /\ feedback # <<>> /\ feedback \in Seq(Frame)
        /\ feedback' = Tail(feedback) /\ feedback' \in Seq(Frame)
        /\ Len(feedback) = 1 => feedback' = <<>>
        /\ UNCHANGED <<mode, txfifo, bus, heard, irq, hpc, read, taken, test, answer>>
    BY DEF IInv, FrameLooped, TypeOK
  <1>2. PICK f \in Frame : f = feedback[1] /\ Store(f)
    BY <1>1 DEF FrameLooped
  <1>3. /\ slot' \in [Index -> Frame] /\ get' = get /\ fill' \in 0..Elements /\ rf0n' \in BOOLEAN
        /\ fill = Elements => slot' = slot /\ fill' = fill /\ rf0n' = rf0n
        /\ fill # Elements => fill' = fill + 1 /\ rf0n'
        /\ fill > 0 => slot'[get] = slot[get]
        /\ fill = 0 => slot'[get] = f
    BY <1>1, <1>2, Stores
  <1>4. TypeOK'
    <2>1. get' \in Index
      BY <1>1, <1>3 DEF TypeOK
    <2> QED
      BY <1>1, <1>3, <2>1 DEF TypeOK, txfifo, test, answer
  <1>5. RxInv'
    BY <1>1, <1>3 DEF RxInv, FullRaises, TypeOK, Elements, test
  <1>6. FlowInv' /\ TxInv'
    BY <1>1 DEF FlowInv, TxInv, txfifo, test
  <1>7. LoopInv'
    <2> SUFFICES ASSUME Known PROVE LoopInv'
      BY <1>1 DEF LoopInv, Known, test
    <2>1. Looping /\ ~Taken /\ pc \in {"Polling", "Sent", "Wait", "Receive", "Acknowledge"}
      BY <1>1 DEF LoopInv, Looping, Stored, Sending, Taken, TypeOK, FlowInv, Known
    <2>2. Stored'
      BY <1>1, <1>2, <1>3, <2>1 DEF Looping, Stored, Elements, txfifo, test
    <2>3. UNCHANGED <<mode, stage, pc, tx, buf, result, rx, irqRx, received, pass, hpc, taken>> /\ ~Taken'
      BY <1>1, <2>2 DEF test, answer, Stored, Taken
    <2> QED
      BY <1>1, <2>1, <2>2, <2>3 DEF LoopInv, Known
  <1> QED
    BY <1>4, <1>5, <1>6, <1>7 DEF IInv

LEMMA HandlerEnterInv ==
  ASSUME IInv, HandlerEnter
  PROVE  IInv'
  <1>1. /\ TypeOK /\ FlowInv /\ RxInv /\ TxInv /\ LoopInv
        /\ irq /\ hpc = "idle" /\ rf0n' = FALSE /\ hpc' = "flagCleared"
        /\ UNCHANGED <<mode, slot, get, fill, elem, pending, put, txbto, feedback, bus, heard, irq>>
        /\ UNCHANGED <<read, taken, stage, pc, tx, buf, result, rx, counter, round, pass, irqRx, received>>
    BY DEF HandlerEnter, rxfifo, txfifo, test, answer, IInv
  <1>2. TypeOK'
    BY <1>1 DEF TypeOK
  <1>3. FlowInv' /\ TxInv'
    BY <1>1 DEF FlowInv, TxInv
  <1>4. RxInv'
    BY <1>1 DEF RxInv, FullRaises
  <1>5. LoopInv'
    BY <1>1 DEF LoopInv, Known, Sending, Looping, Stored, Taken
  <1> QED
    BY <1>2, <1>3, <1>4, <1>5 DEF IInv

LEMMA HandlerReadsInv ==
  ASSUME IInv, HandlerReads
  PROVE  IInv'
  <1>1. TypeOK'
    <2>1. /\ TypeOK /\ hpc' \in {"idle", "reading"} /\ (read' = read \/ LoadElement)
          /\ UNCHANGED <<mode, rxfifo, rf0n, txfifo, feedback, bus, heard, irq, taken, test, answer>>
      BY DEF HandlerReads, IInv
    <2>2. [at |-> get, frame |-> slot[get]] \in [at : -1..(Elements - 1), frame : Frame]
      BY <2>1 DEF TypeOK, Index, Elements
    <2> QED
      BY <2>1, <2>2 DEF TypeOK, LoadElement, rxfifo, txfifo, test, answer
  <1>2. FlowInv'
    BY DEF HandlerReads, LoadElement, rxfifo, txfifo, test, answer, IInv, FlowInv
  <1>3. RxInv'
    BY DEF HandlerReads, LoadElement, rxfifo, txfifo, test, answer, IInv, RxInv, FullRaises, TypeOK, Index,
       Elements
  <1>4. TxInv' /\ LoopInv'
    BY DEF HandlerReads, LoadElement, rxfifo, txfifo, test, answer, IInv, TxInv, LoopInv, Known, Sending, Looping,
       Stored, Taken
  <1> QED
    BY <1>1, <1>2, <1>3, <1>4 DEF IInv

LEMMA HandlerFreesInv ==
  ASSUME IInv, HandlerFrees
  PROVE  IInv'
  <1>1. TypeOK'
    BY BoundsAssumption, Frames DEF HandlerFrees, Acknowledge, txfifo, test, answer, IInv, TypeOK, FlowInv,
       RxInv, TxInv, FullRaises, Index, Elements
  <1>2. FlowInv'
    BY DEF HandlerFrees, Acknowledge, txfifo, test, answer, IInv, FlowInv
  <1>3. RxInv'
    BY DEF HandlerFrees, Acknowledge, txfifo, test, answer, IInv, RxInv, FullRaises, TypeOK, FlowInv, Index,
       Elements
  <1>4. TxInv'
    BY DEF HandlerFrees, Acknowledge, txfifo, test, answer, IInv, TxInv
  <1>5. LoopInv'
    BY DEF HandlerFrees, Acknowledge, txfifo, test, answer, IInv, LoopInv, Known, Sending, Looping, Stored, Taken,
       TypeOK, FlowInv, RxInv, TxInv, FullRaises, Index, Elements
  <1> QED
    BY <1>1, <1>2, <1>3, <1>4, <1>5 DEF IInv

LEMMA HandlerReturnsInv ==
  ASSUME IInv, HandlerReturns
  PROVE  IInv'
  <1>1. TypeOK' /\ FlowInv' /\ RxInv' /\ TxInv' /\ LoopInv'
    BY BoundsAssumption, Frames DEF HandlerReturns, rxfifo, txfifo, test, IInv, TypeOK, FlowInv, RxInv,
       FullRaises, TxInv, LoopInv, Known, Sending, Looping, Stored, Taken
  <1> QED
    BY <1>1 DEF IInv

LEMMA TransmitInv ==
  ASSUME IInv, Transmit
  PROVE  IInv'
  <1>1. /\ TypeOK /\ FlowInv /\ RxInv /\ TxInv /\ LoopInv
        /\ hpc = "idle" /\ pc = "Send" /\ tx' \in Frame
        /\ UNCHANGED <<mode, rxfifo, rf0n, feedback, bus, heard, irq, hpc, read, taken, stage, rx,
                       answer, counter, round, pass>>
    BY Frames DEF IInv, Transmit, MainAt, TypeOK
  <1>2. CASE Len(pending) = Elements
    <2>1. result' = -1 /\ pc' = "Sent" /\ UNCHANGED <<txfifo, buf>>
      BY <1>2 DEF Transmit
    <2>2. TypeOK'
      BY <1>1, <2>1 DEF TypeOK, rxfifo, txfifo, answer
    <2>3. FlowInv' /\ RxInv' /\ TxInv'
      BY <1>1, <2>1 DEF FlowInv, RxInv, FullRaises, TxInv, rxfifo, txfifo
    <2>4. ~Known
      BY <1>1, <1>2 DEF LoopInv, Taken, Elements
    <2> QED
      BY <1>1, <2>2, <2>3, <2>4 DEF IInv, LoopInv, Known
  <1>3. CASE Len(pending) # Elements
    <2>1. /\ buf' = put /\ pc' = "Polling" /\ elem' = [elem EXCEPT ![put] = tx']
          /\ pending' = Append(pending, put) /\ txbto' = txbto \ {put}
          /\ put' = (put + 1) % Elements /\ UNCHANGED result
      BY <1>3 DEF Transmit
    <2>2. elem \in [Index -> Frame] /\ put \in Index /\ pending \in Seq(Index) /\ Len(pending) \in Nat
      BY <1>1 DEF TypeOK
    <2>3. Len(pending) < Elements
      <3>1. PICK n \in Nat : n = Len(pending)
        BY <2>2
      <3>2. n <= Elements /\ n # Elements
        BY <1>1, <1>3, <3>1 DEF TxInv
      <3>3. n < Elements
        BY <3>2 DEF Elements
      <3> QED
        BY <3>1, <3>3
    <2>4. /\ elem' \in [Index -> Frame] /\ elem'[put] = tx' /\ put' \in Index /\ buf' \in Index
          /\ pending' \in Seq(Index) /\ txbto' \subseteq Index
      BY <1>1, <2>1, <2>2 DEF TypeOK, Index, Elements
    <2>5. /\ Len(pending') = Len(pending) + 1 /\ pending'[Len(pending) + 1] = put
          /\ \A k \in 1..Len(pending) : pending'[k] = pending[k]
      BY <2>1, <2>2
    <2>6. TypeOK'
      BY <1>1, <2>1, <2>4 DEF TypeOK, rxfifo, answer
    <2>7. FlowInv' /\ RxInv'
      BY <1>1, <2>1 DEF FlowInv, RxInv, FullRaises, rxfifo
    <2>8. TxInv'
      <3>1. ASSUME NEW k \in 1..Len(pending')
            PROVE  pending'[k] = (put' + Elements - Len(pending') + k - 1) % Elements
        <4>1. CASE k = Len(pending) + 1
          BY <2>1, <2>2, <2>3, <2>5, <4>1 DEF Index, Elements
        <4>2. CASE k # Len(pending) + 1
          <5>1. k \in 1..Len(pending)
            BY <2>2, <2>5, <4>2
          <5>2. pending[k] = (put + Elements - Len(pending) + k - 1) % Elements
            BY <1>1, <5>1 DEF TxInv
          <5> QED
            BY <2>1, <2>2, <2>3, <2>5, <5>1, <5>2 DEF Index, Elements
        <4> QED
          BY <4>1, <4>2
      <3>2. Len(pending') <= Elements
        BY <2>2, <2>3, <2>5 DEF Elements
      <3>3. pc' = "Polling" /\ buf' \notin txbto' /\ elem'[buf'] = tx' /\ put' = (buf' + 1) % Elements
        BY <2>1, <2>4
      <3> QED
        BY <3>1, <3>2, <3>3 DEF TxInv
    <2>9. LoopInv'
      <3> SUFFICES ASSUME Known PROVE LoopInv'
        BY <1>1 DEF LoopInv, Known
      <3>1. Taken
        BY <1>1 DEF LoopInv
      <3>2. pending' = <<put>>
        BY <2>1, <3>1 DEF Taken
      <3>3. Sending' /\ ~Taken'
        BY <1>1, <2>1, <2>4, <3>1, <3>2 DEF Taken, Sending, rxfifo
      <3> QED
        BY <1>1, <2>1, <3>1, <3>3 DEF LoopInv, Known, FlowInv, answer
    <2> QED
      BY <2>6, <2>7, <2>8, <2>9 DEF IInv
  <1> QED
    BY <1>2, <1>3

LEMMA TransmitEndsInv ==
  ASSUME IInv, TransmitEnds
  PROVE  IInv'
  <1>1. TypeOK' /\ FlowInv' /\ RxInv' /\ TxInv' /\ LoopInv'
    BY BoundsAssumption, Frames DEF TransmitEnds, MainAt, Occurred, rxfifo, txfifo, answer, IInv, TypeOK,
       FlowInv, RxInv, FullRaises, TxInv, LoopInv, Known, Sending, Looping, Stored, Taken
  <1> QED
    BY <1>1 DEF IInv

LEMMA ReceivePollsInv ==
  ASSUME IInv, ReceivePolls
  PROVE  IInv'
  <1>1. TypeOK'
    BY BoundsAssumption, Frames DEF ReceivePolls, MainAt, LoadElement, rxfifo, txfifo, locals, answer, IInv,
       TypeOK, Index, Elements, Stages, Counter
  <1>2. FlowInv' /\ RxInv' /\ TxInv'
    BY DEF ReceivePolls, MainAt, LoadElement, rxfifo, txfifo, locals, answer, IInv, FlowInv, RxInv, FullRaises,
       TxInv
  <1>3. LoopInv'
    BY DEF ReceivePolls, MainAt, LoadElement, rxfifo, txfifo, locals, answer, IInv, LoopInv, Known, Sending, Looping,
       Stored, Taken, TypeOK, FlowInv, Index, Elements
  <1> QED
    BY <1>1, <1>2, <1>3 DEF IInv

LEMMA ReceiveEndsInv ==
  ASSUME IInv, ReceiveEnds
  PROVE  IInv'
  <1>1. TypeOK'
    BY BoundsAssumption, Frames DEF ReceiveEnds, MainAt, Acknowledge, txfifo, locals, answer, IInv, TypeOK,
       FlowInv, RxInv, TxInv, FullRaises, Index, Elements
  <1>2. FlowInv'
    BY DEF ReceiveEnds, MainAt, Acknowledge, txfifo, locals, answer, IInv, FlowInv
  <1>3. RxInv'
    BY DEF ReceiveEnds, MainAt, Acknowledge, txfifo, locals, answer, IInv, RxInv, FullRaises, TypeOK, Index,
       Elements
  <1>4. TxInv'
    BY DEF ReceiveEnds, MainAt, Acknowledge, txfifo, locals, answer, IInv, TxInv
  <1>5. LoopInv'
    BY DEF ReceiveEnds, MainAt, Acknowledge, txfifo, locals, answer, IInv, LoopInv, Known, Sending, Looping, Stored,
       Taken, TypeOK, FlowInv, RxInv, TxInv, FullRaises, Index, Elements
  <1> QED
    BY <1>1, <1>2, <1>3, <1>4, <1>5 DEF IInv

LEMMA ArmInv ==
  ASSUME IInv, Arm
  PROVE  IInv'
  <1>1. /\ TypeOK /\ FlowInv /\ RxInv /\ TxInv /\ LoopInv
        /\ hpc = "idle" /\ pc = "Arm" /\ received' = FALSE /\ irq' = TRUE /\ pc' = "Send"
        /\ UNCHANGED <<mode, rxfifo, rf0n, txfifo, feedback, bus, heard, hpc, read, taken, stage, locals,
                       rx, irqRx, counter, round, pass>>
    BY DEF Arm, MainAt, IInv
  <1>2. TypeOK'
    BY <1>1 DEF TypeOK, rxfifo, txfifo, locals
  <1>3. FlowInv' /\ RxInv' /\ TxInv'
    BY <1>1 DEF FlowInv, RxInv, FullRaises, TxInv, rxfifo, txfifo, locals
  <1>4. LoopInv'
    BY <1>1 DEF FlowInv, LoopInv, Known, Taken, rxfifo, txfifo, locals
  <1> QED
    BY <1>2, <1>3, <1>4 DEF IInv

(* CAN_TransceiverTest begins with everything empty but the flags.          *)
LEMMA StartTransceiverInv ==
  ASSUME IInv, StartTransceiver, hpc = "idle", stage \in {"L1", "L3"}
  PROVE  IInv'
  <1>1. /\ TypeOK /\ FlowInv /\ mode' = "normal" /\ stage' = "T1" /\ pc' = "Send"
        /\ slot' = [i \in Index |-> Zero] /\ get' = 0 /\ fill' = 0
        /\ elem' = [i \in Index |-> Zero] /\ pending' = <<>> /\ put' = 0 /\ txbto' = {} /\ feedback' = <<>>
        /\ counter' = 0 /\ round' = 0 /\ pass' = 0
        /\ UNCHANGED <<rf0n, bus, heard, irq, hpc, read, taken, tx, buf, result, rx, irqRx, received>>
    BY Begins DEF IInv, StartTransceiver, CAN_Init, locals, answer
  <1>2. TypeOK'
    <2>1. /\ slot' \in [Index -> Frame] /\ elem' \in [Index -> Frame] /\ get' \in Index /\ put' \in Index
          /\ fill' \in 0..Elements /\ counter' \in Counter /\ round' \in 0..(Loops - 1) /\ stage' \in Stages
      BY <1>1, Frames, BoundsAssumption DEF Index, Elements, Counter, Stages
    <2>2. pending' \in Seq(Index) /\ feedback' \in Seq(Frame) /\ txbto' \subseteq Index
      BY <1>1
    <2> QED
      BY <1>1, <2>1, <2>2 DEF TypeOK
  <1>3. FlowInv' /\ RxInv' /\ LoopInv'
    BY <1>1 DEF FlowInv, RxInv, FullRaises, LoopInv, Known, Elements
  <1>4. TxInv'
    BY <1>1 DEF TxInv, Elements
  <1> QED
    BY <1>2, <1>3, <1>4 DEF IInv

LEMMA AfterTransmitInv ==
  ASSUME IInv, AfterTransmit
  PROVE  IInv'
  <1>1. CASE stage = "L1" /\ result # 0
    BY <1>1, StartTransceiverInv DEF AfterTransmit, MainAt
  <1>2. CASE ~(stage = "L1" /\ result # 0)
    <2>1. /\ TypeOK /\ FlowInv /\ RxInv /\ TxInv /\ LoopInv /\ hpc = "idle" /\ pc = "Sent"
          /\ pass' = IF result # 0 /\ stage \in {"L2", "L3", "T1"} THEN -1 ELSE pass
          /\ UNCHANGED <<mode, rxfifo, rf0n, txfifo, feedback, bus, heard, irq, hpc, read, taken, locals, rx,
                         answer, counter, round>>
      BY <1>2 DEF IInv, AfterTransmit, MainAt
    <2>2. stage = "T1" => stage' = "T2" /\ pc' = "Receive"
      BY <1>2, Begins DEF AfterTransmit, Waits
    <2>3. stage \in {"L2", "T3"} => pc' = "Wait" /\ UNCHANGED stage
      BY <1>2 DEF AfterTransmit, Waits
    <2>4. stage = "L3" /\ result # 0 => pc' = "Again" /\ UNCHANGED stage
      BY <1>2 DEF AfterTransmit, Waits
    <2>5. stage \notin {"T1", "L2", "T3"} /\ ~(stage = "L3" /\ result # 0) => pc' = "Receive" /\ UNCHANGED stage
      BY <1>2 DEF AfterTransmit, Waits
    <2>6. TypeOK'
      BY <2>1, <2>2, <2>3, <2>4, <2>5 DEF TypeOK, Stages, rxfifo, txfifo, locals, answer
    <2>7. FlowInv' /\ RxInv' /\ TxInv'
      <3>1. pc' # "Polling" /\ pc' # "Sent" /\ pc' # "Acknowledge"
        BY <1>2, <2>2, <2>3, <2>4, <2>5
      <3>2. FlowInv'
        BY <2>1, <2>2, <2>3, <2>4, <2>5 DEF FlowInv
      <3>3. RxInv' /\ TxInv'
        BY <2>1, <3>1 DEF RxInv, FullRaises, TxInv, rxfifo, txfifo
      <3> QED
        BY <3>2, <3>3
    <2>8. LoopInv'
      <3> SUFFICES ASSUME Known' PROVE LoopInv'
        BY DEF LoopInv
      <3>1. /\ Known /\ stage' = stage /\ stage \in {"L1", "L2", "L3"} /\ pc' \in {"Wait", "Receive"}
            /\ stage = "L2" \/ result = 0
            /\ pass' = IF result # 0 THEN -1 ELSE pass
        <4>1. stage \in {"L1", "L2", "L3"} /\ mode = "loopback" /\ result \in {-1, 0}
          BY <2>1 DEF Known, FlowInv, TypeOK
        <4>2. stage' = stage
          BY <2>3, <2>4, <2>5, <4>1
        <4>3. stage = "L3" => result = 0
          BY <2>1, <4>2 DEF Known
        <4>4. stage = "L3" => pass' = pass
          BY <2>1, <4>3
        <4>5. Known
          BY <4>1, <4>2, <4>4 DEF Known
        <4>6. stage = "L2" \/ result = 0
          BY <1>2, <4>1, <4>3
        <4>7. pc' \in {"Wait", "Receive"}
          BY <2>3, <2>5, <4>1, <4>3
        <4>8. pass' = IF result # 0 THEN -1 ELSE pass
          <5>1. stage \in {"L2", "L3", "T1"} \/ result = 0
            BY <4>6
          <5>2. pass' = IF result # 0 /\ stage \in {"L2", "L3", "T1"} THEN -1 ELSE pass
            BY <2>1
          <5>3. CASE result = 0
            BY <5>2, <5>3
          <5>4. CASE result # 0
            BY <5>1, <5>2, <5>4
          <5> QED
            BY <5>3, <5>4
        <4> QED
          BY <4>1, <4>2, <4>5, <4>6, <4>7, <4>8
      <3>2. /\ stage \in {"L1", "L2"} => pass = 0
            /\ result \in {-1, 0} /\ pass' \in {-1, 0}
            /\ Sending \/ Looping \/ Stored \/ (Taken /\ buf \in txbto)
        BY <2>1, <3>1 DEF LoopInv, TypeOK
      <3>3. /\ Sending' = Sending /\ Looping' = Looping /\ Stored' = Stored /\ Taken' = Taken
            /\ UNCHANGED <<tx, buf, result, rx, irqRx, received, hpc, taken, txbto>>
        BY <2>1 DEF Sending, Looping, Stored, Taken, rxfifo, txfifo, locals, answer
      <3> QED
        BY <2>1, <2>3, <2>5, <3>1, <3>2, <3>3 DEF LoopInv
    <2> QED
      BY <2>1, <2>6, <2>7, <2>8 DEF IInv
  <1> QED
    BY <1>1, <1>2

LEMMA WaitForCallbackInv ==
  ASSUME IInv, WaitForCallback
  PROVE  IInv'
  <1>1. TypeOK' /\ FlowInv' /\ RxInv' /\ TxInv'
    BY BoundsAssumption, Frames DEF WaitForCallback, MainAt, rxfifo, txfifo, locals, answer, IInv, TypeOK,
       FlowInv, RxInv, FullRaises, TxInv
  <1>2. LoopInv'
    BY DEF WaitForCallback, MainAt, rxfifo, txfifo, locals, answer, IInv, LoopInv, Known, Sending, Looping, Stored,
       Taken, TypeOK, FlowInv, Index, Elements
  <1> QED
    BY <1>1, <1>2 DEF IInv

LEMMA CheckInv ==
  ASSUME IInv, Check
  PROVE  IInv'
  <1>1. /\ TypeOK /\ FlowInv /\ RxInv /\ TxInv /\ LoopInv /\ hpc = "idle" /\ pc = "Check"
        /\ pass' = IF stage \in {"L1", "L2"} /\ Answer # tx THEN -1 ELSE pass
        /\ UNCHANGED <<mode, rxfifo, rf0n, txfifo, feedback, bus, heard, irq, hpc, read, taken, locals, rx,
                       answer, counter, round>>
    BY DEF IInv, Check, MainAt
  <1>2. stage = "L1" => stage' = "L2" /\ pc' = "Arm"
    BY Begins DEF Check
  <1>3. stage = "T2" => stage' = "T3" /\ pc' = "Arm"
    BY Begins DEF Check
  <1>4. stage \in {"L2", "T3"} => pc' = "Disarm" /\ UNCHANGED stage
    BY DEF Check
  <1>5. stage \notin {"L1", "T2", "L2", "T3"} => pc' = "Again" /\ UNCHANGED stage
    BY DEF Check
  <1>6. TypeOK'
    BY <1>1, <1>2, <1>3, <1>4, <1>5 DEF TypeOK, Stages, rxfifo, txfifo, locals, answer
  <1>7. FlowInv' /\ RxInv' /\ TxInv'
    BY <1>1, <1>2, <1>3, <1>4, <1>5 DEF FlowInv, RxInv, FullRaises, TxInv, rxfifo, txfifo, locals
  <1>8. LoopInv'
    <2> SUFFICES ASSUME Known' PROVE LoopInv'
      BY DEF LoopInv
    <2>1. stage \in {"L1", "L2", "L3"} /\ Known
      BY <1>1, <1>2, <1>4, <1>5 DEF FlowInv, Known
    <2>2. Taken /\ Answer = tx /\ pass' = pass /\ (stage = "L1" => pass = 0)
      BY <1>1, <2>1 DEF LoopInv, FlowInv, Answer
    <2> QED
      BY <1>1, <1>2, <1>4, <1>5, <2>1, <2>2 DEF LoopInv, Taken, rxfifo, txfifo, locals, answer
  <1> QED
    BY <1>6, <1>7, <1>8 DEF IInv

LEMMA DisarmInv ==
  ASSUME IInv, Disarm
  PROVE  IInv'
  <1>1. /\ TypeOK /\ FlowInv /\ RxInv /\ TxInv /\ LoopInv /\ hpc = "idle" /\ pc = "Disarm"
        /\ irq' = FALSE /\ counter' = 0 /\ round' = 0
        /\ UNCHANGED <<mode, rxfifo, rf0n, txfifo, feedback, bus, heard, hpc, read, taken, locals, rx,
                       answer, pass>>
    BY DEF IInv, Disarm, MainAt
  <1>2. stage' = (IF stage = "L2" THEN "L3" ELSE "T4") /\ pc' = "Send"
    BY Begins DEF Disarm
  <1>3. TypeOK'
    <2>1. counter' \in Counter /\ round' \in 0..(Loops - 1)
      BY <1>1, BoundsAssumption DEF Counter
    <2> QED
      BY <1>1, <1>2, <2>1 DEF TypeOK, Stages, rxfifo, txfifo, locals, answer
  <1>4. FlowInv' /\ RxInv' /\ TxInv'
    <2>1. FlowInv'
      BY <1>1, <1>2 DEF FlowInv
    <2>2. RxInv' /\ TxInv'
      BY <1>1, <1>2 DEF RxInv, FullRaises, TxInv, rxfifo, txfifo
    <2> QED
      BY <2>1, <2>2
  <1>5. LoopInv'
    <2> SUFFICES ASSUME Known' PROVE LoopInv'
      BY DEF LoopInv
    <2>1. stage = "L2" /\ Known
      BY <1>1 DEF Known, FlowInv
    <2>2. Taken
      BY <1>1, <2>1 DEF LoopInv
    <2> QED
      BY <1>1, <1>2, <2>2 DEF LoopInv, Known, Taken, rxfifo, txfifo, answer
  <1> QED
    BY <1>3, <1>4, <1>5 DEF IInv

LEMMA LoopL3Inv ==
  ASSUME IInv, LoopL3
  PROVE  IInv'
  <1>1. CASE StartTransceiver
    BY <1>1, StartTransceiverInv DEF LoopL3, MainAt
  <1>2. CASE ~StartTransceiver
    <2>1. /\ TypeOK /\ FlowInv /\ RxInv /\ TxInv /\ LoopInv /\ hpc = "idle" /\ pc = "Again" /\ stage = "L3"
          /\ counter' = (counter + 1) % CounterMod /\ pc' = "Send"
          /\ UNCHANGED <<mode, rxfifo, rf0n, txfifo, feedback, bus, heard, irq, hpc, read, taken, stage, locals,
                         rx, answer, round, pass>>
      BY <1>2 DEF IInv, LoopL3, MainAt
    <2>2. TypeOK'
      <3>1. counter' \in Counter
        BY <2>1, BoundsAssumption DEF Counter, TypeOK
      <3> QED
        BY <2>1, <3>1 DEF TypeOK, rxfifo, txfifo, locals, answer
    <2>3. FlowInv' /\ RxInv' /\ TxInv'
      BY <2>1 DEF FlowInv, RxInv, FullRaises, TxInv, rxfifo, txfifo, locals
    <2>4. LoopInv'
      BY <2>1 DEF LoopInv, Known, Taken, rxfifo, txfifo, locals, answer
    <2> QED
      BY <2>2, <2>3, <2>4 DEF IInv
  <1> QED
    BY <1>1, <1>2

LEMMA LoopT4Inv ==
  ASSUME IInv, LoopT4
  PROVE  IInv'
  <1>1. /\ TypeOK /\ FlowInv /\ RxInv /\ TxInv /\ pc = "Again" /\ stage = "T4" /\ hpc = "idle"
        /\ counter' = (counter + 1) % CounterMod /\ round' = (round + 1) % Loops
        /\ \/ pc' = "Send" /\ stage' = "T4"
           \/ pc' = "Done" /\ stage' = "Done"
        /\ UNCHANGED <<mode, rxfifo, rf0n, txfifo, feedback, bus, heard, irq, hpc, read, taken, locals,
                       rx, answer, pass>>
    BY DEF LoopT4, MainAt, IInv
  <1>2. counter' \in Counter /\ round' \in 0..(Loops - 1)
    BY <1>1, BoundsAssumption DEF TypeOK, Counter
  <1>3. TypeOK'
    BY <1>1, <1>2 DEF TypeOK, Stages, rxfifo, txfifo, locals, answer
  <1>4. FlowInv' /\ RxInv' /\ TxInv' /\ LoopInv'
    BY <1>1 DEF FlowInv, RxInv, FullRaises, TxInv, LoopInv, Known, rxfifo, txfifo, locals
  <1> QED
    BY <1>3, <1>4 DEF IInv

LEMMA NextInv == IInv /\ [Next]_vars => IInv'
  <1> SUFFICES ASSUME IInv, [Next]_vars PROVE IInv'
    OBVIOUS
  <1>1. CASE Peripheral
    BY <1>1, RemoteSendsInv, FrameSentInv, FrameAbortedInv, FrameLoopedInv DEF Peripheral
  <1>2. CASE Handler
    BY <1>2, HandlerEnterInv, HandlerReadsInv, HandlerFreesInv, HandlerReturnsInv DEF Handler
  <1>3. CASE Main
    BY <1>3, TransmitInv, TransmitEndsInv, ReceivePollsInv, ReceiveEndsInv, ArmInv, AfterTransmitInv,
       WaitForCallbackInv, CheckInv, DisarmInv, LoopL3Inv, LoopT4Inv DEF Main
  <1>4. CASE UNCHANGED vars
    <2>1. UNCHANGED <<mode, slot, get, fill, rf0n, elem, pending, put, txbto, feedback, bus, heard, irq, hpc>>
      BY <1>4 DEF vars
    <2>2. UNCHANGED <<read, taken, stage, pc, tx, buf, result, rx, irqRx, received, counter, round, pass>>
      BY <1>4 DEF vars
    <2>3. TypeOK' /\ FlowInv'
      BY <2>1, <2>2 DEF IInv, TypeOK, FlowInv
    <2>4. RxInv' /\ TxInv' /\ LoopInv'
      BY <2>1, <2>2 DEF IInv, RxInv, FullRaises, TxInv, LoopInv, Known, Sending, Looping, Stored, Taken
    <2> QED
      BY <2>3, <2>4 DEF IInv
  <1> QED
    BY <1>1, <1>2, <1>3, <1>4 DEF Next

----------------------------------------------------------------------------
(* What follows in every run *)

(* The handler and main keep out of each other's way, and no frame is in    *)
(* two places.                                                              *)
THEOREM Inductive == Spec => []IInv
  BY InitInv, NextInv, PTL DEF Spec

(* A full Rx FIFO has an interrupt that will empty it, whatever arrived     *)
(* between the clearing of RF0N and the reading.                            *)
THEOREM FullFifoRaises == Spec => []FullRaises
  <1>1. IInv => FullRaises
    BY DEF IInv, RxInv
  <1> QED
    BY <1>1, Inductive, PTL

(* CAN_Transmit says that a frame was sent when it was that frame.          *)
THEOREM SuccessIsTrue == Spec => []SuccessWasSent
  <1>1. IInv => SuccessWasSent
    BY DEF IInv, TxInv, SuccessWasSent
  <1> QED
    BY <1>1, Inductive, PTL

----------------------------------------------------------------------------
(* The Rx FIFO is a queue *)

(* n elements of s from g on.                                               *)
Elems(n, g, s) == [i \in 1..n |-> s[(g + i - 1) % Elements]]

LEMMA ElemsSeq ==
  ASSUME NEW n \in 0..Elements, NEW g \in Index, NEW s \in [Index -> Frame]
  PROVE  Elems(n, g, s) \in Seq(Frame) /\ Len(Elems(n, g, s)) = n /\ (n = 0 => Elems(n, g, s) = <<>>)
  <1>1. n \in Nat
    BY DEF Elements
  <1>2. \A i \in 1..n : s[(g + i - 1) % Elements] \in Frame
    BY <1>1 DEF Index, Elements
  <1>3. Elems(n, g, s) \in [1..n -> Frame]
    BY <1>2 DEF Elems
  <1> QED
    BY <1>1, <1>3 DEF Elems

LEMMA WaitingSeq ==
  /\ TypeOK => Waiting \in Seq(Frame) /\ Len(Waiting) = fill /\ (fill = 0 => Waiting = <<>>)
  /\ TypeOK' => Waiting' \in Seq(Frame) /\ Len(Waiting') = fill' /\ (fill' = 0 => Waiting' = <<>>)
  <1>1. ASSUME TypeOK PROVE Waiting \in Seq(Frame) /\ Len(Waiting) = fill /\ (fill = 0 => Waiting = <<>>)
    <2>1. fill \in 0..Elements /\ get \in Index /\ slot \in [Index -> Frame]
      BY <1>1 DEF TypeOK
    <2>2. Waiting = Elems(fill, get, slot)
      BY DEF Waiting, Elems
    <2> QED
      BY <2>1, <2>2, ElemsSeq
  <1>2. ASSUME TypeOK' PROVE Waiting' \in Seq(Frame) /\ Len(Waiting') = fill' /\ (fill' = 0 => Waiting' = <<>>)
    <2>1. fill' \in 0..Elements /\ get' \in Index /\ slot' \in [Index -> Frame]
      BY <1>2 DEF TypeOK
    <2>2. Waiting' = Elems(fill', get', slot')
      BY DEF Waiting, Elems
    <2> QED
      BY <2>1, <2>2, ElemsSeq
  <1> QED
    BY <1>1, <1>2

LEMMA StoreReceives ==
  ASSUME TypeOK, TypeOK', NEW f \in Frame, Store(f), UNCHANGED taken
  PROVE  Q!Receive(f) \/ UNCHANGED <<Waiting, taken>>
  <1>1. /\ slot \in [Index -> Frame] /\ get \in Index /\ fill \in 0..Elements
    BY DEF TypeOK
  <1>2. CASE fill = Elements
    <2>1. UNCHANGED <<slot, get, fill>>
      BY <1>2 DEF Store, rxfifo, Elements
    <2> QED
      BY <2>1 DEF Waiting
  <1>3. CASE fill # Elements
    <2>1. get' = get /\ fill' = fill + 1 /\ slot' = [slot EXCEPT ![(get + fill) % Elements] = f]
      BY <1>1, <1>3 DEF Store, Elements
    <2>2. /\ Waiting \in Seq(Frame) /\ Len(Waiting) = fill
          /\ Waiting' \in Seq(Frame) /\ Len(Waiting') = fill'
      BY WaitingSeq
    <2>3. Append(Waiting, f) \in Seq(Frame) /\ Len(Append(Waiting, f)) = fill'
      BY <2>1, <2>2
    <2>4. ASSUME NEW i \in 1..fill'
          PROVE  Waiting'[i] = Append(Waiting, f)[i]
      <3>1. Waiting'[i] = slot'[(get + i - 1) % Elements]
        BY <2>1 DEF Waiting
      <3>2. CASE i = fill + 1
        <4>1. (get + i - 1) % Elements = (get + fill) % Elements /\ (get + fill) % Elements \in Index
          BY <1>1, <3>2 DEF Index, Elements
        <4>2. Append(Waiting, f)[i] = f
          BY <2>2, <3>2
        <4> QED
          BY <1>1, <2>1, <3>1, <4>1, <4>2
      <3>3. CASE i # fill + 1
        <4>1. i \in 1..fill
          BY <1>1, <2>1, <3>3 DEF Elements
        <4>2. (get + i - 1) % Elements # (get + fill) % Elements /\ (get + i - 1) % Elements \in Index
          BY <1>1, <1>3, <4>1 DEF Index, Elements
        <4>3. Waiting[i] = slot[(get + i - 1) % Elements]
          BY <4>1 DEF Waiting
        <4>4. Append(Waiting, f)[i] = Waiting[i]
          BY <2>2, <4>1, AppendProperties
        <4> QED
          BY <1>1, <2>1, <3>1, <4>2, <4>3, <4>4
      <3> QED
        BY <3>2, <3>3
    <2>5. Waiting' = Append(Waiting, f)
      BY <2>2, <2>3, <2>4, SeqEqual
    <2>6. Len(Waiting) < Elements
      <3>1. PICK n \in Nat : n = Len(Waiting) /\ n = fill
        BY <1>1, <2>2 DEF Elements
      <3>2. n < Elements
        BY <1>1, <1>3, <3>1 DEF Elements
      <3> QED
        BY <3>1, <3>2
    <2> QED
      BY <2>5, <2>6 DEF Q!Receive
  <1> QED
    BY <1>2, <1>3

LEMMA AcknowledgeTakes ==
  ASSUME TypeOK, TypeOK', fill > 0, read = [at |-> get, frame |-> slot[get]], Acknowledge
  PROVE  Q!Take
  <1>1. /\ get \in Index /\ fill \in 1..Elements
        /\ get' = (get + 1) % Elements /\ fill' = fill - 1 /\ taken' = slot[get] /\ slot' = slot
    BY DEF TypeOK, Acknowledge, Elements
  <1>2. /\ Waiting \in Seq(Frame) /\ Len(Waiting) = fill
        /\ Waiting' \in Seq(Frame) /\ Len(Waiting') = fill'
    BY WaitingSeq
  <1>3. Waiting # <<>>
    BY <1>1, <1>2
  <1>4. Head(Waiting) = slot[get]
    <2>1. Waiting[1] = slot[(get + 1 - 1) % Elements] /\ (get + 1 - 1) % Elements = get
      BY <1>1 DEF Waiting, Index, Elements
    <2> QED
      BY <1>2, <1>3, <2>1
  <1>5. Tail(Waiting) \in Seq(Frame) /\ Len(Tail(Waiting)) = fill'
    BY <1>1, <1>2, <1>3
  <1>6. ASSUME NEW i \in 1..fill'
        PROVE  Waiting'[i] = Tail(Waiting)[i]
    <2>1. i \in Nat /\ i + 1 \in 1..fill
      BY <1>1 DEF Elements
    <2>2. Tail(Waiting)[i] = Waiting[i + 1]
      BY <1>1, <1>2, <1>3
    <2>3. Waiting[i + 1] = slot[(get + (i + 1) - 1) % Elements]
      BY <2>1 DEF Waiting
    <2>4. Waiting'[i] = slot[(((get + 1) % Elements) + i - 1) % Elements]
      BY <1>1 DEF Waiting
    <2>5. (((get + 1) % Elements) + i - 1) % Elements = (get + (i + 1) - 1) % Elements
      BY <1>1, <2>1 DEF Index, Elements
    <2> QED
      BY <2>2, <2>3, <2>4, <2>5
  <1>7. Waiting' = Tail(Waiting)
    BY <1>2, <1>5, <1>6, SeqEqual
  <1> QED
    BY <1>1, <1>3, <1>4, <1>7 DEF Q!Take

LEMMA StepReads ==
  ASSUME IInv, IInv', [Next]_vars
  PROVE  [Q!Next]_<<Waiting, taken>>
  <1>1. TypeOK /\ TypeOK' /\ RxInv /\ FlowInv
    BY DEF IInv
  <1>2. CASE RemoteSends \/ FrameLooped
    <2>1. PICK f \in Frame : Store(f)
      BY <1>1, <1>2, Frames DEF RemoteSends, FrameLooped, TypeOK
    <2>2. UNCHANGED taken
      BY <1>2 DEF RemoteSends, FrameLooped
    <2> QED
      BY <1>1, <2>1, <2>2, StoreReceives DEF Q!Next
  <1>3. CASE HandlerFrees \/ ReceiveEnds
    <2>1. fill > 0 /\ read = [at |-> get, frame |-> slot[get]] /\ Acknowledge
      BY <1>1, <1>3 DEF HandlerFrees, ReceiveEnds, RxInv, MainAt
    <2> QED
      BY <1>1, <2>1, AcknowledgeTakes DEF Q!Next
  <1>4. CASE StartTransceiver
    <2>1. fill' = 0 /\ UNCHANGED taken
      BY <1>4 DEF StartTransceiver, CAN_Init
    <2>2. Waiting' = <<>>
      BY <1>1, <2>1, WaitingSeq
    <2> QED
      BY <2>1, <2>2 DEF Q!Next, Q!Reset
  <1>5. ASSUME UNCHANGED <<slot, get, fill, taken>>
        PROVE  UNCHANGED <<Waiting, taken>>
    BY <1>5 DEF Waiting
  <1>6. CASE FrameSent \/ FrameAborted \/ HandlerEnter \/ HandlerReads \/ HandlerReturns
    BY <1>5, <1>6 DEF FrameSent, FrameAborted, HandlerEnter, HandlerReads, HandlerReturns, rxfifo
  <1>7. CASE Transmit \/ TransmitEnds \/ ReceivePolls \/ Arm \/ WaitForCallback
    BY <1>5, <1>7 DEF Transmit, TransmitEnds, ReceivePolls, Arm, WaitForCallback, rxfifo
  <1>8. CASE Check \/ Disarm \/ LoopT4
    BY <1>5, <1>8 DEF Check, Disarm, LoopT4, rxfifo
  <1>9. CASE AfterTransmit
    <2>1. CASE ~StartTransceiver
      BY <1>5, <1>9, <2>1 DEF AfterTransmit, rxfifo
    <2> QED
      BY <1>4, <2>1
  <1>10. CASE LoopL3
    <2>1. CASE ~StartTransceiver
      BY <1>5, <1>10, <2>1 DEF LoopL3, rxfifo
    <2> QED
      BY <1>4, <2>1
  <1>11. CASE UNCHANGED vars
    BY <1>5, <1>11 DEF vars
  <1> QED
    BY <1>2, <1>3, <1>6, <1>7, <1>8, <1>9, <1>10, <1>11 DEF Next, Peripheral, Handler, Main

(* CAN_ReadFIFO, in main and in the handler, reads the FIFO as a queue:     *)
(* Fdcan implements RxQueue.                                                *)
THEOREM Refinement == Spec => ReadsAsQueue
  <1>1. Init => Q!Init
    <2> SUFFICES ASSUME Init PROVE Q!Init
      OBVIOUS
    <2>1. TypeOK /\ fill = 0 /\ taken \in Frame
      BY InitInv, Frames DEF Init, IInv
    <2> QED
      BY <2>1, WaitingSeq DEF Q!Init
  <1>2. IInv /\ IInv' /\ [Next]_vars => [Q!Next]_<<Waiting, taken>>
    BY StepReads
  <1> QED
    BY <1>1, <1>2, Inductive, PTL DEF Spec, Q!Spec, ReadsAsQueue

----------------------------------------------------------------------------
(* The endless phase *)

(* All that is under way in it are its own frames: none of the phase before *)
(* can arrive late, since that phase waits for its frame whatever           *)
(* CAN_Transmit said.                                                       *)
Own == {Message("L3", c) : c \in Counter}

EndlessInv ==
  stage = "L3" =>
    /\ \A k \in 1..fill : Waiting[k] \in Own
    /\ \A k \in 1..Len(feedback) : feedback[k] \in Own
    /\ \A k \in 1..Len(pending) : elem[pending[k]] \in Own
    /\ pc # "Send" => tx \in Own
    /\ pc = "Check" => rx \in Own

LEMMA EndlessNext ==
  ASSUME IInv, IInv', EndlessInv, [Next]_vars
  PROVE  EndlessInv'
  <1> SUFFICES ASSUME stage' = "L3" PROVE EndlessInv'
    BY DEF EndlessInv
  <1>1. TypeOK /\ TypeOK' /\ FlowInv /\ RxInv /\ LoopInv /\ 0 < Elements
    BY DEF IInv, Elements
  <1>2. ASSUME UNCHANGED <<slot, get, fill>>
        PROVE  UNCHANGED Waiting
    BY <1>2 DEF Waiting
  <1>3. CASE Disarm
    <2>1. stage = "L2" /\ pc = "Disarm" /\ pc' = "Send"
      <3>1. pc = "Disarm" /\ Begin(IF stage = "L2" THEN "L3" ELSE "T4")
        BY <1>3 DEF Disarm, MainAt
      <3>2. stage = "L2"
        BY <3>1, Begins
      <3> QED
        BY <3>1, <3>2, Begins
    <2>2. Taken
      BY <1>1, <2>1 DEF LoopInv, Known, FlowInv
    <2>3. Len(pending') = 0 /\ Len(feedback') = 0 /\ fill' = 0
      BY <1>3, <2>2 DEF Disarm, Taken, rxfifo, txfifo
    <2> QED
      BY <2>1, <2>3 DEF EndlessInv
  <1>4. ASSUME ~Disarm PROVE stage = "L3" /\ mode = "loopback"
    <2>1. stage = "L3"
      BY <1>4, Begins DEF Next, Peripheral, Handler, Main, RemoteSends, FrameSent, FrameAborted, FrameLooped,
         HandlerEnter, HandlerReads, HandlerFrees, HandlerReturns, Transmit, TransmitEnds, ReceivePolls,
         ReceiveEnds, Arm, AfterTransmit, WaitForCallback, Check, LoopL3, LoopT4, StartTransceiver, test, vars
    <2> QED
      BY <1>1, <2>1 DEF FlowInv
  <1>5. ASSUME ~Disarm
        PROVE  /\ \A k \in 1..fill : Waiting[k] \in Own
               /\ \A k \in 1..Len(feedback) : feedback[k] \in Own
               /\ \A k \in 1..Len(pending) : elem[pending[k]] \in Own
               /\ pc # "Send" => tx \in Own
               /\ pc = "Check" => rx \in Own
    BY <1>4, <1>5 DEF EndlessInv
  <1>6. CASE FrameSent
    <2>1. /\ pending # <<>> /\ pending \in Seq(Index) /\ ~Disarm
          /\ feedback = <<>> /\ feedback' = Append(feedback, elem[pending[1]]) /\ pending' = Tail(pending)
          /\ UNCHANGED <<slot, get, fill, elem, pc, tx, rx>>
      <3>1. stage = "L3"
        BY <1>6 DEF FrameSent, test
      <3> QED
        BY <1>1, <1>6, <3>1 DEF FrameSent, FlowInv, TypeOK, Disarm, MainAt, rxfifo, test
    <2>2. elem[pending[1]] \in Own
      BY <1>5, <2>1
    <2>3. feedback' = <<elem[pending[1]]>>
      BY <2>1
    <2>4. \A k \in 1..Len(pending') : k + 1 \in 1..Len(pending) /\ pending'[k] = pending[k + 1]
      BY <2>1
    <2> QED
      BY <1>2, <1>5, <2>1, <2>2, <2>3, <2>4 DEF EndlessInv
  <1>7. CASE FrameLooped
    <2>1. /\ feedback # <<>> /\ feedback \in Seq(Frame) /\ feedback' = Tail(feedback) /\ ~Disarm
          /\ UNCHANGED <<elem, pending, pc, tx, rx>>
      BY <1>1, <1>7 DEF FrameLooped, FlowInv, TypeOK, Disarm, MainAt, txfifo, test
    <2>2. PICK f \in Frame : f = feedback[1] /\ Store(f)
      BY <1>1, <1>7, <2>1 DEF FrameLooped, TypeOK
    <2>3. f \in Own
      BY <1>5, <2>1, <2>2
    <2>4. \A k \in 1..fill' : Waiting'[k] \in Own
      <3>1. UNCHANGED Waiting \/ Waiting' = Append(Waiting, f)
        <4>1. UNCHANGED taken
          BY <1>7 DEF FrameLooped
        <4> QED
          BY <1>1, <2>2, <4>1, StoreReceives DEF Q!Receive
      <3>2. /\ Waiting \in Seq(Frame) /\ Len(Waiting) = fill
            /\ Waiting' \in Seq(Frame) /\ Len(Waiting') = fill'
        BY <1>1, WaitingSeq
      <3>3. ASSUME NEW k \in 1..fill', Waiting' = Append(Waiting, f)
            PROVE  Waiting'[k] \in Own
        <4>1. CASE k \in 1..fill
          BY <1>5, <2>1, <3>2, <3>3, <4>1
        <4>2. CASE k \notin 1..fill
          BY <2>3, <3>2, <3>3, <4>2
        <4> QED
          BY <4>1, <4>2
      <3>4. ASSUME NEW k \in 1..fill', UNCHANGED Waiting
            PROVE  Waiting'[k] \in Own
        <4>1. fill' = fill
          BY <3>2, <3>4
        <4> QED
          BY <1>5, <2>1, <3>4, <4>1
      <3> QED
        BY <3>1, <3>3, <3>4
    <2>5. \A k \in 1..Len(feedback') : k + 1 \in 1..Len(feedback) /\ feedback'[k] = feedback[k + 1]
      BY <2>1
    <2> QED
      BY <1>5, <2>1, <2>4, <2>5 DEF EndlessInv
  <1>8. CASE Transmit
    <2>1. /\ pc' # "Send" /\ pc' # "Check" /\ tx' = Message(stage, counter) /\ ~Disarm
          /\ \/ UNCHANGED <<elem, pending>>
             \/ elem' = [elem EXCEPT ![put] = tx'] /\ pending' = Append(pending, put)
          /\ UNCHANGED <<slot, get, fill, feedback>>
      BY <1>8 DEF Transmit, Disarm, MainAt, rxfifo, txfifo
    <2>2. tx' \in Own
      BY <1>1, <1>4, <2>1 DEF Own, TypeOK
    <2>3. ASSUME NEW k \in 1..Len(pending'), elem' = [elem EXCEPT ![put] = tx'], pending' = Append(pending, put)
          PROVE  elem'[pending'[k]] \in Own
      <3>1. /\ elem \in [Index -> Frame] /\ put \in Index /\ pending \in Seq(Index)
            /\ \A j \in 1..Len(pending) : elem[pending[j]] \in Own
        BY <1>1, <1>5, <2>1 DEF TypeOK
      <3>2. CASE k \in 1..Len(pending)
        <4>1. pending'[k] = pending[k] /\ pending[k] \in Index /\ elem[pending[k]] \in Own
          BY <2>3, <3>1, <3>2
        <4> QED
          BY <2>2, <2>3, <3>1, <4>1
      <3>3. CASE k \notin 1..Len(pending)
        <4>1. pending'[k] = put
          BY <2>3, <3>1, <3>3
        <4> QED
          BY <2>2, <2>3, <3>1, <4>1
      <3> QED
        BY <3>2, <3>3
    <2>4. \A k \in 1..Len(pending') : elem'[pending'[k]] \in Own
      BY <1>5, <2>1, <2>3
    <2> QED
      BY <1>2, <1>5, <2>1, <2>2, <2>4 DEF EndlessInv
  <1>9. CASE ReceiveEnds
    <2>1. /\ pc = "Acknowledge" /\ pc' = "Check" /\ Acknowledge /\ rx' = taken' /\ ~Disarm
          /\ UNCHANGED <<elem, pending, feedback, tx>>
      BY <1>9 DEF ReceiveEnds, Disarm, MainAt, txfifo, locals
    <2>2. Q!Take
      BY <1>1, <2>1, AcknowledgeTakes DEF RxInv
    <2>3. /\ Waiting \in Seq(Frame) /\ Len(Waiting) = fill
          /\ Waiting' \in Seq(Frame) /\ Len(Waiting') = fill'
      BY <1>1, WaitingSeq
    <2>4. Waiting # <<>> /\ taken' = Head(Waiting) /\ Waiting' = Tail(Waiting)
      BY <2>2 DEF Q!Take
    <2>5. taken' \in Own
      BY <1>5, <2>1, <2>3, <2>4
    <2>6. \A k \in 1..fill' : k + 1 \in 1..fill /\ Waiting'[k] = Waiting[k + 1]
      BY <2>3, <2>4
    <2> QED
      BY <1>5, <2>1, <2>5, <2>6 DEF EndlessInv
  <1>10. ASSUME UNCHANGED <<slot, get, fill, feedback, elem, pending, tx, rx>>, ~Disarm,
                pc' # "Send" => pc # "Send", pc' = "Check" => pc = "Check"
         PROVE  EndlessInv'
    BY <1>2, <1>5, <1>10 DEF EndlessInv
  <1>11. CASE UNCHANGED vars
    <2>1. UNCHANGED <<slot, get, fill, feedback, elem, pending, tx, rx, pc>> /\ UNCHANGED stage
      BY <1>11 DEF vars
    <2> QED
      BY <1>2, <2>1 DEF EndlessInv
  <1>12. CASE TransmitEnds \/ ReceivePolls \/ LoopL3
    <2>1. ~StartTransceiver
      BY Begins DEF StartTransceiver
    <2>2. /\ pc # "Send" /\ pc' # "Check" /\ ~Disarm
          /\ UNCHANGED <<slot, get, fill, feedback, elem, pending, tx, rx>>
      BY <1>12, <2>1 DEF TransmitEnds, ReceivePolls, LoopL3, Disarm, MainAt, rxfifo, txfifo, locals
    <2> QED
      BY <1>10, <2>2
  <1>13. CASE AfterTransmit
    <2>1. ~StartTransceiver
      BY Begins DEF StartTransceiver
    <2>2. /\ pc = "Sent" /\ ~Disarm /\ stage = "L3"
          /\ UNCHANGED <<slot, get, fill, feedback, elem, pending, tx, rx>>
      BY <1>4, <1>13, <2>1 DEF AfterTransmit, Disarm, MainAt, rxfifo, txfifo, locals
    <2>3. pc' \in {"Again", "Receive"}
      BY <1>13, <2>1, <2>2 DEF AfterTransmit, Waits
    <2> QED
      BY <1>10, <2>2, <2>3
  <1>14. CASE Check
    <2>1. /\ pc = "Check" /\ ~Disarm /\ stage = "L3"
          /\ UNCHANGED <<slot, get, fill, feedback, elem, pending, tx, rx>>
      BY <1>4, <1>14 DEF Check, Disarm, MainAt, rxfifo, txfifo, locals
    <2> QED
      BY <1>10, <2>1
  <1>15. CASE Arm \/ WaitForCallback \/ LoopT4 \/ RemoteSends \/ FrameAborted
    BY <1>1, <1>15 DEF Arm, WaitForCallback, LoopT4, RemoteSends, FrameAborted, MainAt, FlowInv, test
  <1>16. CASE Handler
    <2>1. irq /\ stage' = stage
      BY <1>1, <1>16 DEF Handler, HandlerEnter, HandlerReads, HandlerFrees, HandlerReturns, FlowInv, test
    <2> QED
      BY <1>1, <2>1 DEF FlowInv
  <1> QED
    BY <1>3, <1>6, <1>7, <1>8, <1>9, <1>11, <1>12, <1>13, <1>14, <1>15, <1>16 DEF Next, Peripheral, Main

(* A phase of the loop-back test compares what it sent with the answer to   *)
(* it, also when CAN_Transmit gave up, and its verdict is CAN_Transmit's;   *)
(* the endless phase never takes a frame of the others for its own.         *)
THEOREM LoopbackIsTrue == Spec => []LoopbackMatches
  <1>1. Init => EndlessInv
    BY DEF Init, EndlessInv
  <1>2. IInv /\ IInv' /\ EndlessInv /\ [Next]_vars => EndlessInv'
    BY EndlessNext
  <1>3. IInv /\ EndlessInv => LoopbackMatches
    <2> SUFFICES ASSUME IInv, EndlessInv, mode = "loopback", pc = "Check" PROVE LoopbackMatches
      BY DEF LoopbackMatches
    <2>1. TypeOK /\ FlowInv /\ LoopInv /\ stage \in {"L1", "L2", "L3"}
      BY DEF IInv, FlowInv
    <2>2. CASE Known
      BY <2>1, <2>2 DEF LoopInv, LoopbackMatches, Answer
    <2>3. CASE ~Known
      <3>1. stage = "L3" /\ pass = -1 /\ Answer = rx
        BY <2>1, <2>3 DEF Known, TypeOK, Answer
      <3>2. rx \in Own /\ tx \in Own
        BY <3>1 DEF EndlessInv
      <3>3. \A f \in Own : f.id = 256
        BY DEF Own, Message
      <3> QED
        BY <3>1, <3>2, <3>3 DEF LoopbackMatches
    <2> QED
      BY <2>2, <2>3
  <1> QED
    BY <1>1, <1>2, <1>3, Inductive, PTL DEF Spec
================================================================================
