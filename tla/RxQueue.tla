-------------------------------- MODULE RxQueue --------------------------------
(***************************************************************************)
(* What Rx FIFO 0 promises the readers of CAN frames: frames are taken one  *)
(* at a time, in the order they were received, each once and as it was      *)
(* received.  A frame that finds Cap frames waiting is lost, and the FIFO   *)
(* is empty again after CAN_Init.                                           *)
(***************************************************************************)
EXTENDS Naturals, Sequences

CONSTANTS Cap, Frame

VARIABLES
  queue,  \* the frames received and not yet taken
  taken   \* the frame taken last

Init == queue = <<>> /\ taken \in Frame

Receive(f) == /\ Len(queue) < Cap
              /\ queue' = Append(queue, f)
              /\ UNCHANGED taken

Take == /\ queue # <<>>
        /\ taken' = Head(queue)
        /\ queue' = Tail(queue)

Reset == queue' = <<>> /\ UNCHANGED taken

Next == Take \/ Reset \/ \E f \in Frame : Receive(f)

Spec == Init /\ [][Next]_<<queue, taken>>
================================================================================
