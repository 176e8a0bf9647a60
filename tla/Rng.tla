---------------------------------- MODULE Rng -----------------------------------
(***************************************************************************)
(* The random number driver rng.c: RNG_Generate, which polls, and           *)
(* RNG_Generate_IT, which lets rng_irq_handler fill the buffer and gives up *)
(* after a while.  The client enables the generator before each call, as    *)
(* the demo's main does.  The buffer of a call is its caller's again as     *)
(* soon as the call returns.                                                *)
(***************************************************************************)
EXTENDS Integers

CONSTANTS
  Length,  \* bound: bytes asked for
  Calls    \* bound: calls in a behaviour

RngBounds == Length \in Nat \ {0} /\ Calls \in Nat

VARIABLES
  rngen, ie,   \* CR.RNGEN and CR.IE
  drdy, err,   \* SR.DRDY; SR.CEIS or SEIS
  registered,  \* rng_irq_handler is registered and its interrupt enabled
  status,      \* hrng->status
  idx,         \* bytes of the call's buffer that were filled
  pc, hpc,     \* main and the handler
  result,      \* what the last call returned
  calls

device == <<rngen, ie, drdy, err>>
vars   == <<rngen, ie, drdy, err, registered, status, idx, pc, hpc, result, calls>>

(* The generator, while it is enabled: a word, or a clock or seed error.    *)
Produces ==
  /\ rngen /\ ~drdy /\ ~err
  /\ \/ drdy' = TRUE /\ UNCHANGED err
     \/ err' = TRUE /\ UNCHANGED drdy
  /\ UNCHANGED <<rngen, ie, registered, status, idx, pc, hpc, result, calls>>

----------------------------------------------------------------------------
(* rng_irq_handler                                                          *)

Enter ==
  /\ hpc = "idle" /\ ie /\ registered /\ (drdy \/ err)
  /\ hpc' = IF err THEN "error" ELSE "store"
  /\ UNCHANGED <<device, registered, status, idx, pc, result, calls>>

Fails ==
  /\ hpc = "error" /\ hpc' = "idle"
  /\ err' = FALSE
  /\ ie' = FALSE
  /\ registered' = FALSE
  /\ status' = "ERROR"
  /\ UNCHANGED <<rngen, drdy, idx, pc, result, calls>>

Stores ==
  /\ hpc = "store" /\ hpc' = "idle"
  /\ drdy' = FALSE
  /\ idx' = idx + 1
  /\ IF idx + 1 >= Length
       THEN ie' = FALSE /\ registered' = FALSE /\ status' = "OK"
       ELSE UNCHANGED <<ie, registered, status>>
  /\ UNCHANGED <<rngen, err, pc, result, calls>>

Handler == Enter \/ Fails \/ Stores

----------------------------------------------------------------------------
(* Main *)

At(p) == hpc = "idle" /\ pc = p

Return(r) == pc' = "idle" /\ result' = r

(* RNG_Enable, then one of the calls                                        *)
Call ==
  /\ At("idle") /\ calls < Calls
  /\ calls' = calls + 1
  /\ rngen' = TRUE
  /\ pc' \in {"drdy", "arm"}
  /\ idx' = 0
  /\ UNCHANGED <<ie, drdy, err, registered, status, hpc, result>>

(* RNG_Generate: SR is read once for DRDY and once more for the errors.     *)
PollReady ==
  /\ At("drdy")
  /\ IF drdy
       THEN /\ drdy' = FALSE
            /\ idx' = idx + 1
            /\ IF idx + 1 = Length THEN Return("OK") ELSE UNCHANGED <<pc, result>>
       ELSE pc' = "errors" /\ UNCHANGED <<drdy, idx, result>>
  /\ UNCHANGED <<rngen, ie, err, registered, status, hpc, calls>>

PollsForever ==   \* mutant: only DRDY is polled
  /\ At("errors") /\ pc' = "drdy"
  /\ UNCHANGED <<device, registered, status, idx, hpc, result, calls>>

PollErrors ==
  /\ At("errors")
  /\ IF err THEN err' = FALSE /\ rngen' = FALSE /\ Return("ERROR")
            ELSE pc' = "drdy" /\ UNCHANGED <<err, rngen, result>>
  /\ UNCHANGED <<ie, drdy, registered, status, idx, hpc, calls>>

(* RNG_Generate_IT                                                          *)
Arm ==
  /\ At("arm") /\ pc' = "register"
  /\ status' = "BUSY"
  /\ err' = FALSE
  /\ UNCHANGED <<rngen, ie, drdy, registered, idx, hpc, result, calls>>

Register ==
  /\ At("register") /\ pc' = "wait"
  /\ registered' = TRUE
  /\ ie' = TRUE
  /\ UNCHANGED <<rngen, drdy, err, status, idx, hpc, result, calls>>

(* The status is read, then the countdown; the handler may finish between.  *)
Waited ==
  /\ At("wait")
  /\ IF status = "BUSY" THEN pc' = "giveUp" /\ UNCHANGED result ELSE Return(status)
  /\ UNCHANGED <<device, registered, status, idx, hpc, calls>>

GiveUpArmed ==   \* mutant: the interrupt stays armed
  /\ At("giveUp")
  /\ Return("ERROR")
  /\ UNCHANGED <<device, registered, status, idx, hpc, calls>>

GiveUp ==
  /\ At("giveUp")
  /\ ie' = FALSE
  /\ registered' = FALSE
  /\ Return("ERROR")
  /\ UNCHANGED <<rngen, drdy, err, status, idx, hpc, calls>>

GoOn ==
  /\ At("giveUp") /\ pc' = "wait"
  /\ UNCHANGED <<device, registered, status, idx, hpc, result, calls>>

Disable ==   \* RNG_Disable
  /\ At("idle") /\ rngen
  /\ rngen' = FALSE
  /\ UNCHANGED <<ie, drdy, err, registered, status, idx, pc, hpc, result, calls>>

Progress == PollReady \/ PollErrors \/ Arm \/ Register \/ Waited
Main     == Call \/ Progress \/ GiveUp \/ GoOn \/ Disable

----------------------------------------------------------------------------
Init ==
  /\ rngen = FALSE /\ ie = FALSE /\ drdy = FALSE /\ err = FALSE
  /\ registered = FALSE /\ status = "OK" /\ idx = 0
  /\ pc = "idle" /\ hpc = "idle" /\ result = "OK" /\ calls = 0

Next == Produces \/ Handler \/ Main

(* The countdown of RNG_Generate_IT reaches zero: giving up is always       *)
(* possible in the end (SF).                                                *)
Spec == Init /\ [][Next]_vars
        /\ WF_vars(Produces) /\ WF_vars(Handler) /\ WF_vars(Progress) /\ SF_vars(GiveUp)
----------------------------------------------------------------------------
(* A call that reports RNG_OK filled its whole buffer with words of its     *)
(* own; and a call that returned, above all one that gave up, has seen the  *)
(* last write to its buffer.                                                *)
BufferIsOwned ==
  /\ pc = "idle" /\ result = "OK" /\ calls > 0 => idx = Length
  /\ hpc = "store" => pc \in {"register", "wait", "giveUp"} /\ idx < Length

(* Every call returns: the poll sees the error that stops the generator,    *)
(* and the interrupt version gives up.                                      *)
CallReturns == pc # "idle" ~> pc = "idle"
================================================================================
