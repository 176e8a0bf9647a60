-------------------------------- MODULE Upload --------------------------------
(***************************************************************************)
(* The upload tool (tools/bl_upload.py) and the bootloader on one serial    *)
(* link: READY lines, requests, answers, tool runs that fail and are        *)
(* repeated, and board resets, at every moment of the conversation.         *)
(*                                                                         *)
(* A field of the protocol ('u', size, flash word, CRC) is one symbol, and  *)
(* all fields use the same symbols: a board that waits for one takes a      *)
(* symbol left from another conversation for it.  A symbol is delivered     *)
(* within the board's byte timeout, but the tool may pause at any time.     *)
(***************************************************************************)
EXTENDS Bootloader, SequencesExt

CONSTANTS
  CMD_UPDATE,  \* the symbol of 'u'
  Image,       \* the images the tool is given, as sequences of symbols
  MaxRuns,     \* bound: runs of the tool
  MaxToHost    \* bound: lines the board may have on the link before it adds one

(* What the slot holds when the image f has been delivered.                 *)
PaddedFile(f) == [w \in SlotWord |-> IF w < Len(f) THEN f[w + 1] ELSE Erased]

ASSUME UploadAssumption ==
  /\ WordBytes = 1
  /\ CMD_UPDATE \in Word
  /\ Word \subseteq SizeInput /\ Word \subseteq CrcValue
  /\ \A f \in Image : /\ f \in Seq(Word) /\ Len(f) \in Word \cap 1 .. SlotBytes
                     /\ Crc(PaddedFile(f)) \in Word

VARIABLES
  toBoard, toHost,  \* the link: symbols, and lines and answer bytes
  flushed,          \* the wait has discarded what came before it (BL_FlushRx)
  tool,             \* what the tool is doing
  step,             \* the request it sends, or whose answer it awaits
  file, sent,       \* its image, and the symbols of it that are acknowledged
  runs              \* how often it was started

board   == vars
tools   == <<tool, step, file, sent, runs>>
allVars == <<board, toBoard, toHost, flushed, tools>>

----------------------------------------------------------------------------
(* The board's side of the link *)

Listening == tool \in {"Ready", "Send", "Await"}

(* Bytes for a port no tool reads are dropped, at the latest when the next  *)
(* run of the tool clears its input.                                        *)
Say(lines) == toHost' = IF Listening THEN toHost \o lines ELSE <<>>

Room == ~Listening \/ Len(toHost) < MaxToHost

(* What the board has sent when a step of BL_ReceiveImage is done: ACK or   *)
(* NACK, after the session also BL_RunUpdate's line.                        *)
Answer ==
  CASE pc' = "Verify" -> <<IF result' = "OK" THEN "ACK" ELSE "NACK", "line">>
    [] pc' \in {"Chunk", "Crc"} /\ pc \in {"Erase", "Program"} -> <<"ACK">>
    [] OTHER -> <<>>

(* READY, sent each time main's loop begins; the wait has not yet begun.    *)
(* The banner before it is left out: the y of its "Stay" is an ACK byte     *)
(* (0x79), but the byte behind it is none, so no run succeeds on it.        *)
EnterWait == flushed' = FALSE

BoardBoot == Boot /\ Say(<<"READY">>) /\ EnterWait /\ UNCHANGED <<toBoard, tools>>

(* BL_FlushRx at the start of the wait: what has arrived is discarded.      *)
FlushRx ==
  /\ pc = "Wait" /\ ~flushed
  /\ flushed' = TRUE
  /\ toBoard' \in Suffixes(toBoard)
  /\ UNCHANGED <<board, toHost, tools>>

(* Every BL_READY_REPEAT_MS while the board stays; over USB also before.    *)
RepeatReady ==
  /\ pc = "Wait" /\ flushed /\ Room
  /\ Say(<<"READY">>)
  /\ UNCHANGED <<board, toBoard, flushed, tools>>

(* Mutant: 'u' is looked at but left in the receiver. *)
BoardRequestPeek ==
  /\ flushed /\ toBoard # <<>>
  /\ Head(toBoard) = CMD_UPDATE
  /\ UpdateRequested /\ Say(<<"ACK">>) /\ UNCHANGED toBoard
  /\ UNCHANGED <<flushed, tools>>

(* The wait reads a symbol: 'u' starts a session, another is skipped.       *)
BoardRequest ==
  /\ pc = "Wait" /\ flushed /\ toBoard # <<>>
  /\ toBoard' = Tail(toBoard)
  /\ \/ Head(toBoard) = CMD_UPDATE /\ UpdateRequested /\ Say(<<"ACK">>)
     \/ Head(toBoard) # CMD_UPDATE /\ UNCHANGED <<board, toHost>>
  /\ UNCHANGED <<flushed, tools>>

(* Symbols the running read of the session waits for.                       *)
Needed == IF pc = "Chunk" THEN Padded(ChunkLen) ELSE 1

BoardReceive ==
  /\ pc \in Reading /\ Len(toBoard) >= Needed
  /\ \/ ReceiveSize(Head(toBoard))
     \/ ReceiveChunk(SubSeq(toBoard, 1, Needed))
     \/ ReceiveCrc(Head(toBoard))
  /\ toBoard' = SubSeq(toBoard, Needed + 1, Len(toBoard))
  /\ Say(Answer)
  /\ UNCHANGED <<flushed, tools>>

BoardWork ==
  /\ EraseNext \/ ProgramNext \/ Seal
  /\ Say(Answer)
  /\ UNCHANGED <<toBoard, flushed, tools>>

(* The part of the field that came has been consumed.                       *)
BoardTimeout ==
  /\ pc \in Reading /\ Len(toBoard) < Needed
  /\ ReadTimeout
  /\ toBoard' = <<>>
  /\ Say(Answer)
  /\ UNCHANGED <<flushed, tools>>

BoardVerify ==
  /\ Verify
  /\ Say(IF pc' = "App" THEN <<"line">> ELSE <<"line", "READY">>)
  /\ EnterWait
  /\ UNCHANGED <<toBoard, tools>>

BoardButton ==
  /\ flushed /\ Room
  /\ ButtonPressed
  /\ Say(<<"line", "READY">>)
  /\ EnterWait
  /\ UNCHANGED <<toBoard, tools>>

BoardExpires == flushed /\ WindowExpires /\ UNCHANGED <<toBoard, toHost, flushed, tools>>

(* The receiver is empty after a reset; the host's input is not.            *)
BoardReset == Room /\ Reset /\ toBoard' = <<>> /\ UNCHANGED <<toHost, flushed, tools>>

(* An application, or a starting board, takes or loses what is sent to it.  *)
BoardDeaf ==
  /\ pc \in {"App", "Reset"}
  /\ toBoard # <<>>
  /\ toBoard' = <<>>
  /\ UNCHANGED <<board, toHost, flushed, tools>>

----------------------------------------------------------------------------
(* The tool *)

(* A run starts when what an earlier one wrote has arrived (it listens for  *)
(* 1.5 s after an error), and clears its input.                             *)
Start ==
  /\ ~Listening /\ runs < MaxRuns
  /\ toBoard = <<>>
  /\ runs' = runs + 1
  /\ tool' = "Ready" /\ step' = "update" /\ sent' = 0
  /\ file' \in Image
  /\ toHost' = <<>>
  /\ UNCHANGED <<board, toBoard, flushed>>

(* wait_ready reads a line; its print and the tool's pauses come after it.  *)
WaitReady ==
  /\ tool = "Ready" /\ toHost # <<>>
  /\ tool' = IF Head(toHost) = "READY" THEN "Send" ELSE "Ready"
  /\ toHost' = Tail(toHost)
  /\ UNCHANGED <<board, toBoard, flushed, step, file, sent, runs>>

NextChunk ==
  SubSeq(file, sent + 1, IF sent + ChunkWords < Len(file) THEN sent + ChunkWords ELSE Len(file))

Request ==
  CASE step = "update" -> <<CMD_UPDATE>>
    [] step = "size"   -> <<Len(file)>>
    [] step = "chunk"  -> NextChunk
    [] step = "crc"    -> <<Crc(PaddedFile(file))>>

(* The tool writes a request.  Before 'u' it clears its input again, which  *)
(* drops what has arrived and not what is on the way.                       *)
Send ==
  /\ tool = "Send"
  /\ tool' = "Await"
  /\ toBoard' = toBoard \o Request
  /\ toHost' \in IF step = "update" THEN Suffixes(toHost) ELSE {toHost}
  /\ UNCHANGED <<board, flushed, step, file, sent, runs>>

(* The acknowledged request is done.                                        *)
Proceed ==
  /\ sent' = IF step = "chunk" THEN sent + Len(NextChunk) ELSE sent
  /\ step' = CASE step = "update" -> "size"
               [] step = "size"   -> "chunk"
               [] step = "chunk"  -> IF sent' < Len(file) THEN "chunk" ELSE "crc"
               [] step = "crc"    -> "crc"
  /\ tool' = IF step = "crc" THEN "Done" ELSE "Send"

(* Mutant: every byte but NACK counts as the answer. *)
ExpectNoNack ==
  /\ tool = "Await" /\ toHost # <<>>
  /\ \/ Head(toHost) # "NACK" /\ Proceed
     \/ Head(toHost) = "NACK" /\ tool' = "Failed" /\ UNCHANGED <<step, sent>>
  /\ toHost' = Tail(toHost)
  /\ UNCHANGED <<board, toBoard, flushed, file, runs>>

(* expect_ack: the first byte is the answer, whatever it is.                *)
ExpectAck ==
  /\ tool = "Await" /\ toHost # <<>>
  /\ \/ Head(toHost) = "ACK" /\ Proceed
     \/ Head(toHost) # "ACK" /\ tool' = "Failed" /\ UNCHANGED <<step, sent>>
  /\ toHost' = Tail(toHost)
  /\ UNCHANGED <<board, toBoard, flushed, file, runs>>

(* Mutants: an answer is awaited without a timeout; a late one is assumed.  *)
ToolTimeoutReadyOnly ==
  /\ tool = "Ready" /\ toHost = <<>>
  /\ tool' = "Failed"
  /\ UNCHANGED <<board, toBoard, toHost, flushed, step, file, sent, runs>>

ToolTimeoutGoesOn ==
  /\ toHost = <<>>
  /\ \/ tool = "Ready" /\ tool' = "Failed" /\ UNCHANGED <<step, sent>>
     \/ tool = "Await" /\ Proceed
  /\ UNCHANGED <<board, toBoard, toHost, flushed, file, runs>>

(* READY or an answer does not come in time - or comes later.               *)
ToolTimeout ==
  /\ tool \in {"Ready", "Await"} /\ toHost = <<>>
  /\ tool' = "Failed"
  /\ UNCHANGED <<board, toBoard, toHost, flushed, step, file, sent, runs>>

----------------------------------------------------------------------------

UploadInit ==
  /\ Init
  /\ toBoard = <<>> /\ toHost = <<>>
  /\ flushed = FALSE
  /\ tool = "Idle" /\ step = "update" /\ sent = 0 /\ runs = 0
  /\ file \in Image

BoardAlone == BoardBoot \/ FlushRx \/ BoardRequest \/ BoardReceive \/ BoardWork
                \/ BoardTimeout \/ BoardVerify
ToolStep   == WaitReady \/ Send \/ ExpectAck \/ ToolTimeout

UploadNext ==
  \/ BoardAlone
  \/ RepeatReady \/ BoardButton \/ BoardExpires \/ BoardReset \/ BoardDeaf
  \/ Start
  \/ ToolStep

(* The tool's process runs; its reads have timeouts.                        *)
UploadSpec == UploadInit /\ [][UploadNext]_allVars /\ WF_allVars(ToolStep)

(* Nothing goes wrong: the board stays in the bootloader, is not reset and  *)
(* completes its sessions, and no answer is late.                           *)
Calm ==
  /\ pc = "Reset" \/ pc' # "Reset"
  /\ stay'
  /\ result' \notin Failures
  /\ tool' = "Failed" => toHost # <<>>

CalmSpec == UploadInit /\ [][UploadNext /\ Calm]_allVars

----------------------------------------------------------------------------
(* Properties *)

(* "=== UPLOADED ===" is printed only when the slot holds the tool's image, *)
(* erased bytes to its end, and its seal: after resets, late answers, READY *)
(* lines between the answers and sessions an earlier run left on the board. *)
UploadedIsSealed ==
  tool = "Done" => slot = PaddedFile(file) /\ tag = Crc(PaddedFile(file))

(* While the tool waits for an answer that has not been sent and the board  *)
(* erases, programs or checks - and polls no receiver - nothing arrives     *)
(* that the receiver would have to hold.                                    *)
SilentWhileBusy ==
  tool = "Await" /\ toHost = <<>> /\ pc \in {"Erase", "Program", "Seal"} => toBoard = <<>>

(* Until the tool has been told that 'u' was accepted it has done no harm:  *)
(* a first run that ends before, by a READY in the answer's place or a lost *)
(* 'u', leaves the application and its seal in flash.                       *)
RequestIsHarmless ==
  [][runs = 0 \/ (runs = 1 /\ step = "update") => UNCHANGED flash]_allVars

(* A run of the tool ends, whatever the board does.                         *)
RunEnds == Listening ~> ~Listening

(* Projects/Bootloader/README.md:52: while the board stays "it prints [BL]  *)
(* READY every second on both links, so the upload tool can be started at   *)
(* any time": when nothing goes wrong the upload does not fail.             *)
StartsAtAnyTime == tool # "Failed"
=============================================================================
