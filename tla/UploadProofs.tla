----------------------------- MODULE UploadProofs -----------------------------
(***************************************************************************)
(* Proofs about Upload for every geometry, checksum, image and number of    *)
(* runs: what the tool and the board know of each other at every moment of  *)
(* their conversation.                                                      *)
(***************************************************************************)
EXTENDS Upload, BootloaderProofs

----------------------------------------------------------------------------
(* The inductive invariant *)

Said == {"READY", "ACK", "NACK", "line"}

LinkTypeOK ==
  /\ toBoard \in Seq(Word)
  /\ toHost \in Seq(Said)
  /\ flushed \in BOOLEAN
  /\ tool \in {"Idle", "Ready", "Send", "Await", "Done", "Failed"}
  /\ step \in {"update", "size", "chunk", "crc"}
  /\ file \in Image
  /\ sent \in Nat
  /\ runs \in Nat

Outside  == pc \notin InSession
NoAck(s) == \A j \in 1 .. Len(s) : s[j] # "ACK"

(* The answer the tool will take is not ACK: its run fails - or will at the  *)
(* answer after that.                                                       *)
Refused     == toHost # <<>> /\ toHost[1] # "ACK"
RefusedNext == Len(toHost) > 1 /\ toHost[1] = "ACK" /\ toHost[2] # "ACK"

(* The image as far as its first n words were delivered.                    *)
Delivered(n) == [w \in SlotWord |-> IF w < n THEN file[w + 1] ELSE Erased]

(* The board has taken n words of the tool's image and waits for more, or   *)
(* for the CRC.                                                             *)
Holds(n) ==
  /\ size = Len(file) /\ image = Delivered(n)
  /\ n < Len(file) => pc = "Chunk" /\ received = n /\ addr = n
  /\ n = Len(file) => pc = "Crc"

Sealed == Outside /\ slot = PaddedFile(file) /\ tag = Crc(PaddedFile(file))

SentNext == sent + Len(NextChunk)

(* Where the board is before it takes the request of the tool's step, while *)
(* it works on it, and when it has acknowledged it.                         *)
Before ==
  /\ step = "update" => Outside
  /\ step = "size"   => pc = "Size"
  /\ step \in {"chunk", "crc"} => Holds(sent)

Working ==
  /\ step = "update" => Outside
  /\ step = "size"   => pc = "Erase" /\ size = Len(file)
  /\ step = "chunk"  => /\ pc = "Program" /\ size = Len(file) /\ received = sent
                        /\ addr + Len(chunk) = SentNext /\ image = Delivered(SentNext)
  /\ step = "crc"    => pc = "Seal" /\ image = PaddedFile(file)

After ==
  /\ step = "update" => pc = "Size"
  /\ step = "size"   => Holds(0)
  /\ step = "chunk"  => Holds(SentNext)
  /\ step = "crc"    => Sealed

(* Words acknowledged, as the tool's loop counts them.                      *)
SentInv ==
  /\ step \in {"update", "size"} => sent = 0
  /\ step = "chunk" => sent < Len(file)
  /\ step = "crc"   => sent = Len(file)

(* Once a READY has come the board is in no session, and none can start.    *)
ReadyInv ==
  tool = "Ready" =>
    /\ toBoard = <<>> /\ step = "update"
    /\ \A i \in 1 .. Len(toHost) : toHost[i] = "READY" =>
         Outside /\ \A j \in 1 .. Len(toHost) : j > i => toHost[j] # "ACK"

(* A board that was reset has not yet said so: its READY will refuse.       *)
SendInv ==
  tool = "Send" =>
    \/ step = "update" /\ toBoard = <<>> /\ Outside /\ NoAck(toHost)
    \/ step # "update" /\ Refused
    \/ step # "update" /\ toHost = <<>> /\ toBoard = <<>> /\ (Before \/ pc = "Reset")

(* The one ACK that the tool may take is the board's answer to its request. *)
AwaitInv ==
  tool = "Await" =>
    \/ Refused
    \/ toHost = <<>> /\ toBoard = Request /\ Before
    \/ toHost = <<>> /\ toBoard = <<>> /\ Working
    \/ toHost = <<>> /\ pc = "Reset"
    \/ toHost = <<"ACK">> /\ toBoard = <<>> /\ step # "crc" /\ (After \/ pc = "Reset")
    \/ RefusedNext /\ step # "crc"
    \/ toBoard = <<>> /\ step = "crc" /\ After

DoneInv == tool = "Done" => toBoard = <<>> /\ Sealed

(* Before a first 'u' is answered the board got nothing but that 'u'.       *)
FirstInv ==
  /\ tool = "Idle" <=> runs = 0
  /\ runs = 0 => toBoard = <<>> /\ Outside
  /\ runs = 1 /\ step = "update" =>
       \/ toBoard = <<>> /\ Outside
       \/ toBoard = <<>> /\ pc = "Size" /\ tool \notin {"Ready", "Send"}
       \/ toBoard = <<CMD_UPDATE>> /\ Outside /\ tool \notin {"Ready", "Send"}

TalkInv ==
  LinkTypeOK /\ SentInv /\ ReadyInv /\ SendInv /\ AwaitInv /\ DoneInv /\ FirstInv

UploadInv == IInv /\ TalkInv

----------------------------------------------------------------------------
(* Sequences *)

(* What comes first, and second, in a concatenation.                        *)
LEMMA Cat ==
  ASSUME NEW S, NEW s \in Seq(S), NEW t \in Seq(S)
  PROVE  /\ s \o t \in Seq(S) /\ Len(s \o t) = Len(s) + Len(t)
         /\ s = <<>> => s \o t = t
         /\ t = <<>> => s \o t = s
         /\ s # <<>> => s \o t # <<>> /\ (s \o t)[1] = s[1]
         /\ Len(s) > 1 => (s \o t)[2] = s[2]
         /\ Len(s) = 1 /\ t # <<>> => (s \o t)[2] = t[1]
<1>1. Len(s) \in Nat /\ Len(t) \in Nat
  OBVIOUS
<1>2. s = <<>> <=> Len(s) = 0
  BY EmptySeq
<1>3. t = <<>> <=> Len(t) = 0
  BY EmptySeq
<1>4. /\ s \o t \in Seq(S) /\ Len(s \o t) = Len(s) + Len(t)
      /\ \A i \in 1 .. Len(s) + Len(t) :
           (s \o t)[i] = IF i <= Len(s) THEN s[i] ELSE t[i - Len(s)]
  BY ConcatProperties
<1>5. (s = <<>> => s \o t = t) /\ (t = <<>> => s \o t = s)
  BY ConcatEmptySeq
<1>6. s # <<>> => s \o t # <<>> /\ (s \o t)[1] = s[1]
  BY <1>1, <1>2, <1>4
<1>7. Len(s) > 1 => (s \o t)[2] = s[2]
  BY <1>1, <1>4
<1>8. Len(s) = 1 /\ t # <<>> => (s \o t)[2] = t[1]
  BY <1>1, <1>3, <1>4
<1> QED
  BY <1>4, <1>5, <1>6, <1>7, <1>8

(* A suffix holds elements of the sequence; of at most one it is all or     *)
(* nothing.                                                                 *)
LEMMA SuffixFacts ==
  ASSUME NEW S, NEW s \in Seq(S), NEW t \in Suffixes(s)
  PROVE  /\ t \in Seq(S)
         /\ \A i \in 1 .. Len(t) : \E j \in 1 .. Len(s) : t[i] = s[j]
         /\ Len(s) <= 1 => t = s \/ t = <<>>
<1>1. CASE t = <<>>
  BY <1>1, EmptySeq
<1>2. CASE t # <<>>
  <2>1. PICK l \in 1 .. Len(s) : t = SubSeq(s, l, Len(s))
    BY <1>2 DEF Suffixes
  <2>2. PICK n \in Nat : n = Len(s)
    OBVIOUS
  <2>3. \A i \in l .. n : s[i] \in S
    BY <2>1, <2>2, ElementOfSeq
  <2>4. t \in Seq(S) /\ Len(t) = n - l + 1 /\ \A i \in 1 .. n - l + 1 : t[i] = s[l + i - 1]
    BY <2>1, <2>2, <2>3, SubSeqProperties
  <2>5. \A i \in 1 .. Len(t) : l + i - 1 \in 1 .. n /\ t[i] = s[l + i - 1]
    BY <2>1, <2>2, <2>4
  <2>6. Len(s) <= 1 => t = s
    BY <2>1, <2>2, SubSeqFull
  <2> QED
    BY <2>2, <2>4, <2>5, <2>6
<1> QED
  BY <1>1, <1>2

----------------------------------------------------------------------------
(* Sizes *)

(* With one byte to a word, bytes and words are the same.                   *)
LEMMA OneByte ==
  /\ SlotBytes = SlotWords /\ ChunkBytes = ChunkWords
  /\ SlotWords \in Nat \ {0} /\ ChunkWords \in Nat \ {0}
  /\ \A n \in Nat : Padded(n) = n
  BY Geometry, UploadAssumption DEF SlotBytes, ChunkBytes, Padded

(* The tool's image fits the slot.                                          *)
LEMMA FileFacts ==
  ASSUME LinkTypeOK
  PROVE  /\ file \in Seq(Word) /\ Len(file) \in 1 .. SlotWords /\ Len(file) \in Word
         /\ Crc(PaddedFile(file)) \in Word
         /\ PaddedFile(file) = Delivered(Len(file))
         /\ Delivered(0) = ErasedSlot
<1>1. /\ file \in Seq(Word) /\ Len(file) \in 1 .. SlotWords /\ Len(file) \in Word
      /\ Crc(PaddedFile(file)) \in Word
  BY OneByte, UploadAssumption DEF LinkTypeOK
<1>2. PaddedFile(file) = Delivered(Len(file))
  BY DEF PaddedFile, Delivered
<1>3. Delivered(0) = ErasedSlot
  BY OneByte DEF Delivered, ErasedSlot, SlotWord
<1> QED
  BY <1>1, <1>2, <1>3

(* The chunk the tool sends next is not empty, and ends where it says.      *)
LEMMA NextFacts ==
  ASSUME LinkTypeOK, sent < Len(file)
  PROVE  /\ NextChunk \in Seq(Word)
         /\ Len(NextChunk) = IF Len(file) - sent > ChunkWords THEN ChunkWords ELSE Len(file) - sent
         /\ Len(NextChunk) \in Nat \ {0}
         /\ SentNext \in sent + 1 .. Len(file)
         /\ \A i \in 1 .. Len(NextChunk) : NextChunk[i] = file[sent + i]
<1>1. PICK n \in Nat : n = Len(file)
  BY FileFacts
<1> DEFINE e == IF sent + ChunkWords < n THEN sent + ChunkWords ELSE n
<1>2. sent \in Nat /\ e \in sent + 1 .. n /\ NextChunk = SubSeq(file, sent + 1, e)
  BY <1>1, OneByte DEF LinkTypeOK, NextChunk
<1>3. \A i \in sent + 1 .. e : file[i] \in Word
  BY <1>1, <1>2, FileFacts, ElementOfSeq
<1> HIDE DEF e
<1>4. /\ NextChunk \in Seq(Word) /\ Len(NextChunk) = e - sent
      /\ \A i \in 1 .. e - sent : NextChunk[i] = file[sent + i]
  <2>1. /\ SubSeq(file, sent + 1, e) \in Seq(Word)
        /\ Len(SubSeq(file, sent + 1, e)) = IF sent + 1 <= e THEN e - (sent + 1) + 1 ELSE 0
        /\ \A i \in 1 .. e - (sent + 1) + 1 : SubSeq(file, sent + 1, e)[i] = file[sent + 1 + i - 1]
    BY <1>2, <1>3, SubSeqProperties
  <2>2. /\ sent + 1 <= e /\ e - (sent + 1) + 1 = e - sent
        /\ \A i \in 1 .. e - sent : sent + 1 + i - 1 = sent + i
    BY <1>2
  <2>3. Len(SubSeq(file, sent + 1, e)) = e - sent
    BY <2>1, <2>2
  <2>4. \A i \in 1 .. e - sent : SubSeq(file, sent + 1, e)[i] = file[sent + i]
    BY <2>1, <2>2
  <2> QED
    BY <1>2, <2>1, <2>3, <2>4
<1>5. e - sent = IF n - sent > ChunkWords THEN ChunkWords ELSE n - sent
  BY <1>1, <1>2, OneByte DEF e
<1> QED
  BY <1>1, <1>2, <1>4, <1>5 DEF SentNext

----------------------------------------------------------------------------
(* The steps of the composition are steps of the board, or leave it alone   *)

(* What the board reads is what a host may send.                            *)
LEMMA ReceiveIsInput ==
  ASSUME UploadInv, BoardReceive
  PROVE  HostInput
<1>1. /\ TypeOK /\ LoopInv /\ toBoard \in Seq(Word) /\ pc \in Reading /\ Len(toBoard) >= Needed
  BY DEF UploadInv, IInv, TalkInv, LinkTypeOK, BoardReceive
<1>2. CASE pc = "Chunk"
  <2>1. Needed = Padded(ChunkLen) /\ Needed \in Nat \ {0}
    BY <1>1, <1>2, ChunkArith DEF Needed
  <2>2. ReceiveChunk(SubSeq(toBoard, 1, Needed))
    BY <1>2 DEF BoardReceive, ReceiveSize, ReceiveCrc
  <2>3. PICK n \in Nat : n = Len(toBoard)
    BY <1>1
  <2>4. \A i \in 1 .. Needed : toBoard[i] \in Word
    BY <1>1, <2>1, <2>3, ElementOfSeq
  <2>5. /\ SubSeq(toBoard, 1, Needed) \in Seq(Word)
        /\ Len(SubSeq(toBoard, 1, Needed)) = Needed
    <3>1. Needed \in Int /\ 1 <= Needed
      BY <2>1
    <3> HIDE DEF Needed
    <3> QED
      BY <2>4, <3>1, SubSeqProperties
  <2>6. SubSeq(toBoard, 1, Needed) \in [1 .. Padded(ChunkLen) -> Word]
    BY <2>1, <2>5, LenProperties
  <2> QED
    BY <2>2, <2>6 DEF HostInput
<1>3. CASE pc # "Chunk"
  <2>1. Needed = 1
    BY <1>3 DEF Needed
  <2>2. Head(toBoard) \in Word
    <3>1. toBoard # <<>>
      BY <1>1, <2>1, EmptySeq
    <3> QED
      BY <1>1, <3>1, HeadTailProperties
  <2>3. Head(toBoard) \in SizeInput /\ Head(toBoard) \in CrcValue
    BY <2>2, UploadAssumption
  <2> QED
    BY <1>3, <2>3 DEF BoardReceive, ReceiveChunk, HostInput
<1> QED
  BY <1>2, <1>3

(* Every step of tool and board is one of Bootloader, or leaves the board   *)
(* alone.                                                                   *)
LEMMA BoardPart == UploadInv /\ [UploadNext]_allVars => [Next]_vars
<1> SUFFICES ASSUME UploadInv, [UploadNext]_allVars PROVE Next \/ UNCHANGED vars
  OBVIOUS
<1>1. CASE BoardAlone
  <2>1. CASE BoardReceive
    BY <2>1, ReceiveIsInput DEF Next
  <2>2. CASE BoardBoot \/ BoardWork \/ BoardTimeout \/ BoardVerify
    BY <2>2 DEF BoardBoot, BoardWork, BoardTimeout, BoardVerify, Next, BoardStep
  <2>3. CASE FlushRx \/ BoardRequest
    BY <2>3 DEF FlushRx, BoardRequest, Next, board
  <2> QED
    BY <1>1, <2>1, <2>2, <2>3 DEF BoardAlone
<1>2. CASE RepeatReady \/ BoardButton \/ BoardExpires \/ BoardReset \/ BoardDeaf
  BY <1>2 DEF RepeatReady, BoardButton, BoardExpires, BoardReset, BoardDeaf, Next, board
<1>3. CASE Start \/ ToolStep
  BY <1>3 DEF Start, ToolStep, WaitReady, Send, ExpectAck, ToolTimeout, board
<1>4. CASE UNCHANGED allVars
  BY <1>4 DEF allVars, board
<1> QED
  BY <1>1, <1>2, <1>3, <1>4 DEF UploadNext

----------------------------------------------------------------------------
(* What the board says *)

(* The tool, if it listens, hears the lines after what it has not yet read. *)
Heard(lines) ==
  toHost' \in Seq(Said) /\ (Listening => toHost' = toHost \o lines)

(* Saying and keeping silent are heard.                                     *)
LEMMA SayIsHeard ==
  ASSUME LinkTypeOK, NEW lines \in Seq(Said)
  PROVE  /\ Say(lines) => Heard(lines)
         /\ UNCHANGED toHost => Heard(<<>>)
<1>1. toHost \in Seq(Said) /\ <<>> \in Seq(Said)
  BY EmptySeq DEF LinkTypeOK
<1>2. toHost \o lines \in Seq(Said) /\ toHost \o <<>> = toHost
  BY <1>1, ConcatProperties, ConcatEmptySeq
<1> QED
  BY <1>1, <1>2 DEF Say, Heard

(* What the tool will take first is what it would have taken.               *)
LEMMA HeardFacts ==
  ASSUME LinkTypeOK, NEW lines \in Seq(Said), Heard(lines), Listening
  PROVE  /\ Refused => Refused'
         /\ RefusedNext => RefusedNext'
         /\ lines = <<>> => toHost' = toHost
         /\ toHost = <<>> => toHost' = lines
         /\ lines # <<>> /\ lines[1] # "ACK" => /\ toHost = <<>> => Refused'
                                                /\ toHost = <<"ACK">> => RefusedNext'
<1>1. toHost \in Seq(Said) /\ toHost' = toHost \o lines
  BY DEF LinkTypeOK, Heard
<1>2. PICK m \in Nat : m = Len(toHost)
  BY <1>1
<1>3. PICK n \in Nat : n = Len(lines)
  OBVIOUS
<1>4. /\ Len(toHost') = m + n
      /\ toHost = <<>> => toHost' = lines
      /\ lines = <<>> => toHost' = toHost
      /\ toHost # <<>> => toHost' # <<>> /\ toHost'[1] = toHost[1]
      /\ m > 1 => toHost'[2] = toHost[2]
      /\ m = 1 /\ lines # <<>> => toHost'[2] = lines[1]
  <2> DEFINE all == toHost \o lines
  <2>1. /\ Len(all) = Len(toHost) + Len(lines)
        /\ toHost = <<>> => all = lines
        /\ lines = <<>> => all = toHost
        /\ toHost # <<>> => all # <<>> /\ all[1] = toHost[1]
        /\ Len(toHost) > 1 => all[2] = toHost[2]
        /\ Len(toHost) = 1 /\ lines # <<>> => all[2] = lines[1]
    BY <1>1, Cat
  <2>2. toHost' = all
    BY <1>1
  <2> HIDE DEF all
  <2> QED
    BY <1>2, <1>3, <2>1, <2>2
<1>5. Refused => Refused'
  BY <1>4 DEF Refused
<1>6. RefusedNext => RefusedNext'
  <2>1. m > 1 => toHost # <<>> /\ m + n > 1
    BY <1>1, <1>2, EmptySeq
  <2> QED
    BY <1>2, <1>4, <2>1 DEF RefusedNext
<1>7. toHost = <<"ACK">> /\ lines # <<>> /\ lines[1] # "ACK" => RefusedNext'
  <2> SUFFICES ASSUME toHost = <<"ACK">>, lines # <<>>, lines[1] # "ACK" PROVE RefusedNext'
    OBVIOUS
  <2>1. m = 1 /\ toHost[1] = "ACK" /\ toHost # <<>>
    BY <1>2
  <2>2. n > 0
    BY <1>3, EmptySeq
  <2> QED
    BY <1>4, <2>1, <2>2 DEF RefusedNext
<1>8. toHost = <<>> /\ lines # <<>> /\ lines[1] # "ACK" => Refused'
  BY <1>4 DEF Refused
<1> QED
  BY <1>4, <1>5, <1>6, <1>7, <1>8

(* While a run waits for READY and the board is in no session, no ACK comes *)
(* after a READY.                                                           *)
LEMMA ReadyHeard ==
  ASSUME LinkTypeOK, ReadyInv, NEW lines \in Seq(Said), Heard(lines),
         UNCHANGED <<tool, step>>, toBoard = <<>> => toBoard' = <<>>,
         \/ Outside' /\ NoAck(lines)
         \/ ~Outside /\ \A j \in 1 .. Len(lines) : lines[j] # "READY"
  PROVE  ReadyInv'
<1> SUFFICES ASSUME tool = "Ready"
             PROVE  /\ toBoard' = <<>> /\ step' = "update"
                    /\ \A i \in 1 .. Len(toHost') : toHost'[i] = "READY" =>
                         Outside' /\ \A j \in 1 .. Len(toHost') : j > i => toHost'[j] # "ACK"
  BY DEF ReadyInv
<1>1. /\ toBoard = <<>> /\ step' = "update" /\ toHost \in Seq(Said) /\ toHost' = toHost \o lines
      /\ \A i \in 1 .. Len(toHost) : toHost[i] = "READY" =>
           Outside /\ \A j \in 1 .. Len(toHost) : j > i => toHost[j] # "ACK"
  BY DEF LinkTypeOK, ReadyInv, Heard, Listening
<1>2. PICK m \in Nat : m = Len(toHost)
  BY <1>1
<1>3. PICK n \in Nat : n = Len(lines)
  OBVIOUS
<1>4. /\ Len(toHost') = m + n
      /\ \A i \in 1 .. m + n : toHost'[i] = IF i <= m THEN toHost[i] ELSE lines[i - m]
  BY <1>1, <1>2, <1>3, ConcatProperties
<1>5. CASE Outside' /\ NoAck(lines)
  BY <1>1, <1>2, <1>3, <1>4, <1>5 DEF NoAck
<1>6. CASE ~Outside /\ \A j \in 1 .. Len(lines) : lines[j] # "READY"
  <2>1. \A i \in 1 .. m + n : toHost'[i] # "READY"
    BY <1>1, <1>2, <1>3, <1>4, <1>6
  <2> QED
    BY <1>1, <1>4, <2>1
<1> QED
  BY <1>5, <1>6

----------------------------------------------------------------------------
(* The board outside a session *)

(* A board that is not in a session before the step, nor after it, and does *)
(* not acknowledge anything, keeps the invariant.                           *)
LEMMA QuietStep ==
  ASSUME UploadInv, UNCHANGED tools, flushed' \in BOOLEAN,
         Outside, Outside', UNCHANGED <<slot, tag>>,
         toBoard' \in Seq(Word), Len(toBoard) <= 1 => toBoard' \in {toBoard, <<>>},
         NEW lines \in Seq(Said), NoAck(lines), Heard(lines),
         pc = "Reset" => pc' = "Reset" \/ lines # <<>>
  PROVE  TalkInv'
<1>1. /\ LinkTypeOK /\ SentInv /\ ReadyInv /\ SendInv /\ AwaitInv /\ DoneInv /\ FirstInv
      /\ UNCHANGED <<tool, step, file, sent, runs>>
  BY DEF UploadInv, TalkInv, tools
<1>2. toBoard = <<>> => toBoard' = <<>>
  BY EmptySeq
<1>3. LinkTypeOK' /\ SentInv'
  BY <1>1 DEF LinkTypeOK, SentInv, Heard
<1>4. ReadyInv'
  BY <1>1, <1>2, ReadyHeard
<1>5. ~Before \/ step = "update"
  <2>1. step \in {"chunk", "crc"} => sent <= Len(file) /\ sent \in Nat /\ Len(file) \in Nat
    BY <1>1, FileFacts DEF SentInv, LinkTypeOK
  <2> QED
    BY <1>1, <2>1 DEF Before, Holds, Outside, InSession, Reading, LinkTypeOK
<1>6. ~After \/ step = "crc"
  <2>1. step = "chunk" => SentNext <= Len(file) /\ SentNext \in Nat /\ Len(file) \in Nat
    BY <1>1, FileFacts, NextFacts DEF SentInv, LinkTypeOK
  <2>2. Len(file) \in Nat /\ Len(file) > 0
    BY <1>1, FileFacts
  <2> QED
    BY <1>1, <2>1, <2>2 DEF After, Holds, Outside, InSession, Reading, LinkTypeOK
<1>7. ~Working \/ step = "update"
  BY <1>1 DEF Working, Outside, InSession, Reading, LinkTypeOK
<1>8. lines # <<>> => lines[1] # "ACK"
  <2>1. lines # <<>> => Len(lines) \in Nat \ {0}
    BY EmptySeq
  <2> QED
    BY <2>1 DEF NoAck
<1>9. SendInv'
  <2> SUFFICES ASSUME tool = "Send" PROVE SendInv'
    BY <1>1 DEF SendInv
  <2>1. Listening
    BY DEF Listening
  <2>2. CASE step = "update" /\ toBoard = <<>> /\ Outside /\ NoAck(toHost)
    <3>1. toHost' = toHost \o lines /\ toHost \in Seq(Said)
      BY <1>1, <2>1 DEF Heard, LinkTypeOK
    <3>2. PICK m \in Nat : m = Len(toHost)
      BY <3>1
    <3>3. PICK n \in Nat : n = Len(lines)
      OBVIOUS
    <3>4. /\ Len(toHost') = m + n
          /\ \A i \in 1 .. m + n : toHost'[i] = IF i <= m THEN toHost[i] ELSE lines[i - m]
      BY <3>1, <3>2, <3>3, ConcatProperties
    <3>5. NoAck(toHost')
      BY <2>2, <3>2, <3>3, <3>4 DEF NoAck
    <3> QED
      BY <1>1, <1>2, <2>2, <3>5 DEF SendInv
  <2>3. CASE step # "update" /\ Refused
    BY <1>1, <2>1, <2>3, HeardFacts DEF SendInv
  <2>4. CASE step # "update" /\ toHost = <<>> /\ toBoard = <<>> /\ (Before \/ pc = "Reset")
    BY <1>1, <1>2, <1>5, <1>8, <2>1, <2>4, HeardFacts DEF SendInv
  <2> QED
    BY <1>1, <2>2, <2>3, <2>4 DEF SendInv
<1>10. AwaitInv'
  <2> SUFFICES ASSUME tool = "Await" PROVE AwaitInv'
    BY <1>1 DEF AwaitInv
  <2>1. Listening
    BY DEF Listening
  <2>2. CASE Refused
    BY <1>1, <2>1, <2>2, HeardFacts DEF AwaitInv
  <2>3. CASE toHost = <<>> /\ step = "update" /\ (toBoard = Request \/ toBoard = <<>>)
    <3>1. toBoard = <<CMD_UPDATE>> \/ toBoard = <<>>
      BY <2>3 DEF Request
    <3>2. Len(toBoard) <= 1
      <4>1. Len(<<CMD_UPDATE>>) = 1 /\ Len(<<>>) = 0
        BY EmptySeq
      <4>2. Len(toBoard) = 1 \/ Len(toBoard) = 0
        BY <3>1, <4>1, Zenon
      <4> QED
        BY <4>2
    <3>3. Request' = <<CMD_UPDATE>>
      BY <1>1, <2>3 DEF Request
    <3>4. toBoard' = Request' \/ toBoard' = <<>>
      BY <3>1, <3>2, <3>3
    <3>5. Before' /\ Working'
      BY <1>1, <2>3 DEF Before, Working
    <3>6. CASE lines = <<>>
      BY <1>1, <2>1, <2>3, <3>4, <3>5, <3>6, HeardFacts DEF AwaitInv
    <3>7. CASE lines # <<>>
      BY <1>1, <1>8, <2>1, <2>3, <3>7, HeardFacts DEF AwaitInv
    <3> QED
      BY <3>6, <3>7
  <2>4. CASE toHost = <<>> /\ pc = "Reset"
    BY <1>1, <1>8, <2>1, <2>4, HeardFacts DEF AwaitInv
  <2>5. CASE toHost = <<"ACK">> /\ toBoard = <<>> /\ step # "crc" /\ (After \/ pc = "Reset")
    BY <1>1, <1>2, <1>6, <1>8, <2>1, <2>5, HeardFacts DEF AwaitInv
  <2>6. CASE RefusedNext /\ step # "crc"
    BY <1>1, <2>1, <2>6, HeardFacts DEF AwaitInv
  <2>7. CASE toBoard = <<>> /\ step = "crc" /\ After
    BY <1>1, <1>2, <2>7 DEF AwaitInv, After, Sealed
  <2> QED
    BY <1>1, <1>5, <1>7, <2>2, <2>3, <2>4, <2>5, <2>6, <2>7 DEF AwaitInv
<1>11. DoneInv'
  BY <1>1, <1>2 DEF DoneInv, Sealed
<1>12. FirstInv'
  <2>1. toBoard = <<CMD_UPDATE>> => Len(toBoard) <= 1
    OBVIOUS
  <2> QED
    BY <1>1, <1>2, <2>1 DEF FirstInv
<1> QED
  BY <1>3, <1>4, <1>9, <1>10, <1>11, <1>12 DEF TalkInv

(* The lines of a board that starts, waits or has checked its slot.         *)
LEMMA QuietLines ==
  /\ <<>> \in Seq(Said) /\ NoAck(<<>>)
  /\ <<"READY">> \in Seq(Said) /\ NoAck(<<"READY">>) /\ <<"READY">> # <<>>
  /\ <<"line">> \in Seq(Said) /\ NoAck(<<"line">>)
  /\ <<"line", "READY">> \in Seq(Said) /\ NoAck(<<"line", "READY">>)
  BY DEF Said, NoAck

(* main's way to its loop, the wait and the check of the slot.              *)
LEMMA WaitingSteps ==
  ASSUME UploadInv,
         \/ BoardBoot \/ FlushRx \/ RepeatReady \/ BoardButton \/ BoardExpires
         \/ BoardVerify \/ BoardDeaf \/ (BoardRequest /\ UNCHANGED board)
  PROVE  TalkInv'
<1>1. LinkTypeOK /\ toBoard \in Seq(Word) /\ flushed \in BOOLEAN /\ <<>> \in Seq(Word)
  BY EmptySeq DEF UploadInv, TalkInv, LinkTypeOK
<1>2. CASE BoardBoot
  <2>1. /\ UNCHANGED tools /\ flushed' \in BOOLEAN /\ UNCHANGED toBoard /\ Say(<<"READY">>)
        /\ UNCHANGED <<slot, tag>> /\ pc = "Reset" /\ pc' = "Wait"
    BY <1>2 DEF BoardBoot, EnterWait, Boot, flash
  <2>2. Heard(<<"READY">>) /\ Outside /\ Outside'
    BY <1>1, <2>1, QuietLines, SayIsHeard DEF Outside, InSession, Reading
  <2> QED
    BY <1>1, <2>1, <2>2, QuietLines, QuietStep
<1>3. CASE FlushRx
  <2>1. /\ UNCHANGED tools /\ flushed' \in BOOLEAN /\ toBoard' \in Suffixes(toBoard)
        /\ UNCHANGED <<slot, tag, pc, toHost>> /\ pc = "Wait"
    BY <1>3 DEF FlushRx, board, vars
  <2>2. Heard(<<>>) /\ Outside /\ Outside'
    BY <1>1, <2>1, QuietLines, SayIsHeard DEF Outside, InSession, Reading
  <2>3. toBoard' \in Seq(Word) /\ (Len(toBoard) <= 1 => toBoard' \in {toBoard, <<>>})
    BY <1>1, <2>1, SuffixFacts
  <2> QED
    BY <2>1, <2>2, <2>3, QuietLines, QuietStep
<1>4. CASE RepeatReady
  <2>1. /\ UNCHANGED tools /\ UNCHANGED flushed /\ UNCHANGED toBoard /\ Say(<<"READY">>)
        /\ UNCHANGED <<slot, tag, pc>> /\ pc = "Wait"
    BY <1>4 DEF RepeatReady, board, vars
  <2>2. Heard(<<"READY">>) /\ Outside /\ Outside'
    BY <1>1, <2>1, QuietLines, SayIsHeard DEF Outside, InSession, Reading
  <2> QED
    BY <1>1, <2>1, <2>2, QuietLines, QuietStep
<1>5. CASE BoardButton
  <2>1. /\ UNCHANGED tools /\ flushed' \in BOOLEAN /\ UNCHANGED toBoard
        /\ Say(<<"line", "READY">>) /\ UNCHANGED <<slot, tag, pc>> /\ pc = "Wait"
    BY <1>5 DEF BoardButton, EnterWait, ButtonPressed, flash
  <2>2. Heard(<<"line", "READY">>) /\ Outside /\ Outside'
    BY <1>1, <2>1, QuietLines, SayIsHeard DEF Outside, InSession, Reading
  <2> QED
    BY <1>1, <2>1, <2>2, QuietLines, QuietStep
<1>6. CASE BoardExpires
  <2>1. /\ UNCHANGED tools /\ UNCHANGED <<flushed, toBoard, toHost>>
        /\ UNCHANGED <<slot, tag>> /\ pc = "Wait" /\ pc' = "Verify"
    BY <1>6 DEF BoardExpires, WindowExpires, flash
  <2>2. Heard(<<>>) /\ Outside /\ Outside'
    BY <1>1, <2>1, QuietLines, SayIsHeard DEF Outside, InSession, Reading
  <2> QED
    BY <1>1, <2>1, <2>2, QuietLines, QuietStep
<1>7. CASE BoardVerify
  <2>1. /\ UNCHANGED tools /\ flushed' \in BOOLEAN /\ UNCHANGED toBoard
        /\ Say(<<"line">>) \/ Say(<<"line", "READY">>)
        /\ UNCHANGED <<slot, tag>> /\ pc = "Verify" /\ pc' \in {"Wait", "App"}
    BY <1>7 DEF BoardVerify, EnterWait, Verify, flash
  <2>2. Outside /\ Outside'
    BY <2>1 DEF Outside, InSession, Reading
  <2>3. CASE Say(<<"line">>)
    <3>1. Heard(<<"line">>)
      BY <1>1, <2>3, QuietLines, SayIsHeard
    <3> QED
      BY <1>1, <2>1, <2>2, <3>1, QuietLines, QuietStep
  <2>4. CASE Say(<<"line", "READY">>)
    <3>1. Heard(<<"line", "READY">>)
      BY <1>1, <2>4, QuietLines, SayIsHeard
    <3> QED
      BY <1>1, <2>1, <2>2, <3>1, QuietLines, QuietStep
  <2> QED
    BY <2>1, <2>3, <2>4
<1>8. CASE BoardDeaf
  <2>1. /\ UNCHANGED tools /\ UNCHANGED flushed /\ toBoard' = <<>>
        /\ UNCHANGED <<slot, tag, pc, toHost>> /\ pc \in {"App", "Reset"}
    BY <1>8 DEF BoardDeaf, board, vars
  <2>2. Heard(<<>>) /\ Outside /\ Outside'
    BY <1>1, <2>1, QuietLines, SayIsHeard DEF Outside, InSession, Reading
  <2> QED
    BY <1>1, <2>1, <2>2, QuietLines, QuietStep
<1>9. CASE BoardRequest /\ UNCHANGED board
  <2>1. /\ UNCHANGED tools /\ UNCHANGED flushed /\ toBoard' = Tail(toBoard) /\ toBoard # <<>>
        /\ UNCHANGED <<slot, tag, pc, toHost>> /\ pc = "Wait"
    <3>1. UNCHANGED <<slot, tag, pc>> /\ pc = "Wait"
      BY <1>9 DEF BoardRequest, board, vars
    <3>2. ~UpdateRequested
      BY <3>1 DEF UpdateRequested
    <3> QED
      BY <1>9, <3>1, <3>2 DEF BoardRequest
  <2>2. Heard(<<>>) /\ Outside /\ Outside'
    BY <1>1, <2>1, QuietLines, SayIsHeard DEF Outside, InSession, Reading
  <2>3. toBoard' \in Seq(Word) /\ Len(toBoard') = Len(toBoard) - 1
    BY <1>1, <2>1, HeadTailProperties
  <2>4. Len(toBoard) <= 1 => toBoard' \in {toBoard, <<>>}
    <3> SUFFICES ASSUME Len(toBoard) <= 1, toBoard' # <<>> PROVE FALSE
      OBVIOUS
    <3>1. PICK k \in Nat \ {0} : k = Len(toBoard')
      BY <2>3, EmptySeq
    <3>2. PICK n \in Nat : n = Len(toBoard)
      BY <1>1
    <3>3. k = n - 1 /\ n <= 1
      BY <2>3, <3>1, <3>2
    <3> QED
      BY <3>3
  <2>5. toBoard' \in Seq(Word) /\ (pc = "Reset" => pc' = "Reset") /\ flushed' \in BOOLEAN
    BY <1>1, <2>1, <2>3
  <2> QED
    BY <2>1, <2>2, <2>4, <2>5, QuietLines, QuietStep
<1> QED
  BY <1>2, <1>3, <1>4, <1>5, <1>6, <1>7, <1>8, <1>9

(* A reset: the board is silent until it says READY.                        *)
LEMMA ResetStep == ASSUME UploadInv, BoardReset PROVE TalkInv'
<1>1. /\ LinkTypeOK /\ SentInv /\ ReadyInv /\ SendInv /\ AwaitInv /\ DoneInv /\ FirstInv
      /\ UNCHANGED <<tool, step, file, sent, runs, toHost, flushed>>
      /\ toBoard' = <<>> /\ pc' = "Reset" /\ <<>> \in Seq(Word)
      /\ Outside => UNCHANGED <<slot, tag>>
  BY EmptySeq
  DEF UploadInv, TalkInv, BoardReset, Reset, tools, flash, Outside, InSession, Reading
<1>2. Outside'
  BY <1>1 DEF Outside, InSession, Reading
<1>3. LinkTypeOK' /\ SentInv'
  BY <1>1 DEF LinkTypeOK, SentInv
<1>4. ReadyInv'
  BY <1>1, <1>2 DEF ReadyInv
<1>5. SendInv'
  BY <1>1, <1>2 DEF SendInv, Refused, NoAck
<1>6. AwaitInv'
  <2> SUFFICES ASSUME tool = "Await" PROVE AwaitInv'
    BY <1>1 DEF AwaitInv
  <2>1. CASE toHost = <<>> \/ Refused \/ (RefusedNext /\ step # "crc")
    BY <1>1, <2>1 DEF AwaitInv, Refused, RefusedNext
  <2>2. CASE toHost = <<"ACK">> /\ step # "crc"
    BY <1>1, <2>2 DEF AwaitInv
  <2>3. CASE step = "crc" /\ After
    <3>1. After'
      BY <1>1, <1>2, <2>3 DEF After, Sealed
    <3> QED
      BY <1>1, <2>3, <3>1 DEF AwaitInv
  <2> QED
    BY <1>1, <2>1, <2>2, <2>3 DEF AwaitInv
<1>7. DoneInv'
  BY <1>1, <1>2 DEF DoneInv, Sealed
<1>8. FirstInv'
  BY <1>1, <1>2 DEF FirstInv
<1> QED
  BY <1>3, <1>4, <1>5, <1>6, <1>7, <1>8 DEF TalkInv

----------------------------------------------------------------------------
(* The board in a session *)

(* A step in a session keeps the invariant if it does so for a run of the   *)
(* tool that is not refused yet, and tells no such run READY.               *)
LEMMA SessionStep ==
  ASSUME UploadInv, UNCHANGED tools, UNCHANGED flushed, ~Outside,
         toBoard' \in Seq(Word), toBoard = <<>> => toBoard' = <<>>,
         NEW lines \in Seq(Said), Heard(lines),
         \A j \in 1 .. Len(lines) : lines[j] # "READY",
         pc = "Size" /\ toBoard = <<>> => Outside',
         tool = "Send" /\ ~Refused => SendInv',
         tool = "Await" /\ ~Refused /\ ~(RefusedNext /\ step # "crc") => AwaitInv'
  PROVE  TalkInv'
<1>1. /\ LinkTypeOK /\ SentInv /\ ReadyInv /\ SendInv /\ AwaitInv /\ DoneInv /\ FirstInv
      /\ UNCHANGED <<tool, step, file, sent, runs>>
  BY DEF UploadInv, TalkInv, tools
<1>2. LinkTypeOK' /\ SentInv'
  BY <1>1 DEF LinkTypeOK, SentInv, Heard
<1>3. ReadyInv'
  BY <1>1, ReadyHeard
<1>4. SendInv'
  <2>1. tool = "Send" /\ Refused => step # "update" /\ Refused'
    BY <1>1, HeardFacts DEF SendInv, Listening
  <2> QED
    BY <1>1, <2>1 DEF SendInv
<1>5. AwaitInv'
  <2>1. tool = "Await" => (Refused => Refused') /\ (RefusedNext => RefusedNext')
    BY <1>1, HeardFacts DEF Listening
  <2> QED
    BY <1>1, <2>1 DEF AwaitInv
<1>6. DoneInv'
  BY <1>1 DEF DoneInv, Sealed
<1>7. FirstInv'
  BY <1>1 DEF FirstInv
<1> QED
  BY <1>2, <1>3, <1>4, <1>5, <1>6, <1>7 DEF TalkInv

(* What a tool that is not refused yet has done when the board works.       *)
LEMMA WorkingFacts ==
  ASSUME UploadInv, pc \in {"Erase", "Program", "Seal"}
  PROVE  /\ ~Outside
         /\ tool = "Send" => Refused
         /\ tool = "Await" /\ ~Refused /\ ~(RefusedNext /\ step # "crc") =>
              toHost = <<>> /\ toBoard = <<>> /\ Working /\ step # "update"
<1>1. LinkTypeOK /\ SentInv /\ SendInv /\ AwaitInv
  BY DEF UploadInv, TalkInv
<1>2. ~Outside
  BY DEF Outside, InSession
<1>3. ~Before
  <2>1. step \in {"chunk", "crc"} => sent <= Len(file) /\ sent \in Nat /\ Len(file) \in Nat
    BY <1>1, FileFacts DEF SentInv, LinkTypeOK
  <2> QED
    BY <1>1, <1>2, <2>1 DEF Before, Holds, LinkTypeOK
<1>4. ~After
  <2>1. step = "chunk" => SentNext <= Len(file) /\ SentNext \in Nat /\ Len(file) \in Nat
    BY <1>1, FileFacts, NextFacts DEF SentInv, LinkTypeOK
  <2>2. Len(file) \in Nat /\ Len(file) > 0
    BY <1>1, FileFacts
  <2> QED
    BY <1>1, <1>2, <2>1, <2>2 DEF After, Holds, Sealed, LinkTypeOK
<1>5. Working => step # "update"
  BY <1>2 DEF Working
<1> QED
  BY <1>1, <1>2, <1>3, <1>4, <1>5 DEF SendInv, AwaitInv

(* What it has done when a field has come that the board reads.             *)
LEMMA ReadingFacts ==
  ASSUME UploadInv, pc \in Reading, toBoard # <<>>
  PROVE  /\ ~Outside
         /\ tool = "Send" => Refused
         /\ tool = "Await" /\ ~Refused /\ ~(RefusedNext /\ step # "crc") =>
              /\ toHost = <<>> /\ toBoard = Request
              /\ pc = "Size"  => step = "size"
              /\ pc = "Chunk" => step = "chunk" /\ Holds(sent)
              /\ pc = "Crc"   => step = "crc" /\ Holds(Len(file))
<1>1. LinkTypeOK /\ SentInv /\ SendInv /\ AwaitInv
  BY DEF UploadInv, TalkInv
<1>2. ~Outside /\ pc # "Reset"
  BY DEF Outside, InSession, Reading
<1>3. /\ step = "chunk" => sent < Len(file)
      /\ step = "crc" => sent = Len(file)
      /\ sent \in Nat /\ Len(file) \in Nat
  BY <1>1, FileFacts DEF SentInv, LinkTypeOK
<1>4. Before => /\ pc = "Size"  => step = "size"
                /\ pc = "Chunk" => step = "chunk" /\ Holds(sent)
                /\ pc = "Crc"   => step = "crc" /\ Holds(Len(file))
  BY <1>1, <1>2, <1>3 DEF Before, Holds, LinkTypeOK
<1> QED
  BY <1>1, <1>2, <1>4 DEF SendInv, AwaitInv

(* The words a session may say.                                             *)
LEMMA SessionLines ==
  /\ <<>> \in Seq(Said) /\ \A j \in 1 .. Len(<<>>) : <<>>[j] # "READY"
  /\ <<"ACK">> \in Seq(Said) /\ \A j \in 1 .. Len(<<"ACK">>) : <<"ACK">>[j] # "READY"
  /\ /\ <<"ACK", "line">> \in Seq(Said)
     /\ \A j \in 1 .. Len(<<"ACK", "line">>) : <<"ACK", "line">>[j] # "READY"
  /\ /\ <<"NACK", "line">> \in Seq(Said) /\ <<"NACK", "line">> # <<>>
     /\ <<"NACK", "line">>[1] # "ACK"
     /\ \A j \in 1 .. Len(<<"NACK", "line">>) : <<"NACK", "line">>[j] # "READY"
<1>1. Len(<<>>) = 0
  BY EmptySeq
<1> QED
  BY <1>1 DEF Said

(* A session that fails, at whatever step, refuses the run.                 *)
LEMMA RefusalStep ==
  ASSUME UploadInv, UNCHANGED tools, UNCHANGED flushed, ~Outside, Outside',
         toBoard' \in Seq(Word), toBoard = <<>> => toBoard' = <<>>,
         Heard(<<"NACK", "line">>)
  PROVE  TalkInv'
<1>1. /\ LinkTypeOK /\ SentInv /\ SendInv /\ AwaitInv
      /\ UNCHANGED <<tool, step, file, sent, runs>>
  BY DEF UploadInv, TalkInv, tools
<1>2. Listening => /\ toHost = <<>> => Refused'
                   /\ toHost = <<"ACK">> => RefusedNext'
  BY <1>1, SessionLines, HeardFacts
<1>3. tool = "Send" /\ ~Refused => SendInv'
  BY <1>1, <1>2 DEF SendInv, Listening
<1>4. tool = "Await" /\ ~Refused /\ ~(RefusedNext /\ step # "crc") => AwaitInv'
  <2>1. ~(step = "crc" /\ After)
    BY DEF After, Sealed
  <2> QED
    BY <1>1, <1>2, <2>1 DEF AwaitInv, Listening
<1> QED
  BY <1>3, <1>4, SessionLines, SessionStep

(* What the board says at the end of a step: it acknowledges a size, a      *)
(* chunk and a sealed slot, and says why a session ended.                   *)
LEMMA AnswerFacts ==
  /\ pc' = "Verify" /\ result' # "OK" => Answer = <<"NACK", "line">>
  /\ pc' = "Verify" /\ result' = "OK" => Answer = <<"ACK", "line">>
  /\ pc' \in {"Chunk", "Crc"} /\ pc \in {"Erase", "Program"} => Answer = <<"ACK">>
  /\ pc' \in {"Erase", "Program", "Seal"} => Answer = <<>>
  BY DEF Answer

(* A session that aborts or is rejected says NACK.                          *)
LEMMA FailureStep ==
  ASSUME UploadInv, UNCHANGED tools, UNCHANGED flushed, ~Outside,
         toBoard' \in Seq(Word), toBoard = <<>> => toBoard' = <<>>, Say(Answer),
         NEW st \in Failures, Abort(st) \/ Reject(st)
  PROVE  TalkInv'
<1>1. pc' = "Verify" /\ result' = st /\ st # "OK"
  BY DEF Abort, Reject, Return, Failures
<1>2. Outside' /\ Answer = <<"NACK", "line">>
  BY <1>1, AnswerFacts DEF Outside, InSession, Reading
<1>3. Heard(<<"NACK", "line">>)
  BY <1>2, SessionLines, SayIsHeard DEF UploadInv, TalkInv
<1> QED
  BY <1>2, <1>3, RefusalStep

(* One sector less to erase; after the last the board acknowledges the size. *)
LEMMA EraseStep == ASSUME UploadInv, BoardWork, EraseNext PROVE TalkInv'
<1>1. /\ UNCHANGED tools /\ UNCHANGED <<flushed, toBoard>> /\ Say(Answer) /\ pc = "Erase"
      /\ LinkTypeOK /\ toBoard \in Seq(Word) /\ toHost \in Seq(Said)
      /\ UNCHANGED <<tool, step, file, sent, runs>> /\ ~Outside /\ EraseInv
  BY DEF UploadInv, TalkInv, LinkTypeOK, BoardWork, EraseNext, tools, Outside, InSession, IInv
<1>2. CASE Abort("FLASH")
  BY <1>1, <1>2, FailureStep DEF Failures
<1>3. CASE ~Abort("FLASH")
  <2>1. /\ pc' = IF sector = TagSector THEN "Chunk" ELSE "Erase"
        /\ UNCHANGED <<size, received, addr, image>>
    BY <1>3 DEF EraseNext
  <2>2. tool = "Send" => Refused
    BY <1>1, WorkingFacts
  <2>3. tool = "Await" /\ ~Refused /\ ~(RefusedNext /\ step # "crc") =>
          toHost = <<>> /\ toBoard = <<>> /\ step = "size" /\ size = Len(file)
    BY <1>1, WorkingFacts DEF Working, LinkTypeOK
  <2>4. CASE pc' = "Erase"
    <3>1. Heard(<<>>)
      BY <1>1, <2>4, AnswerFacts, SessionLines, SayIsHeard
    <3>2. step = "size" /\ size = Len(file) => Working'
      BY <1>1, <2>1, <2>4 DEF Working
    <3>3. tool = "Await" => toHost' = toHost
      BY <1>1, <3>1, SessionLines, HeardFacts DEF Listening
    <3>4. tool = "Await" /\ ~Refused /\ ~(RefusedNext /\ step # "crc") => AwaitInv'
      BY <1>1, <2>3, <3>2, <3>3 DEF AwaitInv
    <3> QED
      BY <1>1, <2>2, <3>1, <3>4, SessionLines, SessionStep
  <2>5. CASE pc' = "Chunk"
    <3>1. Heard(<<"ACK">>)
      BY <1>1, <2>5, AnswerFacts, SessionLines, SayIsHeard
    <3>2. step = "size" /\ size = Len(file) => After'
      <4>1. received' = 0 /\ addr' = 0 /\ image' = ErasedSlot /\ size' = size
        BY <1>1, <2>1 DEF EraseInv
      <4>2. Delivered(0) = ErasedSlot /\ Len(file) \in Nat /\ Len(file) > 0
        BY <1>1, FileFacts
      <4>3. Delivered(0)' = Delivered(0)
        BY <1>1 DEF Delivered
      <4> QED
        BY <1>1, <2>5, <4>1, <4>2, <4>3 DEF After, Holds
    <3>3. tool = "Await" /\ toHost = <<>> => toHost' = <<"ACK">>
      BY <1>1, <3>1, SessionLines, HeardFacts DEF Listening
    <3>4. tool = "Await" /\ ~Refused /\ ~(RefusedNext /\ step # "crc") => AwaitInv'
      BY <1>1, <2>3, <3>2, <3>3 DEF AwaitInv
    <3> QED
      BY <1>1, <2>2, <3>1, <3>4, SessionLines, SessionStep
  <2> QED
    BY <2>1, <2>4, <2>5
<1> QED
  BY <1>2, <1>3

(* One word less to program; after the last the board acknowledges the      *)
(* chunk.                                                                   *)
LEMMA ProgramStep == ASSUME UploadInv, BoardWork, ProgramNext PROVE TalkInv'
<1>1. /\ UNCHANGED tools /\ UNCHANGED <<flushed, toBoard>> /\ Say(Answer) /\ pc = "Program"
      /\ LinkTypeOK /\ toBoard \in Seq(Word) /\ toHost \in Seq(Said) /\ SentInv
      /\ UNCHANGED <<tool, step, file, sent, runs>> /\ ~Outside /\ TypeOK /\ LoopInv
  BY DEF UploadInv, TalkInv, LinkTypeOK, BoardWork, ProgramNext, tools, Outside, InSession, IInv
<1>2. CASE Abort("FLASH")
  BY <1>1, <1>2, FailureStep DEF Failures
<1>3. CASE ~Abort("FLASH")
  <2>1. /\ addr' = addr + 1 /\ chunk' = Tail(chunk)
        /\ IF Len(chunk) > 1
             THEN UNCHANGED <<received, pc>>
             ELSE /\ received' = received + ChunkLen
                  /\ pc' = IF received' < size THEN "Chunk" ELSE "Crc"
        /\ UNCHANGED <<size, image>>
    BY <1>3 DEF ProgramNext
  <2>2. tool = "Send" => Refused
    BY <1>1, WorkingFacts
  <2>3. tool = "Await" /\ ~Refused /\ ~(RefusedNext /\ step # "crc") =>
          /\ toHost = <<>> /\ toBoard = <<>> /\ step = "chunk"
          /\ size = Len(file) /\ received = sent
          /\ addr + Len(chunk) = SentNext /\ image = Delivered(SentNext)
    BY <1>1, WorkingFacts DEF Working, LinkTypeOK
  <2>4. SentNext' = SentNext /\ Delivered(SentNext)' = Delivered(SentNext)
    BY <1>1 DEF SentNext, NextChunk, Delivered
  <2>5. PICK n \in Nat \ {0} : n = Len(chunk) /\ Len(Tail(chunk)) = n - 1
    <3>1. chunk \in Seq(Word) /\ chunk # <<>>
      BY <1>1 DEF TypeOK, LoopInv
    <3> QED
      BY <3>1, EmptySeq, HeadTailProperties
  <2>6. addr \in Nat /\ received \in Nat /\ size \in Nat
    BY <1>1 DEF TypeOK
  <2>7. CASE n > 1
    <3>1. pc' = "Program" /\ received' = received
      BY <1>1, <2>1, <2>5, <2>7
    <3>2. Heard(<<>>)
      BY <1>1, <3>1, AnswerFacts, SessionLines, SayIsHeard
    <3>3. addr' + Len(chunk') = addr + n
      BY <2>1, <2>5, <2>6
    <3>4. tool = "Await" => toHost' = toHost
      BY <1>1, <3>2, SessionLines, HeardFacts DEF Listening
    <3>5. tool = "Await" /\ ~Refused /\ ~(RefusedNext /\ step # "crc") => Working'
      BY <1>1, <2>1, <2>3, <2>4, <2>5, <3>1, <3>3 DEF Working
    <3>6. tool = "Await" /\ ~Refused /\ ~(RefusedNext /\ step # "crc") => AwaitInv'
      BY <1>1, <2>3, <3>4, <3>5 DEF AwaitInv
    <3> QED
      BY <1>1, <2>2, <3>2, <3>6, SessionLines, SessionStep
  <2>8. CASE n = 1
    <3>1. received' = received + ChunkLen /\ pc' = IF received' < size THEN "Chunk" ELSE "Crc"
      BY <2>1, <2>5, <2>8
    <3>2. Heard(<<"ACK">>)
      BY <1>1, <3>1, AnswerFacts, SessionLines, SayIsHeard
    <3>3. tool = "Await" /\ toHost = <<>> => toHost' = <<"ACK">>
      BY <1>1, <3>2, SessionLines, HeardFacts DEF Listening
    <3>4. tool = "Await" /\ ~Refused /\ ~(RefusedNext /\ step # "crc") => After'
      <4> SUFFICES ASSUME tool = "Await" /\ ~Refused /\ ~(RefusedNext /\ step # "crc")
                   PROVE  Holds(SentNext)'
        BY <1>1, <2>3 DEF After
      <4>1. sent < Len(file) /\ sent \in Nat
        BY <1>1, <2>3 DEF SentInv, LinkTypeOK
      <4>2. /\ Len(NextChunk) = IF Len(file) - sent > ChunkWords THEN ChunkWords ELSE Len(file) - sent
            /\ SentNext \in Nat /\ SentNext <= Len(file) /\ SentNext = sent + Len(NextChunk)
        BY <1>1, <4>1, NextFacts DEF SentNext
      <4>3. ChunkLen = Len(NextChunk)
        BY <2>3, <4>2, OneByte DEF ChunkLen
      <4>4. received' = SentNext /\ addr' = SentNext /\ size' = Len(file)
        BY <2>1, <2>3, <2>5, <2>8, <3>1, <4>2, <4>3
      <4>5. image' = Delivered(SentNext)' /\ UNCHANGED file
        BY <1>1, <2>1, <2>3, <2>4
      <4>6. PICK k \in Nat : k = Len(file)
        BY <1>1, FileFacts
      <4>7. (SentNext < k => pc' = "Chunk") /\ (SentNext = k => pc' = "Crc")
        BY <2>1, <2>3, <3>1, <4>2, <4>4, <4>6
      <4> QED
        BY <2>4, <4>4, <4>5, <4>6, <4>7 DEF Holds
    <3>5. tool = "Await" /\ ~Refused /\ ~(RefusedNext /\ step # "crc") => AwaitInv'
      BY <1>1, <2>3, <3>3, <3>4 DEF AwaitInv
    <3> QED
      BY <1>1, <2>2, <3>2, <3>5, SessionLines, SessionStep
  <2> QED
    BY <2>5, <2>7, <2>8
<1> QED
  BY <1>2, <1>3

(* The seal: the board acknowledges what it has programmed and read back.   *)
LEMMA SealStep == ASSUME UploadInv, IInv', BoardWork, Seal PROVE TalkInv'
<1>1. /\ UNCHANGED tools /\ UNCHANGED <<flushed, toBoard>> /\ Say(Answer) /\ pc = "Seal"
      /\ LinkTypeOK /\ toBoard \in Seq(Word) /\ toHost \in Seq(Said)
      /\ UNCHANGED <<tool, step, file, sent, runs>> /\ ~Outside
  BY DEF UploadInv, TalkInv, LinkTypeOK, BoardWork, Seal, tools, Outside, InSession
<1>2. CASE Abort("FLASH")
  BY <1>1, <1>2, FailureStep DEF Failures
<1>3. CASE ~Abort("FLASH")
  <2>1. pc' = "Verify" /\ result' = "OK" /\ UNCHANGED image
    BY <1>3 DEF Seal, Return
  <2>2. slot' = image /\ tag' = Crc(image)
    BY <2>1 DEF IInv, AcceptedIsDelivered
  <2>3. tool = "Send" => Refused
    BY <1>1, WorkingFacts
  <2>4. tool = "Await" /\ ~Refused /\ ~(RefusedNext /\ step # "crc") =>
          toBoard = <<>> /\ step = "crc" /\ image = PaddedFile(file)
    BY <1>1, WorkingFacts DEF Working, LinkTypeOK
  <2>5. image = PaddedFile(file) /\ step = "crc" => After'
    <3>1. Outside'
      BY <2>1 DEF Outside, InSession, Reading
    <3>2. PaddedFile(file)' = PaddedFile(file) /\ Crc(PaddedFile(file))' = Crc(PaddedFile(file))
      BY <1>1 DEF PaddedFile
    <3> QED
      BY <1>1, <2>2, <3>1, <3>2 DEF After, Sealed
  <2>6. Heard(<<"ACK", "line">>)
    BY <1>1, <2>1, AnswerFacts, SessionLines, SayIsHeard
  <2>7. tool = "Await" /\ ~Refused /\ ~(RefusedNext /\ step # "crc") => AwaitInv'
    BY <1>1, <2>4, <2>5 DEF AwaitInv
  <2> QED
    BY <1>1, <2>3, <2>6, <2>7, SessionLines, SessionStep
<1> QED
  BY <1>2, <1>3

(* A byte the board waits for does not come in time.                        *)
LEMMA TimeoutStep == ASSUME UploadInv, BoardTimeout PROVE TalkInv'
<1>1. /\ UNCHANGED tools /\ UNCHANGED flushed /\ toBoard' = <<>> /\ Say(Answer)
      /\ pc \in Reading /\ ReadTimeout
  BY DEF BoardTimeout
<1>2. ~Outside /\ toBoard' \in Seq(Word)
  BY <1>1, EmptySeq DEF Outside, InSession
<1>3. PICK st \in Failures : Abort(st) \/ Reject(st)
  BY <1>1 DEF ReadTimeout, Failures
<1> QED
  BY <1>1, <1>2, <1>3, FailureStep

(* What is left on the link when a field was read.                          *)
LEMMA LeftOver ==
  ASSUME NEW s \in Seq(Word), NEW n \in Nat, n <= Len(s)
  PROVE  /\ SubSeq(s, n + 1, Len(s)) \in Seq(Word)
         /\ n = Len(s) => SubSeq(s, n + 1, Len(s)) = <<>>
<1>1. PICK m \in Nat : m = Len(s)
  OBVIOUS
<1>2. \A i \in n + 1 .. m : s[i] \in Word
  BY <1>1, ElementOfSeq
<1>3. SubSeq(s, n + 1, m) \in Seq(Word)
  BY <1>2, SubSeqProperties
<1>4. n = m => SubSeq(s, n + 1, m) = <<>>
  BY SubSeqEmpty
<1> QED
  BY <1>1, <1>3, <1>4

(* The size: the board unlocks the flash and begins to erase.               *)
LEMMA SizeStep == ASSUME UploadInv, BoardReceive, pc = "Size" PROVE TalkInv'
<1>1. /\ UNCHANGED tools /\ UNCHANGED flushed /\ Say(Answer)
      /\ LinkTypeOK /\ toBoard \in Seq(Word) /\ toHost \in Seq(Said)
      /\ UNCHANGED <<tool, step, file, sent, runs>>
      /\ pc \in Reading /\ 1 <= Len(toBoard) /\ toBoard' = SubSeq(toBoard, 2, Len(toBoard))
      /\ ReceiveSize(Head(toBoard))
  BY DEF UploadInv, TalkInv, LinkTypeOK, BoardReceive, Needed, ReceiveChunk, ReceiveCrc, tools
<1>2. toBoard # <<>>
  BY <1>1, EmptySeq
<1>3. ~Outside /\ toBoard' \in Seq(Word) /\ (1 = Len(toBoard) => toBoard' = <<>>)
  BY <1>1, LeftOver DEF Outside, InSession
<1>4. CASE \E st \in Failures : Reject(st)
  BY <1>1, <1>2, <1>3, <1>4, FailureStep
<1>5. CASE ~ \E st \in Failures : Reject(st)
  <2>1. pc' = "Erase" /\ size' = Head(toBoard)
    BY <1>1, <1>5 DEF ReceiveSize, Failures
  <2>2. Heard(<<>>)
    BY <1>1, <2>1, AnswerFacts, SessionLines, SayIsHeard
  <2>3. tool = "Send" => Refused
    BY <1>1, <1>2, ReadingFacts
  <2>4. tool = "Await" /\ ~Refused /\ ~(RefusedNext /\ step # "crc") =>
          toHost = <<>> /\ step = "size" /\ toBoard = <<Len(file)>>
    BY <1>1, <1>2, ReadingFacts DEF Request
  <2>5. toBoard = <<Len(file)>> => toBoard' = <<>> /\ size' = Len(file)
    <3>1. Len(<<Len(file)>>) = 1 /\ Head(<<Len(file)>>) = Len(file)
      OBVIOUS
    <3>2. toBoard = <<Len(file)>> => 1 = Len(toBoard) /\ Head(toBoard) = Len(file)
      BY <3>1, Zenon
    <3> QED
      BY <1>3, <2>1, <3>2
  <2>6. tool = "Await" => toHost' = toHost
    BY <1>1, <2>2, SessionLines, HeardFacts DEF Listening
  <2>7. tool = "Await" /\ ~Refused /\ ~(RefusedNext /\ step # "crc") => AwaitInv'
    BY <1>1, <2>1, <2>4, <2>5, <2>6 DEF AwaitInv, Working
  <2> QED
    BY <1>1, <1>2, <1>3, <2>2, <2>3, <2>7, SessionLines, SessionStep
<1> QED
  BY <1>4, <1>5

(* A chunk: the board takes exactly the words the tool has sent.            *)
LEMMA ChunkStep == ASSUME UploadInv, BoardReceive, pc = "Chunk" PROVE TalkInv'
<1> DEFINE data == SubSeq(toBoard, 1, Needed)
<1>1. /\ UNCHANGED tools /\ UNCHANGED flushed /\ Say(Answer)
      /\ LinkTypeOK /\ toBoard \in Seq(Word) /\ toHost \in Seq(Said) /\ SentInv
      /\ UNCHANGED <<tool, step, file, sent, runs>> /\ TypeOK /\ LoopInv
      /\ pc \in Reading /\ Needed <= Len(toBoard)
      /\ toBoard' = SubSeq(toBoard, Needed + 1, Len(toBoard))
      /\ ReceiveChunk(data)
  BY DEF UploadInv, TalkInv, LinkTypeOK, BoardReceive, ReceiveSize, ReceiveCrc, tools, IInv
<1>2. Needed = ChunkLen /\ Needed \in Nat \ {0}
  <2>1. Needed = Padded(ChunkLen)
    BY DEF Needed
  <2>2. ChunkLen \in 1 .. ChunkBytes
    BY <1>1, ChunkArith
  <2> QED
    BY <2>1, <2>2, OneByte
<1>3. PICK n \in Nat \ {0} : n = Needed
  BY <1>2
<1>4. toBoard # <<>>
  <2>1. PICK m \in Nat : m = Len(toBoard)
    BY <1>1
  <2>2. m > 0
    BY <1>1, <1>3, <2>1
  <2> QED
    BY <2>1, <2>2, EmptySeq
<1>5. ~Outside /\ toBoard' \in Seq(Word) /\ (n = Len(toBoard) => toBoard' = <<>>)
  BY <1>1, <1>3, LeftOver DEF Outside, InSession
<1>6. pc' = "Program" /\ UNCHANGED <<size, received, addr>> /\ chunk' = data
  BY <1>1 DEF ReceiveChunk
<1>7. Heard(<<>>)
  BY <1>1, <1>6, AnswerFacts, SessionLines, SayIsHeard
<1>8. tool = "Send" => Refused
  BY <1>1, <1>4, ReadingFacts
<1>9. tool = "Await" => toHost' = toHost
  BY <1>1, <1>7, SessionLines, HeardFacts DEF Listening
<1>10. ASSUME tool = "Await", ~Refused, ~(RefusedNext /\ step # "crc")
       PROVE  AwaitInv'
  <2>1. toHost = <<>> /\ step = "chunk" /\ toBoard = NextChunk /\ Holds(sent)
    <3>1. toHost = <<>> /\ toBoard = Request /\ step = "chunk" /\ Holds(sent)
      BY <1>1, <1>4, <1>10, ReadingFacts
    <3> QED
      BY <3>1 DEF Request
  <2>2. sent < Len(file) /\ sent \in Nat /\ Len(file) \in Nat
    BY <1>1, <2>1, FileFacts DEF SentInv, LinkTypeOK
  <2>3. /\ size = Len(file) /\ image = Delivered(sent) /\ received = sent /\ addr = sent
    BY <2>1, <2>2 DEF Holds
  <2>4. /\ NextChunk \in Seq(Word)
        /\ Len(NextChunk) = IF Len(file) - sent > ChunkWords THEN ChunkWords ELSE Len(file) - sent
        /\ SentNext \in Nat /\ SentNext <= Len(file) /\ SentNext = sent + Len(NextChunk)
        /\ \A i \in 1 .. Len(NextChunk) : NextChunk[i] = file[sent + i]
    BY <1>1, <2>2, NextFacts DEF SentNext
  <2>5. n = Len(NextChunk)
    BY <1>2, <1>3, <2>3, <2>4, OneByte DEF ChunkLen
  <2>6. data = NextChunk /\ toBoard' = <<>>
    BY <1>3, <1>5, <2>1, <2>4, <2>5, SubSeqFull
  <2>7. image' = Delivered(SentNext)
    <3>1. image' = [w \in SlotWord |-> IF w - addr + 1 \in 1 .. Len(NextChunk)
                                         THEN NextChunk[w - addr + 1] ELSE image[w]]
      BY <1>1, <2>6 DEF ReceiveChunk
    <3>2. ASSUME NEW w \in SlotWord
          PROVE  (IF w - addr + 1 \in 1 .. Len(NextChunk)
                    THEN NextChunk[w - addr + 1] ELSE image[w])
                 = (IF w < SentNext THEN file[w + 1] ELSE Erased)
      <4>1. w \in Nat
        BY OneByte DEF SlotWord
      <4>2. image[w] = IF w < sent THEN file[w + 1] ELSE Erased
        BY <2>3 DEF Delivered
      <4>3. w - addr + 1 \in 1 .. n <=> sent <= w /\ w < SentNext
        BY <2>2, <2>3, <2>4, <2>5, <4>1
      <4>4. CASE sent <= w /\ w < SentNext
        <5>1. w - addr + 1 \in 1 .. n /\ sent + (w - addr + 1) = w + 1
          BY <2>2, <2>3, <4>1, <4>3, <4>4
        <5>2. NextChunk[w - addr + 1] = file[sent + (w - addr + 1)]
          BY <2>4, <2>5, <5>1
        <5> QED
          BY <2>5, <4>4, <5>1, <5>2
      <4>5. CASE ~(sent <= w /\ w < SentNext)
        BY <2>2, <2>4, <2>5, <4>1, <4>2, <4>3, <4>5
      <4> QED
        BY <4>4, <4>5
    <3> QED
      BY <3>1, <3>2 DEF Delivered
  <2>8. Delivered(SentNext)' = Delivered(SentNext) /\ SentNext' = SentNext
    BY <1>1 DEF SentNext, NextChunk, Delivered
  <2>9. addr' + Len(chunk') = SentNext'
    BY <1>6, <2>3, <2>4, <2>6, <2>8
  <2>10. Working'
    BY <1>1, <1>6, <2>1, <2>3, <2>7, <2>8, <2>9 DEF Working
  <2> QED
    BY <1>9, <1>10, <2>1, <2>6, <2>10 DEF AwaitInv
<1> QED
  BY <1>1, <1>4, <1>5, <1>7, <1>8, <1>10, SessionLines, SessionStep

(* The CRC: the board compares it, and begins to seal.                      *)
LEMMA CrcStep == ASSUME UploadInv, BoardReceive, pc = "Crc" PROVE TalkInv'
<1>1. /\ UNCHANGED tools /\ UNCHANGED flushed /\ Say(Answer)
      /\ LinkTypeOK /\ toBoard \in Seq(Word) /\ toHost \in Seq(Said)
      /\ UNCHANGED <<tool, step, file, sent, runs>>
      /\ pc \in Reading /\ 1 <= Len(toBoard) /\ toBoard' = SubSeq(toBoard, 2, Len(toBoard))
      /\ ReceiveCrc(Head(toBoard))
  BY DEF UploadInv, TalkInv, LinkTypeOK, BoardReceive, Needed, ReceiveSize, ReceiveChunk, tools
<1>2. toBoard # <<>>
  BY <1>1, EmptySeq
<1>3. ~Outside /\ toBoard' \in Seq(Word) /\ (1 = Len(toBoard) => toBoard' = <<>>)
  BY <1>1, LeftOver DEF Outside, InSession
<1>4. CASE Abort("CRC")
  BY <1>1, <1>2, <1>3, <1>4, FailureStep DEF Failures
<1>5. CASE ~Abort("CRC")
  <2>1. pc' = "Seal" /\ UNCHANGED image
    BY <1>1, <1>5 DEF ReceiveCrc
  <2>2. Heard(<<>>)
    BY <1>1, <2>1, AnswerFacts, SessionLines, SayIsHeard
  <2>3. tool = "Send" => Refused
    BY <1>1, <1>2, ReadingFacts
  <2>4. tool = "Await" /\ ~Refused /\ ~(RefusedNext /\ step # "crc") =>
          /\ toHost = <<>> /\ step = "crc" /\ toBoard = <<Crc(PaddedFile(file))>>
          /\ image = PaddedFile(file)
    <3>1. tool = "Await" /\ ~Refused /\ ~(RefusedNext /\ step # "crc") =>
            toHost = <<>> /\ step = "crc" /\ toBoard = Request /\ Holds(Len(file))
      BY <1>1, <1>2, ReadingFacts
    <3>2. Holds(Len(file)) => image = PaddedFile(file)
      BY <1>1, FileFacts DEF Holds
    <3>3. step = "crc" => Request = <<Crc(PaddedFile(file))>>
      BY DEF Request
    <3> QED
      BY <3>1, <3>2, <3>3
  <2>5. toBoard = <<Crc(PaddedFile(file))>> => toBoard' = <<>>
    <3>1. Len(<<Crc(PaddedFile(file))>>) = 1
      OBVIOUS
    <3>2. toBoard = <<Crc(PaddedFile(file))>> => 1 = Len(toBoard)
      BY <3>1, Zenon
    <3> QED
      BY <1>3, <3>2
  <2>6. tool = "Await" => toHost' = toHost
    BY <1>1, <2>2, SessionLines, HeardFacts DEF Listening
  <2>7. PaddedFile(file)' = PaddedFile(file)
    BY <1>1 DEF PaddedFile
  <2>8. tool = "Await" /\ ~Refused /\ ~(RefusedNext /\ step # "crc") => AwaitInv'
    BY <1>1, <2>1, <2>4, <2>5, <2>6, <2>7 DEF AwaitInv, Working
  <2> QED
    BY <1>1, <1>2, <1>3, <2>2, <2>3, <2>8, SessionLines, SessionStep
<1> QED
  BY <1>4, <1>5

(* The wait takes 'u': the session begins, and the board acknowledges.      *)
LEMMA RequestStep == ASSUME UploadInv, BoardRequest, UpdateRequested PROVE TalkInv'
<1>1. /\ UNCHANGED tools /\ UNCHANGED flushed /\ toBoard # <<>> /\ toBoard' = Tail(toBoard)
      /\ LinkTypeOK /\ SentInv /\ ReadyInv /\ SendInv /\ AwaitInv /\ DoneInv /\ FirstInv
      /\ toBoard \in Seq(Word) /\ toHost \in Seq(Said)
      /\ UNCHANGED <<tool, step, file, sent, runs>>
      /\ pc = "Wait" /\ pc' = "Size"
  BY DEF UploadInv, TalkInv, LinkTypeOK, BoardRequest, UpdateRequested, tools
<1>2. Say(<<"ACK">>)
  BY <1>1 DEF BoardRequest, UpdateRequested, board, vars
<1>3. Heard(<<"ACK">>)
  BY <1>1, <1>2, SessionLines, SayIsHeard
<1>4. Outside
  BY <1>1 DEF Outside, InSession, Reading
<1>5. toBoard' \in Seq(Word) /\ (toBoard = <<CMD_UPDATE>> => toBoard' = <<>>)
  BY <1>1, HeadTailProperties
<1>6. LinkTypeOK' /\ SentInv'
  BY <1>1, <1>3, <1>5 DEF LinkTypeOK, SentInv, Heard
<1>7. ReadyInv'
  BY <1>1 DEF ReadyInv
<1>8. SendInv'
  <2>1. tool = "Send" => step # "update" /\ Refused /\ Refused'
    BY <1>1, <1>3, SessionLines, HeardFacts DEF SendInv, Listening
  <2> QED
    BY <1>1, <2>1 DEF SendInv
<1>9. AwaitInv'
  <2> SUFFICES ASSUME tool = "Await" PROVE AwaitInv'
    BY <1>1 DEF AwaitInv
  <2>1. /\ Refused => Refused'
        /\ RefusedNext => RefusedNext'
        /\ toHost = <<>> => toHost' = <<"ACK">>
    BY <1>1, <1>3, SessionLines, HeardFacts DEF Listening
  <2>2. CASE Refused \/ (RefusedNext /\ step # "crc")
    BY <1>1, <2>1, <2>2 DEF AwaitInv
  <2>3. CASE toHost = <<>> /\ toBoard = Request /\ Before
    <3>1. step \in {"chunk", "crc"} => sent <= Len(file) /\ sent \in Nat /\ Len(file) \in Nat
      BY <1>1, FileFacts DEF SentInv, LinkTypeOK
    <3>2. step = "update"
      BY <1>1, <2>3, <3>1 DEF Before, Holds, LinkTypeOK
    <3>3. toBoard = <<CMD_UPDATE>>
      BY <2>3, <3>2 DEF Request
    <3>4. After'
      BY <1>1, <3>2 DEF After
    <3> QED
      BY <1>1, <1>5, <2>1, <2>3, <3>2, <3>3, <3>4 DEF AwaitInv
  <2> QED
    BY <1>1, <2>2, <2>3 DEF AwaitInv
<1>10. DoneInv'
  BY <1>1 DEF DoneInv
<1>11. FirstInv'
  BY <1>1, <1>5 DEF FirstInv
<1> QED
  BY <1>6, <1>7, <1>8, <1>9, <1>10, <1>11 DEF TalkInv

----------------------------------------------------------------------------
(* The tool *)

(* A run starts: nothing is on its way to the board.                        *)
LEMMA StartStep == ASSUME UploadInv, Start PROVE TalkInv'
<1>1. /\ LinkTypeOK /\ FirstInv /\ UNCHANGED <<toBoard, flushed, pc>>
      /\ tool \notin {"Ready", "Send", "Await"}
      /\ toBoard = <<>> /\ runs' = runs + 1 /\ tool' = "Ready" /\ step' = "update"
      /\ sent' = 0 /\ file' \in Image /\ toHost' = <<>> /\ runs \in Nat
  BY DEF UploadInv, TalkInv, LinkTypeOK, Start, Listening, board, vars
<1>2. toHost' \in Seq(Said) /\ 1 .. Len(toHost') = {}
  <2>1. Len(<<>>) = 0 /\ <<>> \in Seq(Said)
    BY EmptySeq
  <2>2. toHost' \in Seq(Said) /\ Len(toHost') = 0
    BY <1>1, <2>1, Zenon
  <2> QED
    BY <2>2
<1>3. LinkTypeOK' /\ SentInv'
  BY <1>1, <1>2 DEF LinkTypeOK, SentInv
<1>4. ReadyInv' /\ SendInv' /\ AwaitInv' /\ DoneInv'
  BY <1>1, <1>2 DEF ReadyInv, SendInv, AwaitInv, DoneInv
<1>5. Outside' = Outside
  BY <1>1 DEF Outside
<1>6. FirstInv'
  BY <1>1, <1>5 DEF FirstInv
<1> QED
  BY <1>3, <1>4, <1>6 DEF TalkInv

(* A line is read; READY begins the upload.                                 *)
LEMMA WaitReadyStep == ASSUME UploadInv, WaitReady PROVE TalkInv'
<1>1. /\ LinkTypeOK /\ SentInv /\ ReadyInv /\ FirstInv
      /\ UNCHANGED <<toBoard, flushed, pc, step, file, sent, runs>>
      /\ tool = "Ready" /\ toHost # <<>> /\ toHost \in Seq(Said)
      /\ tool' = IF Head(toHost) = "READY" THEN "Send" ELSE "Ready"
      /\ toHost' = Tail(toHost)
  BY DEF UploadInv, TalkInv, LinkTypeOK, WaitReady, board, vars
<1>2. PICK n \in Nat \ {0} : n = Len(toHost)
  BY <1>1, EmptySeq
<1>3. /\ toHost' \in Seq(Said) /\ Len(toHost') = n - 1
      /\ \A i \in 1 .. n - 1 : toHost'[i] = toHost[i + 1]
      /\ Head(toHost) = toHost[1]
  BY <1>1, <1>2, HeadTailProperties
<1>4. LinkTypeOK' /\ SentInv'
  BY <1>1, <1>3 DEF LinkTypeOK, SentInv
<1>5. Outside' = Outside
  BY <1>1 DEF Outside
<1>6. /\ toBoard = <<>> /\ step = "update"
      /\ \A i \in 1 .. n : toHost[i] = "READY" =>
           Outside /\ \A j \in 1 .. n : j > i => toHost[j] # "ACK"
  BY <1>1, <1>2 DEF ReadyInv
<1>7. ReadyInv'
  <2>1. ASSUME NEW i \in 1 .. n - 1, toHost'[i] = "READY"
        PROVE  Outside' /\ \A j \in 1 .. n - 1 : j > i => toHost'[j] # "ACK"
    <3>1. i + 1 \in 1 .. n /\ toHost[i + 1] = "READY"
      BY <1>3, <2>1
    <3>2. Outside /\ \A j \in 1 .. n : j > i + 1 => toHost[j] # "ACK"
      BY <1>6, <3>1
    <3>3. ASSUME NEW j \in 1 .. n - 1, j > i PROVE toHost'[j] # "ACK"
      <4>1. j + 1 \in 1 .. n /\ j + 1 > i + 1 /\ toHost'[j] = toHost[j + 1]
        BY <1>3, <3>3
      <4> QED
        BY <3>2, <4>1
    <3> QED
      BY <1>5, <3>2, <3>3
  <2> QED
    BY <1>1, <1>3, <1>6, <2>1 DEF ReadyInv
<1>8. SendInv'
  <2> SUFFICES ASSUME toHost[1] = "READY" PROVE NoAck(toHost') /\ Outside'
    BY <1>1, <1>3, <1>6 DEF SendInv
  <2>1. 1 \in 1 .. n
    BY <1>2
  <2>2. Outside /\ \A j \in 1 .. n : j > 1 => toHost[j] # "ACK"
    BY <1>6, <2>1
  <2>3. ASSUME NEW j \in 1 .. n - 1 PROVE toHost'[j] # "ACK"
    <3>1. j + 1 \in 1 .. n /\ j + 1 > 1 /\ toHost'[j] = toHost[j + 1]
      BY <1>3, <2>3
    <3> QED
      BY <2>2, <3>1
  <2> QED
    BY <1>3, <1>5, <2>2, <2>3 DEF NoAck
<1>9. AwaitInv' /\ DoneInv'
  BY <1>1 DEF AwaitInv, DoneInv
<1>10. FirstInv'
  BY <1>1, <1>5 DEF FirstInv
<1> QED
  BY <1>4, <1>7, <1>8, <1>9, <1>10 DEF TalkInv

(* A request is a sequence of symbols.                                      *)
LEMMA RequestType ==
  ASSUME LinkTypeOK, SentInv
  PROVE  Request \in Seq(Word) /\ (step = "update" => Request = <<CMD_UPDATE>>)
<1>1. step = "update" => Request = <<CMD_UPDATE>>
  BY DEF Request
<1>2. step = "size" => Request = <<Len(file)>>
  BY DEF Request
<1>3. step = "chunk" => Request = NextChunk
  BY DEF Request
<1>4. step = "crc" => Request = <<Crc(PaddedFile(file))>>
  BY DEF Request
<1>5. <<CMD_UPDATE>> \in Seq(Word)
  BY UploadAssumption
<1>6. <<Len(file)>> \in Seq(Word) /\ <<Crc(PaddedFile(file))>> \in Seq(Word)
  <2>1. Len(file) \in Word /\ Crc(PaddedFile(file)) \in Word
    BY FileFacts
  <2> QED
    BY <2>1
<1>7. step = "chunk" => NextChunk \in Seq(Word)
  BY NextFacts DEF SentInv
<1> QED
  BY <1>1, <1>2, <1>3, <1>4, <1>5, <1>6, <1>7 DEF LinkTypeOK

(* The tool sends a request to a board that awaits it, is silent after a    *)
(* reset, or has already refused.                                           *)
LEMMA SendStep == ASSUME UploadInv, Send PROVE TalkInv'
<1>1. /\ LinkTypeOK /\ SentInv /\ SendInv /\ FirstInv /\ tool = "Send" /\ tool' = "Await"
      /\ UNCHANGED <<flushed, step, file, sent, runs>>
      /\ UNCHANGED <<pc, size, received, addr, chunk, image, slot, tag>>
      /\ toBoard \in Seq(Word) /\ toHost \in Seq(Said)
      /\ toBoard' = toBoard \o Request
      /\ toHost' \in IF step = "update" THEN Suffixes(toHost) ELSE {toHost}
  BY DEF UploadInv, TalkInv, LinkTypeOK, Send, board, vars
<1>2. /\ Request \in Seq(Word) /\ (step = "update" => Request = <<CMD_UPDATE>>)
      /\ Request' = Request
  <2>1. Request' = Request
    BY <1>1 DEF Request, NextChunk, PaddedFile
  <2> QED
    BY <1>1, <2>1, RequestType
<1>3. toBoard' \in Seq(Word) /\ (toBoard = <<>> => toBoard' = Request)
  BY <1>1, <1>2, ConcatProperties, ConcatEmptySeq
<1>4. toHost' \in Seq(Said)
  BY <1>1, SuffixFacts
<1>5. LinkTypeOK' /\ SentInv'
  BY <1>1, <1>3, <1>4 DEF LinkTypeOK, SentInv
<1>6. ReadyInv' /\ SendInv' /\ DoneInv'
  BY <1>1 DEF ReadyInv, SendInv, DoneInv
<1>7. Outside' = Outside /\ Before' = Before
  BY <1>1 DEF Outside, Before, Holds, Delivered
<1>8. AwaitInv'
  <2>1. CASE step = "update" /\ toBoard = <<>> /\ Outside /\ NoAck(toHost)
    <3>1. CASE toHost' = <<>>
      BY <1>1, <1>2, <1>3, <1>7, <2>1, <3>1 DEF AwaitInv, Before
    <3>2. CASE toHost' # <<>>
      <4>1. 1 \in 1 .. Len(toHost')
        <5>1. Len(toHost') \in Nat \ {0}
          BY <1>4, <3>2, EmptySeq
        <5> QED
          BY <5>1
      <4>2. \E j \in 1 .. Len(toHost) : toHost'[1] = toHost[j]
        BY <1>1, <2>1, <4>1, SuffixFacts
      <4>3. Refused'
        BY <2>1, <3>2, <4>2 DEF NoAck, Refused
      <4> QED
        BY <1>1, <4>3 DEF AwaitInv
    <3> QED
      BY <3>1, <3>2
  <2>2. CASE step # "update" /\ Refused
    BY <1>1, <2>2 DEF AwaitInv, Refused
  <2>3. CASE step # "update" /\ toHost = <<>> /\ toBoard = <<>> /\ (Before \/ pc = "Reset")
    BY <1>1, <1>2, <1>3, <1>7, <2>3 DEF AwaitInv
  <2> QED
    BY <1>1, <2>1, <2>2, <2>3 DEF SendInv
<1>9. FirstInv'
  BY <1>1, <1>2, <1>3, <1>7 DEF FirstInv
<1> QED
  BY <1>5, <1>6, <1>8, <1>9 DEF TalkInv

(* Only an ACK lets the tool go on, and only the board's answer to its      *)
(* request is one.                                                          *)
LEMMA ExpectAckStep == ASSUME UploadInv, ExpectAck PROVE TalkInv'
<1>1. /\ LinkTypeOK /\ SentInv /\ AwaitInv /\ FirstInv /\ tool = "Await"
      /\ UNCHANGED <<toBoard, flushed, file, runs>>
      /\ UNCHANGED <<pc, size, received, addr, chunk, image, slot, tag>>
      /\ toHost \in Seq(Said) /\ toHost # <<>> /\ toHost' = Tail(toHost)
      /\ runs # 0
  BY DEF UploadInv, TalkInv, LinkTypeOK, FirstInv, ExpectAck, board, vars
<1>2. PICK n \in Nat \ {0} : n = Len(toHost)
  BY <1>1, EmptySeq
<1>3. /\ toHost' \in Seq(Said) /\ Len(toHost') = n - 1
      /\ \A i \in 1 .. n - 1 : toHost'[i] = toHost[i + 1]
      /\ Head(toHost) = toHost[1]
  BY <1>1, <1>2, HeadTailProperties
<1>4. Outside' = Outside
  BY <1>1 DEF Outside
<1>5. CASE tool' = "Failed" /\ UNCHANGED <<step, sent>>
  <2>1. LinkTypeOK' /\ SentInv'
    BY <1>1, <1>3, <1>5 DEF LinkTypeOK, SentInv
  <2>2. ReadyInv' /\ SendInv' /\ AwaitInv' /\ DoneInv'
    BY <1>5 DEF ReadyInv, SendInv, AwaitInv, DoneInv
  <2>3. FirstInv'
    BY <1>1, <1>4, <1>5 DEF FirstInv
  <2> QED
    BY <2>1, <2>2, <2>3 DEF TalkInv
<1>6. CASE toHost[1] = "ACK" /\ Proceed
  <2>1. /\ step = "update" => step' = "size" /\ sent' = sent /\ tool' = "Send"
        /\ step = "size"   => step' = "chunk" /\ sent' = sent /\ tool' = "Send"
        /\ step = "chunk"  => /\ sent' = SentNext /\ tool' = "Send"
                              /\ step' = IF sent' < Len(file) THEN "chunk" ELSE "crc"
        /\ step = "crc"    => step' = "crc" /\ sent' = sent /\ tool' = "Done"
    BY <1>6 DEF Proceed, SentNext
  <2>2. /\ step \in {"update", "size", "chunk", "crc"} /\ sent \in Nat
        /\ Len(file) \in Nat /\ Len(file) > 0
        /\ step \in {"update", "size"} => sent = 0
        /\ step = "chunk" => SentNext \in Nat /\ SentNext <= Len(file)
        /\ step = "crc" => sent = Len(file)
    BY <1>1, FileFacts, NextFacts DEF SentInv, LinkTypeOK
  <2>3. LinkTypeOK' /\ SentInv'
    BY <1>1, <1>3, <2>1, <2>2 DEF LinkTypeOK, SentInv
  <2>4. step' # "update" /\ tool' \in {"Send", "Done"}
    BY <2>1, <2>2
  <2>5. ~Refused /\ toHost # <<>>
    BY <1>1, <1>6 DEF Refused
  <2>6. step # "crc" =>
          \/ toHost = <<"ACK">> /\ toBoard = <<>> /\ (After \/ pc = "Reset")
          \/ RefusedNext
    BY <1>1, <2>5 DEF AwaitInv
  <2>7. RefusedNext => Refused'
    <3> SUFFICES ASSUME n > 1, toHost[2] # "ACK" PROVE Refused'
      BY <1>2 DEF RefusedNext
    <3>1. toHost'[1] = toHost[2] /\ Len(toHost') # 0
      BY <1>3
    <3>2. toHost' # <<>>
      BY <3>1, EmptySeq
    <3> QED
      BY <3>1, <3>2 DEF Refused
  <2>8. toHost = <<"ACK">> => toHost' = <<>>
    BY <1>1
  <2>9. After /\ step # "crc" => Before'
    <3>1. ASSUME NEW m, Holds(m), sent' = m PROVE Holds(sent)'
      BY <1>1, <3>1 DEF Holds, Delivered
    <3>2. CASE step = "update"
      BY <1>1, <2>1, <3>2 DEF After, Before
    <3>3. CASE step = "size"
      BY <2>1, <2>2, <3>1, <3>3 DEF After, Before
    <3>4. CASE step = "chunk"
      BY <2>1, <2>2, <3>1, <3>4 DEF After, Before
    <3> QED
      BY <2>2, <3>2, <3>3, <3>4
  <2>10. SendInv'
    <3> SUFFICES ASSUME tool' = "Send" PROVE SendInv'
      BY DEF SendInv
    <3>1. step # "crc"
      BY <2>1
    <3>2. CASE RefusedNext
      BY <2>4, <2>7, <3>2 DEF SendInv
    <3>3. CASE toHost = <<"ACK">> /\ toBoard = <<>> /\ (After \/ pc = "Reset")
      BY <1>1, <2>4, <2>8, <2>9, <3>1, <3>3 DEF SendInv
    <3> QED
      BY <2>6, <3>1, <3>2, <3>3
  <2>11. DoneInv'
    <3> SUFFICES ASSUME tool' = "Done" PROVE DoneInv'
      BY DEF DoneInv
    <3>1. step = "crc"
      BY <2>1, <2>2
    <3>2. toBoard = <<>> /\ Sealed
      BY <1>1, <2>5, <3>1 DEF AwaitInv, After
    <3>3. PaddedFile(file)' = PaddedFile(file) /\ Crc(PaddedFile(file))' = Crc(PaddedFile(file))
      BY <1>1 DEF PaddedFile
    <3>4. Sealed'
      BY <1>1, <1>4, <3>2, <3>3 DEF Sealed
    <3> QED
      BY <1>1, <3>2, <3>4 DEF DoneInv
  <2>12. ReadyInv' /\ AwaitInv'
    BY <2>4 DEF ReadyInv, AwaitInv
  <2>13. FirstInv'
    BY <1>1, <2>4 DEF FirstInv
  <2> QED
    BY <2>3, <2>10, <2>11, <2>12, <2>13 DEF TalkInv
<1> QED
  BY <1>3, <1>5, <1>6 DEF ExpectAck

(* A run that waits in vain fails, which promises nothing.                  *)
LEMMA ToolTimeoutStep == ASSUME UploadInv, ToolTimeout PROVE TalkInv'
<1>1. /\ LinkTypeOK /\ SentInv /\ FirstInv /\ tool \in {"Ready", "Await"} /\ tool' = "Failed"
      /\ UNCHANGED <<toBoard, toHost, flushed, step, file, sent, runs, pc>>
  BY DEF UploadInv, TalkInv, ToolTimeout, board, vars
<1>2. LinkTypeOK' /\ SentInv'
  BY <1>1 DEF LinkTypeOK, SentInv
<1>3. ReadyInv' /\ SendInv' /\ AwaitInv' /\ DoneInv'
  BY <1>1 DEF ReadyInv, SendInv, AwaitInv, DoneInv
<1>4. FirstInv'
  BY <1>1 DEF FirstInv, Outside
<1> QED
  BY <1>2, <1>3, <1>4 DEF TalkInv

----------------------------------------------------------------------------
(* The invariant *)

(* Before the first run the board has heard nothing.                        *)
LEMMA UploadInitInv == UploadInit => UploadInv
<1> SUFFICES ASSUME UploadInit PROVE UploadInv
  OBVIOUS
<1>1. IInv
  BY InitInv DEF UploadInit
<1>2. LinkTypeOK
  BY EmptySeq DEF UploadInit, LinkTypeOK
<1>3. Outside
  BY DEF UploadInit, Init, Outside, InSession, Reading
<1> QED
  BY <1>1, <1>2, <1>3
  DEF UploadInit, UploadInv, TalkInv, SentInv, ReadyInv, SendInv, AwaitInv, DoneInv, FirstInv

(* Every step of tool, link and board keeps the invariant.                  *)
LEMMA UploadNextInv == UploadInv /\ [UploadNext]_allVars => UploadInv'
<1> SUFFICES ASSUME UploadInv, [UploadNext]_allVars PROVE UploadInv'
  OBVIOUS
<1>1. IInv'
  BY BoardPart, NextInv DEF UploadInv
<1>2. CASE BoardBoot \/ FlushRx \/ BoardTimeout \/ BoardVerify
  BY <1>1, <1>2, WaitingSteps, TimeoutStep DEF UploadInv
<1>3. CASE BoardRequest
  <2>1. UpdateRequested \/ UNCHANGED board
    BY <1>3 DEF BoardRequest
  <2> QED
    BY <1>1, <1>3, <2>1, WaitingSteps, RequestStep DEF UploadInv
<1>4. CASE BoardReceive
  <2>1. pc \in {"Size", "Chunk", "Crc"}
    BY <1>4 DEF BoardReceive, Reading
  <2> QED
    BY <1>1, <1>4, <2>1, SizeStep, ChunkStep, CrcStep DEF UploadInv
<1>5. CASE BoardWork
  <2>1. EraseNext \/ ProgramNext \/ Seal
    BY <1>5 DEF BoardWork
  <2> QED
    BY <1>1, <1>5, <2>1, EraseStep, ProgramStep, SealStep DEF UploadInv
<1>6. CASE RepeatReady \/ BoardButton \/ BoardExpires \/ BoardReset \/ BoardDeaf
  BY <1>1, <1>6, WaitingSteps, ResetStep DEF UploadInv
<1>7. CASE Start \/ WaitReady \/ Send \/ ExpectAck \/ ToolTimeout
  BY <1>1, <1>7, StartStep, WaitReadyStep, SendStep, ExpectAckStep, ToolTimeoutStep
  DEF UploadInv
<1>8. CASE UNCHANGED allVars
  <2>1. /\ UNCHANGED <<slot, tag, pc, size, received, addr, image, chunk>>
        /\ UNCHANGED <<toBoard, toHost, flushed, tool, step, file, sent, runs>>
    BY <1>8 DEF allVars, board, vars, tools
  <2>2. NextChunk' = NextChunk
    BY <2>1 DEF NextChunk
  <2>3. SentNext' = SentNext
    BY <2>1, <2>2 DEF SentNext
  <2>4. PaddedFile(file)' = PaddedFile(file)
    BY <2>1 DEF PaddedFile
  <2>5. Request' = Request
    BY <2>1, <2>2, <2>4 DEF Request
  <2>6. /\ Outside' = Outside /\ Refused' = Refused /\ RefusedNext' = RefusedNext
        /\ NoAck(toHost)' = NoAck(toHost) /\ Sealed' = Sealed
    BY <2>1, <2>4 DEF Outside, Refused, RefusedNext, NoAck, Sealed
  <2>7. \A n : Delivered(n)' = Delivered(n)
    BY <2>1 DEF Delivered
  <2>8. \A n : Holds(n)' = Holds(n)
    BY <2>1, <2>7 DEF Holds
  <2>9. Before' = Before
    BY <2>1, <2>6, <2>8 DEF Before
  <2>10. Working' = Working
    BY <2>1, <2>3, <2>4, <2>6, <2>7 DEF Working
  <2>11. After' = After
    BY <2>1, <2>3, <2>6, <2>8 DEF After
  <2>12. LinkTypeOK' /\ SentInv' /\ FirstInv'
    BY <2>1, <2>6 DEF UploadInv, TalkInv, LinkTypeOK, SentInv, FirstInv
  <2>13. ReadyInv'
    BY <2>1, <2>6 DEF UploadInv, TalkInv, ReadyInv
  <2>14. SendInv'
    BY <2>1, <2>6, <2>9 DEF UploadInv, TalkInv, SendInv
  <2>15. AwaitInv'
    BY <2>1, <2>5, <2>6, <2>9, <2>10, <2>11 DEF UploadInv, TalkInv, AwaitInv
  <2>16. DoneInv'
    BY <2>1, <2>6 DEF UploadInv, TalkInv, DoneInv
  <2> QED
    BY <1>1, <2>12, <2>13, <2>14, <2>15, <2>16 DEF UploadInv, TalkInv
<1> QED
  BY <1>2, <1>3, <1>4, <1>5, <1>6, <1>7, <1>8 DEF UploadNext, BoardAlone, ToolStep

(* Tool and board agree at every moment on how far the upload is, or the    *)
(* answer on its way to the tool ends the run.                              *)
THEOREM UploadInductive == UploadSpec => []UploadInv
<1>1. UploadInit => UploadInv
  BY UploadInitInv
<1>2. UploadInv /\ [UploadNext]_allVars => UploadInv'
  BY UploadNextInv
<1> QED
  BY <1>1, <1>2, PTL DEF UploadSpec

(* The composition implements the bootloader: whatever the tool does and    *)
(* the link holds, the board takes only the steps of Bootloader, so all     *)
(* that is proved of it holds here.                                         *)
THEOREM BoardRefinement == UploadSpec => Spec
<1>1. UploadInit => Init
  BY DEF UploadInit
<1>2. UploadInv /\ [UploadNext]_allVars => [Next]_vars
  BY BoardPart
<1> QED
  BY <1>1, <1>2, UploadInductive, PTL DEF UploadSpec, Spec

(* bl_upload.py prints "=== UPLOADED ===" only over the sealed image it     *)
(* was given.                                                               *)
THEOREM DoneMeansSealed == UploadSpec => []UploadedIsSealed
<1>1. UploadInv => UploadedIsSealed
  BY DEF UploadInv, TalkInv, DoneInv, Sealed, UploadedIsSealed
<1> QED
  BY <1>1, UploadInductive, PTL

(* Nothing arrives at a receiver the board does not poll.                   *)
THEOREM NothingToHold == UploadSpec => []SilentWhileBusy
<1>1. UploadInv => SilentWhileBusy
  <2> SUFFICES ASSUME UploadInv, tool = "Await", toHost = <<>>,
                      pc \in {"Erase", "Program", "Seal"}
               PROVE  toBoard = <<>>
    BY DEF SilentWhileBusy
  <2>1. ~Refused /\ ~RefusedNext
    <3>1. Len(<<>>) = 0
      BY EmptySeq
    <3> QED
      BY <3>1 DEF Refused, RefusedNext
  <2> QED
    BY <2>1, WorkingFacts
<1> QED
  BY <1>1, UploadInductive, PTL

(* Until a first 'u' is answered, no step of tool or board changes flash.   *)
THEOREM FirstRequestHarmless == UploadSpec => RequestIsHarmless
<1> DEFINE Early == runs = 0 \/ (runs = 1 /\ step = "update")
<1>1. ASSUME UploadInv, [UploadNext]_allVars, Early PROVE UNCHANGED flash
  <2>1. [Next]_vars
    BY <1>1, BoardPart
  <2>2. pc \notin {"Erase", "Chunk", "Program", "Crc", "Seal"}
    BY <1>1 DEF UploadInv, TalkInv, FirstInv, Outside, InSession, Reading
  <2>3. lock = TRUE
    BY <1>1, <2>2
    DEF UploadInv, IInv, TypeOK, LockedOutsideWriting, InSession, Reading
  <2> QED
    BY <1>1, <2>1, <2>3, LockedStep DEF UploadInv, flash
<1>2. UploadInv /\ [UploadNext]_allVars => [Early => UNCHANGED flash]_allVars
  BY <1>1
<1> QED
  BY <1>2, UploadInductive, PTL DEF UploadSpec, RequestIsHarmless
=============================================================================
