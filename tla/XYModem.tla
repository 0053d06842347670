------------------------------- MODULE XYModem -------------------------------
(***************************************************************************)
(* One file sent by xymodem_send (bbs/srsend.cpp) to xymodem_receive       *)
(* (bbs/srrcv.cpp): XMODEM with check sums or CRC, or YMODEM with its      *)
(* header block, over a line that loses, damages, invents and delays, and  *)
(* that does not carry every character.  RemoteSocketIO::put sends strlen  *)
(* of a character and AddStringToInputBuffer drops what is NUL, so that no *)
(* NUL passes a Windows system in either direction; WIOUnix::getW makes a  *)
(* CR of each LF that comes in.  A block with such a character in it comes *)
(* short, or with a wrong number or check sum, however often it is sent.   *)
(*                                                                         *)
(* An answer is a single character and carries no block number, so an      *)
(* answer that comes late is taken for the answer to the block sent since. *)
(* Timers are not synchronised with the line: either end may time out      *)
(* while what it waits for is under way.                                   *)
(*                                                                         *)
(* The file is counted in units; unit i of the source is the number i, and *)
(* a block of size n read at position p holds p .. p+n-1.                  *)
(***************************************************************************)
EXTENDS Integers, Sequences, SequencesExt

CONSTANTS
  Lengths,          \* the lengths a file may have, in units
  Small, Large,     \* the units of a 128 byte and of a 1024 byte block
  BlockMod,         \* values of a block number: a byte, 256
  MaxSendErrors,    \* errors after which send_b gives up: 9
  MaxConsecErrors,  \* nConsecErrors the receiver puts up with: 9
  MaxStartTries,    \* C or NAK sent before the first block: 10
  Wires,            \* the characters, NUL and LF, that a line may not carry
  LfNumbers,        \* block numbers sent with an LF: 10, and 245 = 255 - 10
  Mangles,          \* blocks that may have such a character in what they hold
  LineCap,          \* bound: what the line and the input buffer hold
  MaxFaults         \* bound: faults of the line and keys pressed

ASSUME LengthsAssumption == Lengths \subseteq Nat
ASSUME SizeAssumption == Small \in Nat \ {0} /\ Large \in Nat /\ Small < Large
ASSUME BlockModAssumption == BlockMod \in Nat \ {0, 1}
ASSUME TriesAssumption ==
  /\ MaxSendErrors \in Nat \ {0}
  /\ MaxConsecErrors \in Nat
  /\ MaxStartTries \in Nat \ {0}
ASSUME WireAssumption == \A w \in Wires : w \subseteq {"NUL", "LF"}
ASSUME BoundAssumption == LineCap \in Nat \ {0} /\ MaxFaults \in Nat

VARIABLES
  protocol,      \* what the two ends have agreed on
  lFileSize,     \* the length of the file
  prompt,        \* nothing is late: a timer fires only when all is quiet
  lost,          \* the characters that the line does not carry
  mangled,       \* the blocks, by position, that hold one or are checked by one
  sst,           \* where the sender is: start, header, block, cancel, eot, done
  waiting,       \* send_b has sent and is in gettimeout
  cp, byBlockNumber, nNumErrors, scrc,    \* the sender's variables
  sent,          \* *sent when xymodem_send has returned
  rst,           \* where the receiver is: start, receive, end, done
  pos, bn, reallen, nConsecErrors, lastcan, nNumStartTries,
  ok, stopped,   \* ok; done, set by ESC before the first block
  rfile,         \* the units the receiver has written
  received,      \* *received when xymodem_receive has returned
  fwd, rep,      \* the line, towards the receiver and back
  carrier,       \* the line is there
  faults,        \* faults so far
  stale,         \* ghost: an ACK was taken for that of another block
  fake,          \* ghost: the line made up an end of file
  hostile        \* ghost: more happened than losses and damage

args == <<protocol, lFileSize, prompt, lost, mangled>>
line == <<fwd, rep, carrier, faults>>
svars == <<sst, waiting, cp, byBlockNumber, nNumErrors, scrc, sent>>
rvars == <<rst, pos, bn, reallen, nConsecErrors, lastcan, nNumStartTries,
           ok, stopped, rfile, received>>
ghosts == <<stale, fake, hostile>>
Protocols == {"XMODEM", "XMODEMCRC", "YMODEM"}
use_ymodem == protocol = "YMODEM"       \* xymodem_send's argument
rcrc == protocol # "XMODEM"             \* xymodem_receive's use_crc

vars == <<args, svars, rvars, line, ghosts>>

\* What goes to the receiver: a block, as send_block sends it, or a single
\* character.  "bad" is a block whose number, complement, length or check
\* sum came out wrong; "junk" is a character with no meaning.
Block(kind, num, at, size, crc) ==
  [kind |-> kind, num |-> num, at |-> at, size |-> size, crc |-> crc]
Char(kind) == Block(kind, 0, 0, 0, FALSE)

\* What comes back: a character, with the position of the block it answers
\* (ghost; -1 is the header, -2 nothing in particular).
Answer(ch, for) == [ch |-> ch, for |-> for]
Chars == {"ACK", "NAK", "CAN", "C", "junk"}
HeaderAt == -1
NoBlock == -2

\* A character put on the line; it vanishes when the carrier or the room is
\* gone, or when nobody at the other end reads any more.
Put(q, m, read) ==
  IF carrier /\ read /\ Len(q) < LineCap THEN Append(q, m) ELSE q

ToReceiver(m) == fwd' = Put(fwd, m, rst # "done")
ToSender(ch, for) == rep' = Put(rep, Answer(ch, for), sst # "done")

\* purgeIn: everything that has arrived is dropped, what is under way is not.
Purged(q) == {SubSeq(q, k, Len(q)) : k \in 1..Len(q) + 1}

\* Nothing is under way to an end that listens, nor about to be.
Quiet == /\ fwd = <<>> \/ rst = "done"
         /\ sst = "done" \/ (rep = <<>> /\ waiting)
MayTimeOut == prompt => Quiet

Init ==
  /\ protocol \in Protocols
  /\ prompt \in BOOLEAN
  /\ \E n \in Lengths : lFileSize = IF n = 0 THEN 1 ELSE n
  /\ lost \in Wires
  /\ mangled \in Mangles /\ (lost = {} => mangled = {})
  /\ sst = "start" /\ waiting = TRUE
  /\ cp = 0 /\ byBlockNumber = 1 /\ nNumErrors = 0 /\ scrc = FALSE
  /\ sent = "open"
  /\ rst = "start"
  /\ pos = 0 /\ bn = 1 /\ reallen = 0 /\ nConsecErrors = 0 /\ lastcan = FALSE
  /\ nNumStartTries = 0
  /\ ok = TRUE /\ stopped = FALSE
  /\ rfile = <<>> /\ received = "open"
  /\ fwd = <<>> /\ rep = <<>> /\ carrier = TRUE /\ faults = 0
  /\ stale = FALSE /\ fake = FALSE /\ hostile = FALSE

-----------------------------------------------------------------------------
(* xymodem_send *)

\* A block of 1k as long as YMODEM has 128 bytes left, else one of 128.
SizeAt(p) == IF use_ymodem /\ lFileSize - p >= Small THEN Large ELSE Small

\* The line carries a block: its number, the complement of that, what it
\* holds and its check.  A block that the file does not fill ends in NULs.
Carries(at, num, full) ==
  /\ at \notin mangled
  /\ "NUL" \in lost => num \notin {0, BlockMod - 1} /\ full
  /\ "LF" \in lost => num \notin LfNumbers
CarriesHeader == Carries(HeaderAt, 0, FALSE)
CarriesData(p, num) == Carries(p, num, p + SizeAt(p) <= lFileSize)

\* What send_b sends, and how the answer to it is known (ghost).
Outgoing ==
  CASE sst = "header" -> Block("header", 0, 0, lFileSize, scrc)
    [] sst = "block"  -> Block("data", byBlockNumber, cp, SizeAt(cp), scrc)
    [] sst = "cancel" -> Char("can")
    [] sst = "eot"    -> Char("eot")
Awaited == CASE sst = "header" -> HeaderAt
             [] sst = "block"  -> cp
             [] OTHER          -> NoBlock

\* What of it comes out of the line.
Arrives ==
  IF \/ sst = "header" /\ ~CarriesHeader
     \/ sst = "block" /\ ~CarriesData(cp, byBlockNumber)
  THEN Char("bad") ELSE Outgoing

\* xymodem_send returns.
SendEnds(result) ==
  /\ sst' = "done" /\ sent' = result
  /\ waiting' = FALSE
  /\ UNCHANGED <<cp, byBlockNumber, nNumErrors>>

\* The next call of send_b.
SendNext(st) ==
  /\ sst' = st /\ waiting' = FALSE /\ nNumErrors' = 0
  /\ UNCHANGED sent

\* okstart: C or NAK starts the transfer, CAN ends it, the rest is ignored.
StartAnswer ==
  /\ sst = "start" /\ rep # <<>>
  /\ rep' = Tail(rep)
  /\ \/ /\ Head(rep).ch \in {"C", "NAK"}
        /\ SendNext(IF use_ymodem THEN "header" ELSE "block")
        /\ scrc' = (Head(rep).ch = "C")
        /\ UNCHANGED <<cp, byBlockNumber>>
     \/ Head(rep).ch = "CAN" /\ SendEnds("failed") /\ UNCHANGED scrc
     \/ Head(rep).ch \notin {"C", "NAK", "CAN"} /\ UNCHANGED svars
  /\ UNCHANGED <<args, rvars, fwd, carrier, faults, ghosts>>

\* Ninety seconds without a start.
StartTimeout ==
  /\ sst = "start" /\ SendEnds("failed")
  /\ prompt => Quiet /\ rst = "done"
  /\ UNCHANGED <<scrc, args, rvars, line, ghosts>>

\* send_block.  After a block, and before the first CAN, what has come in is
\* dropped.
SendBlock ==
  /\ sst \in {"header", "block", "cancel", "eot"} /\ ~waiting
  /\ ToReceiver(Arrives)
  /\ IF sst \in {"header", "block"} \/ (sst = "cancel" /\ nNumErrors = 0)
     THEN rep' \in Purged(rep)
     ELSE rep' = rep
  /\ waiting' = TRUE
  /\ UNCHANGED <<args, rvars, sst, cp, byBlockNumber, nNumErrors, scrc, sent,
                 carrier, faults, ghosts>>

\* mutant: the block number is counted on past 255.
AckedNoWrap ==
  CASE sst = "header" -> SendNext("block") /\ UNCHANGED <<cp, byBlockNumber>>
    [] sst = "block" ->
         /\ cp' = cp + SizeAt(cp)
         /\ byBlockNumber' = byBlockNumber + 1
         /\ SendNext(IF cp' < lFileSize THEN "block" ELSE "eot")
    [] sst = "cancel" -> SendEnds("failed")
    [] sst = "eot" -> SendEnds("sent")

\* send_b returns ACK.
Acked ==
  CASE sst = "header" -> SendNext("block") /\ UNCHANGED <<cp, byBlockNumber>>
    [] sst = "block" ->
         /\ cp' = cp + SizeAt(cp)
         /\ byBlockNumber' = (byBlockNumber + 1) % BlockMod
         /\ SendNext(IF cp' < lFileSize THEN "block" ELSE "eot")
    [] sst = "cancel" -> SendEnds("failed")
    [] sst = "eot" -> SendEnds("sent")

\* send_b gives up: the receiver is told with a CAN, but after an EOT the
\* result is not looked at.
GivenUp ==
  CASE sst \in {"header", "block"} ->
         SendNext("cancel") /\ UNCHANGED <<cp, byBlockNumber>>
    [] sst = "cancel" -> SendEnds("failed")
    [] sst = "eot" -> SendEnds("sent")

\* mutant: errors are not counted.
SendErrorUncounted ==
  /\ waiting' = FALSE
  /\ UNCHANGED <<sst, cp, byBlockNumber, nNumErrors, sent>>

\* No answer, or neither ACK nor CAN: once more, up to the ninth time.
SendError ==
  IF nNumErrors + 1 >= MaxSendErrors
  THEN GivenUp
  ELSE /\ waiting' = FALSE /\ nNumErrors' = nNumErrors + 1
       /\ UNCHANGED <<sst, cp, byBlockNumber, sent>>

\* The position send_b is called with: that of the block, the length of the
\* file with the header, and 0 otherwise.
PosArgument == CASE sst = "header" -> lFileSize
                 [] sst = "block"  -> cp
                 [] OTHER          -> 0

\* send_b: an answer.
SendAnswer ==
  /\ sst \in {"header", "block", "cancel", "eot"} /\ waiting /\ rep # <<>>
  /\ rep' = Tail(rep)
  /\ \/ /\ Head(rep).ch = "ACK"
        /\ Acked
        /\ stale' = (stale \/ (sst \in {"header", "block"}
                                 /\ Head(rep).for # Awaited))
     \/ /\ Head(rep).ch = "CAN"
        /\ SendEnds(IF sst = "eot" THEN "sent" ELSE "failed")
        /\ UNCHANGED stale
     \/ /\ Head(rep).ch \notin {"ACK", "CAN"}
        /\ SendError
        /\ UNCHANGED stale
  /\ scrc' = (scrc \/ (Head(rep).ch = "C" /\ PosArgument = 0))
  /\ UNCHANGED <<args, rvars, fwd, carrier, faults, fake, hostile>>

\* send_b: five seconds without an answer.
SendTimeout ==
  /\ sst \in {"header", "block", "cancel", "eot"} /\ waiting /\ MayTimeOut
  /\ SendError
  /\ UNCHANGED <<scrc, args, rvars, line, ghosts>>

\* gettimeout sees ESC at the sender's keyboard: one CAN if a block was under
\* way and its answer has not come in the meantime.  A key that bkbhitraw sees
\* first is read as a character of the line: Noise.
SendEscape ==
  /\ sst # "done" /\ waiting /\ faults < MaxFaults
  /\ faults' = faults + 1 /\ hostile' = TRUE
  /\ SendEnds("failed")
  /\ \/ sst \in {"header", "block"} /\ ToReceiver(Char("can"))
     \/ /\ sst \in {"header", "block"} => rep # <<>> /\ Head(rep).ch \in {"ACK", "CAN"}
        /\ UNCHANGED fwd
  /\ UNCHANGED <<scrc, args, rvars, rep, carrier, stale, fake>>

\* The sender sees that the carrier is lost.  When it was waiting for the
\* answer to an EOT, or when what it waited for has come all the same,
\* xymodem_send leaves its loop without abort and reports the file as sent.
HangupIsSent ==
  \/ sst = "eot"
  \/ /\ waiting /\ rep # <<>>
     /\ \/ sst = "start" /\ Head(rep).ch \in {"C", "NAK"}
        \/ sst \in {"header", "block"} /\ Head(rep).ch = "ACK"

SendHangup ==
  /\ sst # "done" /\ ~carrier
  /\ SendEnds(IF HangupIsSent THEN "sent" ELSE "failed")
  /\ UNCHANGED <<scrc, args, rvars, line, ghosts>>

Sender == StartAnswer \/ StartTimeout \/ SendBlock \/ SendAnswer
            \/ SendTimeout \/ SendHangup

-----------------------------------------------------------------------------
(* xymodem_receive *)

\* C or NAK, ten times at most, until a character comes.
StartTry ==
  /\ rst = "start" /\ nNumStartTries < MaxStartTries
  /\ MayTimeOut \/ nNumStartTries = 0
  /\ nNumStartTries' = nNumStartTries + 1
  /\ ToSender(IF rcrc THEN "C" ELSE "NAK", NoBlock)
  /\ UNCHANGED <<args, svars, rst, pos, bn, reallen, nConsecErrors, lastcan, ok,
                 stopped, rfile, received, fwd, carrier, faults, ghosts>>

StartGivesUp ==
  /\ rst = "start" /\ nNumStartTries = MaxStartTries /\ MayTimeOut
  /\ rst' = "done" /\ received' = "failed" /\ fwd' = <<>>
  /\ nNumStartTries' = nNumStartTries + 1
  /\ UNCHANGED <<args, svars, pos, bn, reallen, nConsecErrors, lastcan, ok,
                 stopped, rfile, rep, carrier, faults, ghosts>>

StartHeard ==
  /\ rst = "start" /\ nNumStartTries > 0 /\ (fwd # <<>> \/ ~carrier)
  /\ rst' = "receive"
  /\ UNCHANGED <<args, svars, pos, bn, reallen, nConsecErrors, lastcan, ok,
                 nNumStartTries, stopped, rfile, received, line, ghosts>>

\* ESC at the receiver's keyboard before the first block: done is set, but
\* the loop that waits for the first character does not look at it.
StartEscape ==
  /\ rst = "start" /\ nNumStartTries > 0 /\ faults < MaxFaults
  /\ faults' = faults + 1 /\ hostile' = TRUE
  /\ ok' = FALSE /\ stopped' = TRUE
  /\ UNCHANGED <<args, svars, rst, pos, bn, reallen, nConsecErrors, lastcan,
                 nNumStartTries, rfile, received, fwd, rep, carrier, stale, fake>>

\* The end of the receive loop's body.
LoopEnd(done, success) ==
  /\ rst' = IF done \/ stopped THEN "end" ELSE "receive"
  /\ ok' = (ok /\ success)

\* receive_block takes the next thing on the line.
Takes(kinds) ==
  /\ rst = "receive" /\ fwd # <<>> /\ Head(fwd).kind \in kinds
  /\ UNCHANGED <<args, svars, nNumStartTries, stopped, received, carrier, faults,
                 ghosts>>

\* A block that came whole, with the check sum or CRC the receiver expects.
TakesBlock ==
  /\ Takes({"header", "data"}) /\ Head(fwd).crc = rcrc
  /\ fwd' = Tail(fwd)
  /\ nConsecErrors' = 0 /\ lastcan' = FALSE

\* mutant: the block that is number 0 again, after 255, is taken for the header.
IsHeaderAgain == Head(fwd).num = 0

IsHeader == Head(fwd).num = 0 /\ pos = 0

\* Block 0 at the start of the file: the header with the length.
TakeHeader ==
  /\ TakesBlock /\ IsHeader
  /\ reallen' = Head(fwd).size
  /\ ToSender("ACK", IF Head(fwd).kind = "header" THEN HeaderAt ELSE Head(fwd).at)
  /\ LoopEnd(FALSE, TRUE)
  /\ UNCHANGED <<pos, bn, rfile>>

IsNext == Head(fwd).num = bn % BlockMod

\* A block is clipped to the length in the header, when there was one.
Clipped(n) == IF reallen # 0 /\ n > reallen - pos THEN reallen - pos ELSE n

\* The block that comes next is written.
TakeNext ==
  /\ TakesBlock /\ ~IsHeader /\ IsNext
  /\ LET n == Clipped(Head(fwd).size)
     IN  /\ rfile' = rfile \o [i \in 1..n |-> Head(fwd).at + i - 1]
         /\ pos' = pos + n
  /\ bn' = bn + 1
  /\ ToSender("ACK", Head(fwd).at)
  /\ LoopEnd(FALSE, TRUE)
  /\ UNCHANGED reallen

\* mutant: a block written before is out of order.
IsRepeatedNever == FALSE

IsRepeated == Head(fwd).num = (bn - 1) % BlockMod

\* A block written before is acknowledged again.
TakeRepeated ==
  /\ TakesBlock /\ ~IsHeader /\ ~IsNext /\ IsRepeated
  /\ ToSender("ACK", Head(fwd).at)
  /\ LoopEnd(FALSE, TRUE)
  /\ UNCHANGED <<pos, bn, reallen, rfile>>

\* Any other block is the end.
TakeOutOfOrder ==
  /\ TakesBlock /\ ~IsHeader /\ ~IsNext /\ ~IsRepeated
  /\ ToSender("CAN", NoBlock)
  /\ LoopEnd(TRUE, FALSE)
  /\ UNCHANGED <<pos, bn, reallen, rfile>>

\* A damaged block or five seconds of silence: asked for again, ten times.
BlockError ==
  /\ nConsecErrors' = nConsecErrors + 1 /\ lastcan' = FALSE
  /\ LET again == Answer(IF pos = 0 /\ reallen = 0 /\ rcrc THEN "C" ELSE "NAK", NoBlock)
         asked == Put(rep, again, sst # "done")
     IN  IF nConsecErrors' > MaxConsecErrors
         THEN /\ rep' = Put(asked, Answer("CAN", NoBlock), sst # "done")
              /\ LoopEnd(TRUE, FALSE)
         ELSE /\ rep' = asked
              /\ LoopEnd(FALSE, TRUE)
  /\ UNCHANGED <<pos, bn, reallen, rfile>>

TakeBad ==
  /\ Takes({"bad", "header", "data"})
  /\ Head(fwd).kind = "bad" \/ Head(fwd).crc # rcrc
  /\ fwd' = Tail(fwd)
  /\ BlockError

ReceiveTimeout ==
  /\ rst = "receive" /\ MayTimeOut
  /\ BlockError
  /\ UNCHANGED <<args, svars, nNumStartTries, stopped, received, fwd, carrier,
                 faults, ghosts>>

\* One CAN may be noise; the second in a row is believed.
TakeCan ==
  /\ Takes({"can"}) /\ fwd' = Tail(fwd)
  /\ ToSender(IF lastcan THEN "ACK" ELSE "NAK", NoBlock)
  /\ LoopEnd(lastcan, ~lastcan)
  /\ lastcan' = TRUE
  /\ UNCHANGED <<pos, bn, reallen, nConsecErrors, rfile>>

\* The first EOT is believed: lasteot is set before it is tested.
TakeEot ==
  /\ Takes({"eot"}) /\ fwd' = Tail(fwd)
  /\ ToSender("ACK", NoBlock)
  /\ LoopEnd(TRUE, TRUE)
  /\ lastcan' = FALSE
  /\ UNCHANGED <<pos, bn, reallen, nConsecErrors, rfile>>

\* Anything else: what has come in is dropped.
TakeJunk ==
  /\ Takes({"junk"})
  /\ fwd' \in Purged(Tail(fwd))
  /\ LoopEnd(FALSE, TRUE)
  /\ lastcan' = FALSE
  /\ UNCHANGED <<pos, bn, reallen, nConsecErrors, rfile, rep>>

\* ESC at the receiver's keyboard: CAN, and the file is given up.
ReceiveEscape ==
  /\ rst = "receive" /\ faults < MaxFaults
  /\ faults' = faults + 1 /\ hostile' = TRUE
  /\ ToSender("CAN", NoBlock)
  /\ LoopEnd(TRUE, FALSE)
  /\ lastcan' = FALSE
  /\ UNCHANGED <<args, svars, nNumStartTries, stopped, received, pos, bn, reallen,
                 nConsecErrors, rfile, fwd, carrier, stale, fake>>

\* The receiver sees that the carrier is lost: one more error, which ends the
\* loop with ok as it was -- TRUE, unless that error was one too many.
ReceiveHangup ==
  /\ rst = "receive" /\ ~carrier
  /\ nConsecErrors' = nConsecErrors + 1 /\ lastcan' = FALSE
  /\ LoopEnd(TRUE, nConsecErrors' <= MaxConsecErrors)
  /\ UNCHANGED <<args, svars, nNumStartTries, stopped, received, pos, bn, reallen,
                 rfile, line, ghosts>>

\* The file is kept or deleted, and xymodem_receive returns.  rfile goes on
\* saying what was written, to a file that is deleted too; what is still on
\* the line goes to whatever reads next.
ReceiveEnds ==
  /\ rst = "end"
  /\ rst' = "done" /\ fwd' = <<>>
  /\ received' = IF ok THEN "received" ELSE "failed"
  /\ UNCHANGED <<args, svars, pos, bn, reallen, nConsecErrors, lastcan, ok,
                 nNumStartTries, stopped, rfile, rep, carrier, faults, ghosts>>

Receiver ==
  \/ StartTry \/ StartGivesUp \/ StartHeard
  \/ TakeHeader \/ TakeNext \/ TakeRepeated \/ TakeOutOfOrder \/ TakeBad
  \/ ReceiveTimeout \/ TakeCan \/ TakeEot \/ TakeJunk
  \/ ReceiveHangup \/ ReceiveEnds

-----------------------------------------------------------------------------
(* The line and the keyboards *)

\* Something on the line is lost.
Lose ==
  /\ \/ \E i \in DOMAIN fwd : fwd' = RemoveAt(fwd, i) /\ UNCHANGED rep
     \/ \E i \in DOMAIN rep : rep' = RemoveAt(rep, i) /\ UNCHANGED fwd
  /\ UNCHANGED <<carrier, fake, hostile>>

\* A block or an answer is damaged.
Damage ==
  /\ \/ \E i \in DOMAIN fwd :
          /\ fwd[i].kind \in {"header", "data"}
          /\ fwd' = [fwd EXCEPT ![i] = Char("bad")]
          /\ UNCHANGED rep
     \/ \E i \in DOMAIN rep :
          rep' = [rep EXCEPT ![i] = Answer("junk", NoBlock)] /\ UNCHANGED fwd
  /\ UNCHANGED <<carrier, fake, hostile>>

\* A character from nowhere, or typed at the keyboard of either end, which
\* bgetchraw reads when nothing has come in.  An end of file is believed.
Noise ==
  /\ \/ /\ \E ch \in {"junk", "can", "eot", "bad"} :
              /\ ToReceiver(Char(ch))
              /\ fake' = (fake \/ ch = "eot")
        /\ UNCHANGED rep
     \/ /\ \E ch \in Chars : ToSender(ch, NoBlock)
        /\ UNCHANGED <<fwd, fake>>
  /\ hostile' = TRUE
  /\ UNCHANGED carrier

LoseCarrier ==
  /\ carrier /\ carrier' = FALSE /\ hostile' = TRUE
  /\ UNCHANGED <<fwd, rep, fake>>

Fault ==
  /\ faults < MaxFaults /\ faults' = faults + 1
  /\ Lose \/ Damage \/ Noise \/ LoseCarrier
  /\ UNCHANGED <<args, svars, rvars, stale>>

Next == Sender \/ Receiver \/ SendEscape \/ StartEscape \/ ReceiveEscape \/ Fault

Spec == Init /\ [][Next]_vars

\* Both programs run; nobody has to press a key and the line need not fail.
FairSpec == Spec /\ WF_vars(Sender) /\ WF_vars(Receiver)

-----------------------------------------------------------------------------
(* Properties *)

Kinds == {"header", "data", "can", "eot", "bad", "junk"}

\* Types, with the bounds the code relies on: the block number fits a byte,
\* and neither error count passes its limit.
TypeOK ==
  /\ protocol \in Protocols /\ prompt \in BOOLEAN
  /\ lFileSize \in Nat \ {0} /\ lost \in Wires /\ mangled \in Mangles
  /\ sst \in {"start", "header", "block", "cancel", "eot", "done"}
  /\ waiting \in BOOLEAN /\ scrc \in BOOLEAN
  /\ cp \in Nat /\ byBlockNumber \in 0..BlockMod - 1
  /\ nNumErrors \in 0..MaxSendErrors - 1
  /\ sent \in {"open", "sent", "failed"}
  /\ rst \in {"start", "receive", "end", "done"}
  /\ pos \in Nat /\ bn \in Nat \ {0} /\ reallen \in Nat
  /\ nConsecErrors \in 0..MaxConsecErrors + 1
  /\ lastcan \in BOOLEAN /\ ok \in BOOLEAN /\ stopped \in BOOLEAN
  /\ nNumStartTries \in 0..MaxStartTries + 1
  /\ rfile \in Seq(Nat)
  /\ received \in {"open", "received", "failed"}
  /\ fwd \in Seq([kind : Kinds, num : 0..BlockMod - 1, at : Nat, size : Nat,
                   crc : BOOLEAN])
  /\ rep \in Seq([ch : Chars, for : Nat \cup {HeaderAt, NoBlock}])
  /\ carrier \in BOOLEAN /\ faults \in 0..MaxFaults
  /\ stale \in BOOLEAN /\ fake \in BOOLEAN /\ hostile \in BOOLEAN

\* The transfer implements what FileCopy promises: blocks lost, repeated,
\* damaged or late never put a unit in the wrong place, and neither end
\* reports the file unless all of it was written -- but for an ACK taken for
\* that of another block, an EOT made up by the line, and a lost carrier.
Copying == INSTANCE FileCopy WITH
  MaxUnits <- Large, need <- lFileSize, copy <- rfile, outcome <- received,
  claim <- sent, spoiled <- stale \/ fake \/ ~carrier

CopyingSpec == Copying!Spec

\* Both calls return, whatever the line does.
Ends == <>(sst = "done" /\ rst = "done")

\* Every block that the file is sent as comes through.
CarriesFile ==
  /\ use_ymodem => CarriesHeader
  /\ LET stride == IF use_ymodem THEN Large ELSE Small
     IN  \A k \in 0..(lFileSize - 1) \div stride :
           CarriesData(k * stride, (k + 1) % BlockMod)

\* When nothing is late and the line does no worse than lose and damage (as
\* often as the retries allow), both ends report the same: that the file is
\* there, and it is, when the line carries all its blocks; that it is not,
\* when it does not carry one of them.
PromptOutcome ==
  prompt => <>(\/ hostile
               \/ /\ CarriesFile /\ Len(rfile) >= lFileSize
                  /\ sent = "sent" /\ received = "received"
               \/ ~CarriesFile /\ sent = "failed" /\ received = "failed")
=============================================================================
