--------------------------- MODULE XYModem_proofs ---------------------------
(***************************************************************************)
(* Proofs about XYModem: types for every size of a byte and any number of  *)
(* errors, and that the transfer implements FileCopy for files of less     *)
(* than a round of block numbers, whatever the line does.                  *)
(***************************************************************************)
EXTENDS XYModem, SequenceTheorems, TLAPS

Blocks == [kind : Kinds, num : 0..BlockMod - 1, at : Nat, size : Nat, crc : BOOLEAN]
Answers == [ch : Chars, for : Nat \cup {HeaderAt, NoBlock}]

ArgsOK ==
  /\ protocol \in Protocols /\ prompt \in BOOLEAN
  /\ lFileSize \in Nat \ {0} /\ lost \in Wires /\ mangled \in Mangles

SenderOK ==
  /\ sst \in {"start", "header", "block", "cancel", "eot", "done"}
  /\ waiting \in BOOLEAN /\ scrc \in BOOLEAN
  /\ cp \in Nat /\ byBlockNumber \in 0..BlockMod - 1
  /\ nNumErrors \in 0..MaxSendErrors - 1
  /\ sent \in {"open", "sent", "failed"}

\* As long as the receiver goes on it has not passed its limit of errors, and
\* it has not written more than the header announces.
ReceiverOK ==
  /\ rst \in {"start", "receive", "end", "done"}
  /\ pos \in Nat /\ bn \in Nat \ {0} /\ reallen \in Nat
  /\ reallen # 0 => pos <= reallen
  /\ nConsecErrors \in 0..MaxConsecErrors + 1
  /\ rst \in {"start", "receive"} => nConsecErrors <= MaxConsecErrors
  /\ lastcan \in BOOLEAN /\ ok \in BOOLEAN /\ stopped \in BOOLEAN
  /\ nNumStartTries \in 0..MaxStartTries + 1
  /\ rfile \in Seq(Nat)
  /\ received \in {"open", "received", "failed"}

FwdOK == fwd \in Seq(Blocks)
RepOK == rep \in Seq(Answers)
RestOK ==
  /\ carrier \in BOOLEAN /\ faults \in 0..MaxFaults
  /\ stale \in BOOLEAN /\ fake \in BOOLEAN /\ hostile \in BOOLEAN

IType == ArgsOK /\ SenderOK /\ ReceiverOK /\ FwdOK /\ RepOK /\ RestOK

-----------------------------------------------------------------------------
(* What is put on the line and taken off it.                               *)

\* A character is put on the line, or vanishes.
LEMMA PutOK ==
  ASSUME NEW S, NEW q \in Seq(S), NEW m \in S, NEW read
  PROVE  Put(q, m, read) \in Seq(S)
BY DEF Put

\* purgeIn leaves the end of what was there.
LEMMA PurgedOK ==
  ASSUME NEW S, NEW q \in Seq(S), NEW p \in Purged(q)
  PROVE  p \in Seq(S)
<1>1. PICK k \in 1..Len(q) + 1 : p = SubSeq(q, k, Len(q))
  BY DEF Purged
<1>2. \A i \in k..Len(q) : q[i] \in S
  BY ElementOfSeq
<1> QED BY <1>1, <1>2, SubSeqProperties

\* Something on the line is lost.
LEMMA RemovedOK ==
  ASSUME NEW S, NEW q \in Seq(S), NEW i \in DOMAIN q
  PROVE  RemoveAt(q, i) \in Seq(S)
<1>1. i \in 1..Len(q) /\ Len(q) \in Nat
  OBVIOUS
<1>2. \A k \in 1..Len(q) : q[k] \in S
  BY ElementOfSeq
<1>3. SubSeq(q, 1, i - 1) \in Seq(S)
  BY <1>1, <1>2, SubSeqProperties
<1>4. SubSeq(q, i + 1, Len(q)) \in Seq(S)
  BY <1>1, <1>2, SubSeqProperties
<1> QED BY <1>3, <1>4, ConcatProperties DEF RemoveAt

\* The next thing on the line.
LEMMA TakenOK ==
  ASSUME NEW S, NEW q \in Seq(S), q # <<>>
  PROVE  Head(q) \in S /\ Tail(q) \in Seq(S)
BY HeadTailProperties

\* The characters are what they should be.
LEMMA CharsOK ==
  /\ \A k \in {"can", "eot", "bad", "junk"} : Char(k) \in Blocks
  /\ \A ch \in Chars : Answer(ch, NoBlock) \in Answers /\ Answer(ch, HeaderAt) \in Answers
  /\ \A a \in Nat : Answer("ACK", a) \in Answers
  /\ {"ACK", "NAK", "CAN", "C", "junk"} = Chars
<1>1. 0 \in 0..BlockMod - 1
  BY BlockModAssumption
<1>2. \A k \in {"can", "eot", "bad", "junk"} : Char(k) \in Blocks
  BY <1>1 DEF Char, Block, Blocks, Kinds
<1>3. /\ \A ch \in Chars : /\ Answer(ch, NoBlock) \in Answers
                           /\ Answer(ch, HeaderAt) \in Answers
      /\ \A a \in Nat : Answer("ACK", a) \in Answers
  BY DEF Answer, Answers, Chars
<1> QED BY <1>2, <1>3 DEF Chars

\* Sizes are positive.
LEMMA SizeAtOK ==
  ASSUME NEW p \in Nat
  PROVE  SizeAt(p) \in Nat \ {0} /\ SizeAt(p) \in {Small, Large}
BY SizeAssumption DEF SizeAt

-----------------------------------------------------------------------------
(* The sender.                                                             *)

LEMMA SendEndsOK ==
  ASSUME IType, NEW r \in {"sent", "failed"}, SendEnds(r), scrc' \in BOOLEAN
  PROVE  SenderOK'
BY DEF IType, SenderOK, SendEnds

\* ACK: the next block, the end of file, or the end.
LEMMA AckedOK ==
  ASSUME IType, sst \in {"header", "block", "cancel", "eot"}, Acked, scrc' \in BOOLEAN
  PROVE  SenderOK'
<1> USE DEF IType
<1>0. 0 \in 0..MaxSendErrors - 1
  BY TriesAssumption
<1>1. CASE sst = "header"
  BY <1>0, <1>1 DEF Acked, SendNext, SenderOK
<1>2. CASE sst = "block"
  <2>1. (byBlockNumber + 1) % BlockMod \in 0..BlockMod - 1
    BY BlockModAssumption DEF SenderOK
  <2>2. cp + SizeAt(cp) \in Nat
    BY SizeAtOK DEF SenderOK
  <2>3. /\ cp' = cp + SizeAt(cp) /\ byBlockNumber' = (byBlockNumber + 1) % BlockMod
        /\ sst' \in {"block", "eot"} /\ waiting' = FALSE /\ nNumErrors' = 0 /\ sent' = sent
    BY <1>2 DEF Acked, SendNext
  <2> QED BY <1>0, <2>1, <2>2, <2>3 DEF SenderOK
<1>3. CASE sst \in {"cancel", "eot"}
  <2>1. \E r \in {"sent", "failed"} : SendEnds(r)
    BY <1>3 DEF Acked
  <2> QED BY <2>1, SendEndsOK
<1> QED BY <1>1, <1>2, <1>3

\* No ACK: again, or the sender gives up.
LEMMA SendErrorOK ==
  ASSUME IType, sst \in {"header", "block", "cancel", "eot"}, SendError, scrc' \in BOOLEAN
  PROVE  SenderOK'
<1> USE DEF IType
<1>0. 0 \in 0..MaxSendErrors - 1
  BY TriesAssumption
<1>1. CASE nNumErrors + 1 >= MaxSendErrors
  <2>1. CASE sst \in {"header", "block"}
    BY <1>0, <1>1, <2>1 DEF SendError, GivenUp, SendNext, SenderOK
  <2>2. CASE sst \in {"cancel", "eot"}
    <3>1. \E r \in {"sent", "failed"} : SendEnds(r)
      BY <1>1, <2>2 DEF SendError, GivenUp
    <3> QED BY <3>1, SendEndsOK
  <2> QED BY <2>1, <2>2
<1>2. CASE ~(nNumErrors + 1 >= MaxSendErrors)
  <2>1. nNumErrors + 1 \in 0..MaxSendErrors - 1
    BY <1>2, TriesAssumption DEF SenderOK
  <2>2. /\ nNumErrors' = nNumErrors + 1 /\ waiting' = FALSE
        /\ UNCHANGED <<sst, cp, byBlockNumber, sent>>
    BY <1>2 DEF SendError
  <2> QED BY <2>1, <2>2 DEF SenderOK
<1> QED BY <1>1, <1>2

\* What send_b sends is a block or a character.
LEMMA OutgoingOK ==
  ASSUME IType, sst \in {"header", "block", "cancel", "eot"}
  PROVE  Outgoing \in Blocks
<1> USE DEF IType
<1>1. CASE sst = "header"
  BY <1>1, BlockModAssumption DEF Outgoing, Block, Blocks, Kinds, ArgsOK, SenderOK
<1>2. CASE sst = "block"
  BY <1>2, SizeAtOK DEF Outgoing, Block, Blocks, Kinds, SenderOK
<1>3. CASE sst \in {"cancel", "eot"}
  BY <1>3, CharsOK DEF Outgoing
<1> QED BY <1>1, <1>2, <1>3

\* What comes out of the line is that, or a block that cannot be read.
LEMMA ArrivesOK ==
  ASSUME IType, sst \in {"header", "block", "cancel", "eot"}
  PROVE  Arrives \in Blocks
BY OutgoingOK, CharsOK DEF Arrives

LEMMA SenderTypes ==
  ASSUME IType, Sender \/ SendEscape
  PROVE  IType'
<1> USE DEF IType
<1>1. CASE StartAnswer
  <2>1. Tail(rep) \in Seq(Answers)
    BY <1>1, TakenOK DEF StartAnswer, RepOK
  <2>2. SenderOK'
    <3>1. CASE Head(rep).ch \in {"C", "NAK"}
      <4>1. /\ sst' \in {"header", "block"} /\ waiting' = FALSE /\ nNumErrors' = 0
            /\ UNCHANGED <<sent, cp, byBlockNumber>> /\ scrc' \in BOOLEAN
        BY <1>1, <3>1 DEF StartAnswer, SendNext, svars, SendEnds
      <4>2. 0 \in 0..MaxSendErrors - 1
        BY TriesAssumption
      <4> QED BY <4>1, <4>2 DEF SenderOK
    <3>2. CASE Head(rep).ch = "CAN"
      <4>1. SendEnds("failed") /\ scrc' = scrc
        BY <1>1, <3>2 DEF StartAnswer
      <4> QED BY <4>1, SendEndsOK DEF SenderOK
    <3>3. CASE Head(rep).ch \notin {"C", "NAK", "CAN"}
      BY <1>1, <3>3 DEF StartAnswer, svars, SenderOK
    <3> QED BY <3>1, <3>2, <3>3
  <2> QED BY <1>1, <2>1, <2>2
          DEF StartAnswer, args, rvars, ghosts, ArgsOK, ReceiverOK, FwdOK, RepOK, RestOK
<1>2. CASE StartTimeout \/ SendHangup
  <2>1. scrc' = scrc /\ \E r \in {"sent", "failed"} : SendEnds(r)
    BY <1>2 DEF StartTimeout, SendHangup
  <2>2. SenderOK'
    BY <2>1, SendEndsOK DEF SenderOK
  <2>3. UNCHANGED <<args, rvars, line, ghosts>>
    BY <1>2 DEF StartTimeout, SendHangup
  <2> QED BY <2>2, <2>3 DEF args, rvars, line, ghosts, ArgsOK, ReceiverOK, FwdOK, RepOK,
          RestOK
<1>3. CASE SendBlock
  <2>1. FwdOK'
    BY <1>3, PutOK, ArrivesOK DEF SendBlock, ToReceiver, FwdOK
  <2>2. RepOK'
    BY <1>3, PurgedOK DEF SendBlock, RepOK
  <2> QED BY <1>3, <2>1, <2>2
          DEF SendBlock, args, rvars, ghosts, ArgsOK, SenderOK, ReceiverOK, RestOK
<1>4. CASE SendAnswer
  <2>1. Tail(rep) \in Seq(Answers)
    BY <1>4, TakenOK DEF SendAnswer, RepOK
  <2>2. scrc' \in BOOLEAN /\ stale' \in BOOLEAN
    BY <1>4 DEF SendAnswer, RestOK, SenderOK
  <2>3. SenderOK'
    <3>1. CASE Acked
      BY <1>4, <2>2, <3>1, AckedOK DEF SendAnswer
    <3>2. CASE \E r \in {"sent", "failed"} : SendEnds(r)
      BY <2>2, <3>2, SendEndsOK
    <3>3. CASE SendError
      BY <1>4, <2>2, <3>3, SendErrorOK DEF SendAnswer
    <3> QED BY <1>4, <3>1, <3>2, <3>3 DEF SendAnswer
  <2> QED BY <1>4, <2>1, <2>2, <2>3
          DEF SendAnswer, args, rvars, ArgsOK, ReceiverOK, FwdOK, RepOK, RestOK
<1>5. CASE SendTimeout
  <2>1. SenderOK'
    BY <1>5, SendErrorOK DEF SendTimeout, SenderOK
  <2> QED BY <1>5, <2>1 DEF SendTimeout, args, rvars, line, ghosts, ArgsOK, ReceiverOK,
          FwdOK, RepOK, RestOK
<1>6. CASE SendEscape
  <2>1. SenderOK'
    BY <1>6, SendEndsOK DEF SendEscape, SenderOK
  <2>2. FwdOK'
    BY <1>6, PutOK, CharsOK DEF SendEscape, ToReceiver, FwdOK
  <2>3. RestOK'
    BY <1>6, BoundAssumption DEF SendEscape, RestOK
  <2> QED BY <1>6, <2>1, <2>2, <2>3
          DEF SendEscape, args, rvars, ArgsOK, ReceiverOK, RepOK
<1> QED BY <1>1, <1>2, <1>3, <1>4, <1>5, <1>6 DEF Sender

-----------------------------------------------------------------------------
(* The receiver.                                                           *)

\* An answer is put on the line.
LEMMA ToSenderOK ==
  ASSUME IType, NEW a \in Answers, rep' = Put(rep, a, sst # "done")
  PROVE  RepOK'
BY PutOK DEF IType, RepOK

\* The next block or character is taken off the line.
LEMMA TakesOK ==
  ASSUME IType, NEW kinds, Takes(kinds)
  PROVE  /\ Head(fwd) \in Blocks /\ Tail(fwd) \in Seq(Blocks)
         /\ ArgsOK' /\ SenderOK' /\ RestOK'
         /\ rst = "receive"
         /\ UNCHANGED <<nNumStartTries, stopped, received>>
BY TakenOK DEF IType, Takes, FwdOK, args, svars, ghosts, ArgsOK, SenderOK, RestOK

\* Nothing but the loop's own variables changes.
LEMMA LoopEndOK ==
  ASSUME IType, NEW done \in BOOLEAN, NEW success \in BOOLEAN, LoopEnd(done, success),
         UNCHANGED <<pos, bn, reallen, rfile, nNumStartTries, stopped, received>>,
         nConsecErrors' \in 0..MaxConsecErrors + 1,
         ~done => nConsecErrors' <= MaxConsecErrors,
         lastcan' \in BOOLEAN
  PROVE  ReceiverOK'
BY DEF IType, LoopEnd, ReceiverOK

\* The next block, clipped or not, is some more of the file.
LEMMA ClippedOK ==
  ASSUME IType, NEW size \in Nat
  PROVE  /\ Clipped(size) \in Nat /\ Clipped(size) <= size
         /\ reallen # 0 => pos + Clipped(size) <= reallen
BY DEF IType, ReceiverOK, Clipped

\* Units written one after the other.
LEMMA UnitsOK ==
  ASSUME NEW a \in Nat, NEW n \in Nat
  PROVE  /\ [i \in 1..n |-> a + i - 1] \in Seq(Nat)
         /\ Len([i \in 1..n |-> a + i - 1]) = n
<1>1. \A i \in 1..n : a + i - 1 \in Nat
  OBVIOUS
<1> QED BY <1>1, IsASeq

LEMMA BlockErrorOK ==
  ASSUME IType, rst = "receive", BlockError, UNCHANGED <<nNumStartTries, stopped, received>>
  PROVE  ReceiverOK' /\ RepOK'
<1> USE DEF IType
<1>1. /\ nConsecErrors' = nConsecErrors + 1 /\ nConsecErrors' \in 0..MaxConsecErrors + 1
      /\ lastcan' = FALSE /\ UNCHANGED <<pos, bn, reallen, rfile>>
  BY TriesAssumption DEF BlockError, ReceiverOK
<1>2. PICK again \in Answers :
        IF nConsecErrors' > MaxConsecErrors
        THEN /\ rep' = Put(Put(rep, again, sst # "done"), Answer("CAN", NoBlock), sst # "done")
             /\ LoopEnd(TRUE, FALSE)
        ELSE /\ rep' = Put(rep, again, sst # "done")
             /\ LoopEnd(FALSE, TRUE)
  BY CharsOK DEF BlockError
<1>3. RepOK'
  BY <1>2, PutOK, CharsOK DEF RepOK
<1>4. ReceiverOK'
  <2>1. CASE nConsecErrors' > MaxConsecErrors
    <3>1. LoopEnd(TRUE, FALSE)
      BY <1>2, <2>1
    <3> QED BY <1>1, <3>1, LoopEndOK
  <2>2. CASE ~(nConsecErrors' > MaxConsecErrors)
    <3>1. LoopEnd(FALSE, TRUE)
      BY <1>2, <2>2
    <3>2. nConsecErrors' <= MaxConsecErrors
      BY <1>1, <2>2, TriesAssumption
    <3> QED BY <1>1, <3>1, <3>2, LoopEndOK
  <2> QED BY <2>1, <2>2
<1> QED BY <1>3, <1>4

LEMMA ReceiverTypes ==
  ASSUME IType, Receiver \/ StartEscape \/ ReceiveEscape
  PROVE  IType'
<1> USE DEF IType
<1>0. 0 \in 0..MaxConsecErrors + 1 /\ 0 <= MaxConsecErrors /\ MaxConsecErrors \in Nat
  BY TriesAssumption
<1>1. CASE StartTry
  <2>1. PICK a \in Answers : rep' = Put(rep, a, sst # "done")
    BY <1>1, CharsOK DEF StartTry, ToSender
  <2>2. RepOK'
    BY <2>1, ToSenderOK
  <2>3. nNumStartTries' \in 0..MaxStartTries + 1
    BY <1>1, TriesAssumption DEF StartTry, ReceiverOK
  <2>4. ReceiverOK'
    BY <1>1, <2>3 DEF StartTry, ReceiverOK
  <2> QED BY <1>1, <2>2, <2>4
          DEF StartTry, args, svars, ghosts, ArgsOK, SenderOK, FwdOK, RestOK
<1>2. CASE StartGivesUp
  <2>1. nNumStartTries' \in 0..MaxStartTries + 1
    BY <1>2, TriesAssumption DEF StartGivesUp
  <2>2. ReceiverOK'
    BY <1>2, <2>1 DEF StartGivesUp, ReceiverOK
  <2>3. fwd' \in Seq(Blocks)
    BY <1>2 DEF StartGivesUp
  <2> QED BY <1>2, <2>2, <2>3
          DEF StartGivesUp, args, svars, ghosts, ArgsOK, SenderOK, FwdOK, RepOK, RestOK
<1>3. CASE StartHeard
  BY <1>3 DEF StartHeard, args, svars, line, ghosts, ArgsOK, SenderOK, ReceiverOK, FwdOK,
     RepOK, RestOK
<1>4. CASE TakeHeader
  <2>1. Takes({"header", "data"}) /\ fwd' = Tail(fwd) /\ nConsecErrors' = 0 /\ lastcan' = FALSE
        /\ reallen' = Head(fwd).size /\ pos = 0 /\ UNCHANGED <<pos, bn, rfile>>
        /\ LoopEnd(FALSE, TRUE)
    BY <1>4 DEF TakeHeader, TakesBlock, IsHeader
  <2>2. RepOK'
    <3>1. /\ Answer("ACK", HeaderAt) \in Answers
          /\ Answer("ACK", Head(fwd).at) \in Answers
      BY <2>1, TakesOK, CharsOK DEF Chars, Blocks
    <3>2. \E a \in Answers : rep' = Put(rep, a, sst # "done")
      BY <1>4, <3>1 DEF TakeHeader, ToSender
    <3> QED BY <3>2, PutOK DEF RepOK
  <2>3. reallen' \in Nat
    BY <2>1, TakesOK DEF Blocks
  <2>4. /\ rst' \in {"end", "receive"} /\ ok' \in BOOLEAN
        /\ UNCHANGED <<nNumStartTries, stopped, received>>
    BY <2>1, TakesOK DEF LoopEnd, ReceiverOK
  <2>5. pos' \in Nat /\ bn' \in Nat \ {0} /\ pos' <= reallen' /\ rfile' \in Seq(Nat)
    BY <2>1, <2>3 DEF ReceiverOK
  <2>6. ReceiverOK'
    BY <1>0, <2>1, <2>3, <2>4, <2>5 DEF ReceiverOK
  <2> QED BY <2>1, <2>2, <2>6, TakesOK DEF FwdOK
<1>5. CASE TakeNext
  <2> DEFINE n == Clipped(Head(fwd).size)
             units == [i \in 1..n |-> Head(fwd).at + i - 1]
  <2>1. Takes({"header", "data"}) /\ fwd' = Tail(fwd) /\ nConsecErrors' = 0 /\ lastcan' = FALSE
        /\ rfile' = rfile \o units /\ pos' = pos + n /\ bn' = bn + 1 /\ reallen' = reallen
        /\ LoopEnd(FALSE, TRUE) /\ rep' = Put(rep, Answer("ACK", Head(fwd).at), sst # "done")
    BY <1>5 DEF TakeNext, TakesBlock, ToSender
  <2>2. Head(fwd).at \in Nat /\ Head(fwd).size \in Nat
    BY <2>1, TakesOK DEF Blocks
  <2>3. n \in Nat /\ (reallen # 0 => pos + n <= reallen)
    BY <2>2, ClippedOK
  <2>4. units \in Seq(Nat)
    BY <2>2, <2>3, UnitsOK
  <2> HIDE DEF n, units
  <2>5. rfile' \in Seq(Nat)
    BY <2>1, <2>4, ConcatProperties DEF ReceiverOK
  <2>6. RepOK'
    BY <2>1, <2>2, ToSenderOK, CharsOK
  <2>7. /\ rst' \in {"end", "receive"} /\ ok' \in BOOLEAN
        /\ UNCHANGED <<nNumStartTries, stopped, received>>
    BY <2>1, TakesOK DEF LoopEnd, ReceiverOK
  <2>8. pos' \in Nat /\ bn' \in Nat \ {0} /\ (reallen' # 0 => pos' <= reallen')
    BY <2>1, <2>3 DEF ReceiverOK
  <2>9. ReceiverOK'
    BY <1>0, <2>1, <2>5, <2>7, <2>8 DEF ReceiverOK
  <2> QED BY <2>1, <2>6, <2>9, TakesOK DEF FwdOK
<1>6. CASE TakeRepeated
  <2>1. Takes({"header", "data"}) /\ fwd' = Tail(fwd) /\ nConsecErrors' = 0 /\ lastcan' = FALSE
        /\ UNCHANGED <<pos, bn, reallen, rfile>>
        /\ LoopEnd(FALSE, TRUE) /\ rep' = Put(rep, Answer("ACK", Head(fwd).at), sst # "done")
    BY <1>6 DEF TakeRepeated, TakesBlock, ToSender
  <2>2. Head(fwd).at \in Nat
    BY <2>1, TakesOK DEF Blocks
  <2>3. RepOK'
    BY <2>1, <2>2, ToSenderOK, CharsOK
  <2>4. ReceiverOK'
    BY <1>0, <2>1, TakesOK, LoopEndOK
  <2> QED BY <2>1, <2>3, <2>4, TakesOK DEF FwdOK
<1>7. CASE TakeOutOfOrder
  <2>1. Takes({"header", "data"}) /\ fwd' = Tail(fwd) /\ nConsecErrors' = 0 /\ lastcan' = FALSE
        /\ UNCHANGED <<pos, bn, reallen, rfile>>
        /\ LoopEnd(TRUE, FALSE) /\ rep' = Put(rep, Answer("CAN", NoBlock), sst # "done")
    BY <1>7 DEF TakeOutOfOrder, TakesBlock, ToSender
  <2>2. RepOK'
    BY <2>1, ToSenderOK, CharsOK
  <2>3. ReceiverOK'
    BY <1>0, <2>1, TakesOK, LoopEndOK
  <2> QED BY <2>1, <2>2, <2>3, TakesOK DEF FwdOK
<1>8. CASE TakeBad
  <2>1. Takes({"bad", "header", "data"}) /\ fwd' = Tail(fwd) /\ BlockError
    BY <1>8 DEF TakeBad
  <2>2. ReceiverOK' /\ RepOK'
    BY <2>1, TakesOK, BlockErrorOK
  <2> QED BY <2>1, <2>2, TakesOK DEF FwdOK
<1>9. CASE ReceiveTimeout
  <2>1. ReceiverOK' /\ RepOK'
    BY <1>9, BlockErrorOK DEF ReceiveTimeout
  <2> QED BY <1>9, <2>1
          DEF ReceiveTimeout, args, svars, ghosts, ArgsOK, SenderOK, FwdOK, RestOK
<1>10. CASE TakeCan
  <2>1. Takes({"can"}) /\ fwd' = Tail(fwd) /\ lastcan' = TRUE /\ LoopEnd(lastcan, ~lastcan)
        /\ UNCHANGED <<pos, bn, reallen, nConsecErrors, rfile>>
    BY <1>10 DEF TakeCan
  <2>2. PICK a \in Answers : rep' = Put(rep, a, sst # "done")
    BY <1>10, CharsOK DEF TakeCan, ToSender
  <2>3. RepOK'
    BY <2>2, ToSenderOK
  <2>4. ReceiverOK'
    BY <2>1, TakesOK DEF LoopEnd, ReceiverOK
  <2> QED BY <2>1, <2>3, <2>4, TakesOK DEF FwdOK
<1>11. CASE TakeEot
  <2>1. Takes({"eot"}) /\ fwd' = Tail(fwd) /\ lastcan' = FALSE /\ LoopEnd(TRUE, TRUE)
        /\ UNCHANGED <<pos, bn, reallen, nConsecErrors, rfile>>
        /\ rep' = Put(rep, Answer("ACK", NoBlock), sst # "done")
    BY <1>11 DEF TakeEot, ToSender
  <2>2. RepOK'
    BY <2>1, ToSenderOK, CharsOK
  <2>3. ReceiverOK'
    BY <2>1, TakesOK DEF LoopEnd, ReceiverOK
  <2> QED BY <2>1, <2>2, <2>3, TakesOK DEF FwdOK
<1>12. CASE TakeJunk
  <2>1. Takes({"junk"}) /\ fwd' \in Purged(Tail(fwd)) /\ lastcan' = FALSE
        /\ UNCHANGED <<pos, bn, reallen, nConsecErrors, rfile, rep>> /\ LoopEnd(FALSE, TRUE)
    BY <1>12 DEF TakeJunk
  <2>2. fwd' \in Seq(Blocks)
    BY <2>1, TakesOK, PurgedOK
  <2>3. ReceiverOK'
    BY <2>1, TakesOK DEF LoopEnd, ReceiverOK
  <2> QED BY <2>1, <2>2, <2>3, TakesOK DEF FwdOK, RepOK
<1>13. CASE ReceiveEscape
  <2>1. /\ rst = "receive" /\ LoopEnd(TRUE, FALSE) /\ lastcan' = FALSE
        /\ rep' = Put(rep, Answer("CAN", NoBlock), sst # "done")
        /\ UNCHANGED <<pos, bn, reallen, nConsecErrors, rfile, nNumStartTries, stopped,
                       received>>
    BY <1>13 DEF ReceiveEscape, ToSender
  <2>2. RepOK'
    BY <2>1, ToSenderOK, CharsOK
  <2>3. ReceiverOK'
    BY <2>1 DEF LoopEnd, ReceiverOK
  <2>4. RestOK'
    BY <1>13, BoundAssumption DEF ReceiveEscape, RestOK
  <2> QED BY <1>13, <2>2, <2>3, <2>4
          DEF ReceiveEscape, args, svars, ArgsOK, SenderOK, FwdOK
<1>14. CASE ReceiveHangup
  <2>1. /\ rst = "receive" /\ nConsecErrors' = nConsecErrors + 1 /\ lastcan' = FALSE
        /\ rst' = "end" /\ ok' \in BOOLEAN
        /\ UNCHANGED <<pos, bn, reallen, rfile, nNumStartTries, stopped, received>>
    BY <1>14 DEF ReceiveHangup, LoopEnd, ReceiverOK
  <2>2. nConsecErrors' \in 0..MaxConsecErrors + 1
    BY <1>0, <2>1 DEF ReceiverOK
  <2>3. ReceiverOK'
    BY <2>1, <2>2 DEF ReceiverOK
  <2> QED BY <1>14, <2>3 DEF ReceiveHangup, args, svars, line, ghosts, ArgsOK, SenderOK,
          FwdOK, RepOK, RestOK
<1>15. CASE ReceiveEnds
  <2>1. ReceiverOK'
    BY <1>15 DEF ReceiveEnds, ReceiverOK
  <2>2. fwd' \in Seq(Blocks)
    BY <1>15 DEF ReceiveEnds
  <2> QED BY <1>15, <2>1, <2>2
          DEF ReceiveEnds, args, svars, ghosts, ArgsOK, SenderOK, FwdOK, RepOK, RestOK
<1>16. CASE StartEscape
  <2>1. ReceiverOK'
    BY <1>16 DEF StartEscape, ReceiverOK
  <2>2. RestOK'
    BY <1>16, BoundAssumption DEF StartEscape, RestOK
  <2> QED BY <1>16, <2>1, <2>2
          DEF StartEscape, args, svars, ArgsOK, SenderOK, FwdOK, RepOK
<1> QED BY <1>1, <1>2, <1>3, <1>4, <1>5, <1>6, <1>7, <1>8, <1>9, <1>10, <1>11, <1>12,
        <1>13, <1>14, <1>15, <1>16 DEF Receiver

-----------------------------------------------------------------------------
(* The line, and the theorem.                                              *)

LEMMA FaultTypes ==
  ASSUME IType, Fault
  PROVE  IType'
<1> USE DEF IType
<1>1. UNCHANGED <<args, svars, rvars, stale>> /\ faults' \in 0..MaxFaults
  BY BoundAssumption DEF Fault, RestOK
<1>2. ArgsOK' /\ SenderOK' /\ ReceiverOK'
  BY <1>1 DEF args, svars, rvars, ArgsOK, SenderOK, ReceiverOK
<1>3. CASE Lose
  <2>1. FwdOK' /\ RepOK'
    BY <1>3, RemovedOK DEF Lose, FwdOK, RepOK
  <2> QED BY <1>1, <1>2, <1>3, <2>1 DEF Lose, RestOK
<1>4. CASE Damage
  <2>1. FwdOK' /\ RepOK'
    <3>1. Char("bad") \in Blocks /\ Answer("junk", NoBlock) \in Answers
      BY CharsOK
    <3>2. \A i \in DOMAIN fwd : [fwd EXCEPT ![i] = Char("bad")] \in Seq(Blocks)
      BY <3>1, ExceptSeq DEF FwdOK
    <3>3. \A i \in DOMAIN rep : [rep EXCEPT ![i] = Answer("junk", NoBlock)] \in Seq(Answers)
      BY <3>1, ExceptSeq DEF RepOK
    <3> QED BY <1>4, <3>2, <3>3 DEF Damage, FwdOK, RepOK
  <2> QED BY <1>1, <1>2, <1>4, <2>1 DEF Damage, RestOK
<1>5. CASE Noise
  <2>1. FwdOK' /\ fake' \in BOOLEAN
    BY <1>5, PutOK, CharsOK DEF Noise, ToReceiver, FwdOK, RestOK
  <2>2. RepOK'
    BY <1>5, PutOK, CharsOK DEF Noise, ToSender, RepOK
  <2>3. carrier' = carrier /\ hostile' = TRUE
    BY <1>5 DEF Noise
  <2> QED BY <1>1, <1>2, <2>1, <2>2, <2>3 DEF RestOK
<1>6. CASE LoseCarrier
  BY <1>1, <1>2, <1>6 DEF LoseCarrier, FwdOK, RepOK, RestOK
<1> QED BY <1>3, <1>4, <1>5, <1>6 DEF Fault

LEMMA TypesInitially == Init => IType
<1> SUFFICES ASSUME Init PROVE IType
  OBVIOUS
<1>0. /\ 0 \in 0..MaxSendErrors - 1 /\ 1 \in 0..BlockMod - 1
      /\ 0 \in 0..MaxConsecErrors + 1 /\ 0 <= MaxConsecErrors
      /\ 0 \in 0..MaxStartTries + 1 /\ 0 \in 0..MaxFaults
  BY TriesAssumption, BlockModAssumption, BoundAssumption
<1>1. ArgsOK
  BY LengthsAssumption DEF Init, ArgsOK
<1>2. SenderOK
  BY <1>0 DEF Init, SenderOK
<1>3. ReceiverOK
  <2>1. <<>> \in Seq(Nat) /\ 1 \in Nat \ {0} /\ 0 \in Nat
    OBVIOUS
  <2>2. /\ rst = "start" /\ pos = 0 /\ bn = 1 /\ reallen = 0 /\ nConsecErrors = 0
        /\ lastcan = FALSE /\ ok = TRUE /\ stopped = FALSE /\ nNumStartTries = 0
        /\ rfile = <<>> /\ received = "open"
    BY DEF Init
  <2> QED BY <1>0, <2>1, <2>2 DEF ReceiverOK
<1>4. FwdOK /\ RepOK
  BY DEF Init, FwdOK, RepOK
<1>5. RestOK
  BY <1>0 DEF Init, RestOK
<1> QED BY <1>1, <1>2, <1>3, <1>4, <1>5 DEF IType

LEMMA TypesInductive == IType /\ [Next]_vars => IType'
<1>1. ASSUME IType, Next PROVE IType'
  BY <1>1, SenderTypes, ReceiverTypes, FaultTypes DEF Next
<1>2. ASSUME IType, UNCHANGED vars PROVE IType'
  BY <1>2 DEF vars, args, svars, rvars, line, ghosts, IType, ArgsOK, SenderOK, ReceiverOK,
     FwdOK, RepOK, RestOK
<1> QED BY <1>1, <1>2

LEMMA TypesAlways == Spec => []IType
BY TypesInitially, TypesInductive, PTL DEF Spec

\* TypeOK: the block number of the sender fits its byte, no count of errors
\* passes its limit, and what is on the line and in the file has its type.
THEOREM TypeCorrect == Spec => []TypeOK
<1>1. IType => TypeOK
  BY DEF IType, TypeOK, ArgsOK, SenderOK, ReceiverOK, FwdOK, RepOK, RestOK, Blocks, Answers
<1> QED BY <1>1, TypesAlways, PTL

-----------------------------------------------------------------------------
(* The refinement.  A file of at most BlockMod - 2 blocks: the number of a *)
(* block then says which block it is.                                      *)

FewBlocks == \A n \in Lengths \cup {1} : n <= Small * (BlockMod - 2)

\* Where block k starts: all blocks but the last are of one size.
BlockSize == IF use_ymodem THEN Large ELSE Small
Start(k) == (k - 1) * BlockSize

\* An end that is at position p is at the start of the block k it counts, or
\* both are past the end of the file; the block before was not.
Placed(p, k) ==
  /\ k \in Nat \ {0}
  /\ p = Start(k) \/ (p >= lFileSize /\ Start(k) >= lFileSize)
  /\ k = 1 \/ Start(k - 1) < lFileSize

GoodBlock(b) ==
  /\ b.kind = "data" => /\ b.num # 0 /\ b.at = Start(b.num) /\ b.at < lFileSize
                        /\ b.size = SizeAt(b.at)
  /\ b.kind = "header" => b.num = 0 /\ b.size = lFileSize
  /\ b.kind = "eot" => fake \/ cp >= lFileSize
GoodBlocks == {b \in Blocks : GoodBlock(b)}

\* What has been acknowledged has been written.
GoodAnswer(a) == a.ch = "ACK" /\ a.for \in Nat => a.for < pos
GoodAnswers == {a \in Answers : GoodAnswer(a)}

Spoiled == stale \/ fake \/ ~carrier

LengthInv == lFileSize <= Small * (BlockMod - 2)
SendInv ==
  /\ Placed(cp, byBlockNumber)
  /\ sst \in {"start", "header"} => cp = 0
  /\ sst = "block" => cp < lFileSize
  /\ sst = "eot" => cp >= lFileSize
  /\ sst # "done" => sent = "open"
ReceiveInv ==
  /\ Placed(pos, bn)
  /\ Len(rfile) = pos
  /\ reallen \in {0, lFileSize}
  /\ stopped => ~ok
  /\ rst # "done" => received = "open"

\* The sender is not ahead of the receiver, unless it took an ACK for another.
AheadInv == Spoiled \/ cp <= pos \/ pos >= lFileSize
EndInv == rst = "end" /\ ok => Spoiled \/ pos >= lFileSize
LinesInv == fwd \in Seq(GoodBlocks) /\ rep \in Seq(GoodAnswers)

RInv == LengthInv /\ SendInv /\ ReceiveInv /\ AheadInv /\ EndInv /\ LinesInv

-----------------------------------------------------------------------------
(* Block numbers and positions.                                            *)

LEMMA BlockSizeOK ==
  /\ BlockSize \in Nat \ {0} /\ BlockSize \in {Small, Large}
  /\ Small \in Nat \ {0} /\ Large \in Nat /\ Small <= BlockSize /\ BlockSize <= Large
BY SizeAssumption DEF BlockSize

LEMMA StartOK ==
  ASSUME NEW k \in Nat \ {0}
  PROVE  /\ Start(k) \in Nat /\ Start(1) = 0
         /\ Start(k + 1) = Start(k) + BlockSize
<1>1. BlockSize \in Nat
  BY BlockSizeOK
<1>2. (k - 1) * BlockSize \in Nat
  BY <1>1
<1>3. ((k + 1) - 1) * BlockSize = (k - 1) * BlockSize + BlockSize
  BY <1>1
<1> QED BY <1>1, <1>2, <1>3 DEF Start

LEMMA StartIncreases ==
  ASSUME NEW k \in Nat \ {0}, NEW m \in Nat \ {0}, k < m
  PROVE  Start(k) + BlockSize <= Start(m)
<1>1. BlockSize \in Nat
  BY BlockSizeOK
<1> DEFINE B == BlockSize
<1> HIDE DEF B
<1>2. B \in Nat
  BY <1>1 DEF B
<1>3. PICK d \in Nat : m = k + 1 + d
  <2>1. m - k - 1 \in Nat /\ m = k + 1 + (m - k - 1)
    OBVIOUS
  <2> QED BY <2>1
<1>4. (m - 1) * B = (k - 1) * B + B + d * B
  BY <1>2, <1>3
<1>5. d * B >= 0
  BY <1>2
<1>6. (k - 1) * B \in Int /\ (m - 1) * B \in Int /\ d * B \in Int
  BY <1>2
<1> QED BY <1>2, <1>4, <1>5, <1>6 DEF Start, B

\* A number that counts blocks of the file fits the byte.
LEMMA NumberFits ==
  ASSUME IType, LengthInv, NEW p, NEW k, Placed(p, k)
  PROVE  k < BlockMod
<1>1. CASE k = 1
  BY <1>1, BlockModAssumption
<1>2. CASE k # 1
  <2> DEFINE B == BlockSize
             j == k - 2
             e == BlockMod - 2
  <2>1. B \in Nat /\ Small \in Nat /\ Small <= B
    BY BlockSizeOK
  <2>2. j \in Nat /\ e \in Nat /\ j = (k - 1) - 1
    BY <1>2, BlockModAssumption DEF Placed
  <2>3. j * B < lFileSize
    BY <1>2, <2>2 DEF Placed, Start
  <2>4. lFileSize <= Small * e
    BY DEF LengthInv
  <2> HIDE DEF B, j, e
  <2>5. j * B < Small * e
    BY <2>1, <2>2, <2>3, <2>4 DEF IType, ArgsOK
  <2>6. j < e
    <3> SUFFICES ASSUME j >= e PROVE FALSE
      BY <2>2
    <3>1. PICK u \in Nat : j = e + u
      <4>1. j - e \in Nat /\ j = e + (j - e)
        BY <2>2
      <4> QED BY <4>1
    <3>2. PICK v \in Nat : B = Small + v
      <4>1. B - Small \in Nat /\ B = Small + (B - Small)
        BY <2>1
      <4> QED BY <4>1
    <3>3. j * B = Small * e + e * v + u * Small + u * v
      BY <2>1, <2>2, <3>1, <3>2
    <3>4. e * v >= 0 /\ u * Small >= 0 /\ u * v >= 0
      BY <2>1, <2>2, <3>1, <3>2
    <3>5. /\ e * v \in Int /\ u * Small \in Int /\ u * v \in Int /\ Small * e \in Int
          /\ j * B \in Int
      BY <2>1, <2>2, <3>1, <3>2
    <3> QED BY <2>5, <3>3, <3>4, <3>5
  <2> QED BY <2>2, <2>6, BlockModAssumption DEF j, e, Placed
<1> QED BY <1>1, <1>2

\* The next block: at its end is the start of the one after, or the end of the
\* file is reached.
LEMMA NextPlaced ==
  ASSUME IType, NEW k \in Nat \ {0}, Start(k) < lFileSize,
         NEW q \in Nat,
         q = Start(k) + SizeAt(Start(k))
           \/ (q = lFileSize /\ lFileSize < Start(k) + SizeAt(Start(k)))
  PROVE  Placed(q, k + 1)
<1> DEFINE p == Start(k)
<1>1. p \in Nat /\ Start(k + 1) = p + BlockSize /\ (k + 1) - 1 = k /\ k + 1 \in Nat \ {0}
  BY StartOK
<1>2. lFileSize \in Nat
  BY DEF IType, ArgsOK
<1>3. CASE SizeAt(p) = BlockSize
  BY <1>1, <1>2, <1>3, BlockSizeOK DEF Placed
<1>4. CASE SizeAt(p) # BlockSize
  <2>1. SizeAt(p) = Small /\ BlockSize = Large /\ lFileSize - p < Small
    <3> HIDE DEF p
    <3> QED BY <1>1, <1>2, <1>4, SizeAssumption DEF SizeAt, BlockSize
  <2>2. Small \in Nat /\ Large \in Nat /\ Small < Large
    BY SizeAssumption
  <2>3. q >= lFileSize /\ p + BlockSize >= lFileSize
    BY <1>1, <1>2, <2>1, <2>2
  <2> QED BY <1>1, <2>3 DEF Placed
<1> QED BY <1>3, <1>4

-----------------------------------------------------------------------------
(* Steps of FileCopy.                                                      *)

Step == [Copying!Next]_(Copying!vars)

LEMMA Stutters ==
  ASSUME UNCHANGED <<lFileSize, rfile, received, sent, stale, fake, carrier>>
  PROVE  Step
BY DEF Step, Copying!vars

\* The line has done something the protocol cannot see.
LEMMA Spoils ==
  ASSUME UNCHANGED <<lFileSize, rfile, received, sent>>, Spoiled'
  PROVE  Step
BY DEF Step, Copying!Next, Copying!Spoil, Spoiled

\* The sender's end reports what it thinks.
LEMMA Claims ==
  ASSUME UNCHANGED <<lFileSize, rfile, received, stale, fake, carrier>>,
         sent = "open", sent' \in {"sent", "failed"},
         sent' = "sent" => Len(rfile) >= lFileSize \/ Spoiled
  PROVE  Step
BY DEF Step, Copying!Next, Copying!Claim, Copying!Disclaim, Copying!Whole, Spoiled

\* The receiver's end reports what it thinks.
LEMMA Reports ==
  ASSUME UNCHANGED <<lFileSize, rfile, sent, stale, fake, carrier>>,
         received = "open", received' \in {"received", "failed"},
         received' = "received" => Len(rfile) >= lFileSize \/ Spoiled
  PROVE  Step
BY DEF Step, Copying!Next, Copying!Deliver, Copying!Discard, Copying!Whole, Spoiled

\* The next units are written.
LEMMA Extends ==
  ASSUME UNCHANGED <<lFileSize, received, sent, stale, fake, carrier>>,
         received = "open", NEW n \in 1..Large,
         rfile' = rfile \o [i \in 1..n |-> Len(rfile) + i - 1]
  PROVE  Step
BY DEF Step, Copying!Next, Copying!Extend

-----------------------------------------------------------------------------
(* What is good on the line stays good.                                    *)

LEMMA GoodGrows ==
  ASSUME IType, IType', UNCHANGED args, cp <= cp', pos <= pos', fake => fake'
  PROVE  GoodBlocks \subseteq GoodBlocks' /\ GoodAnswers \subseteq GoodAnswers'
<1>1. ASSUME NEW b \in GoodBlocks PROVE b \in GoodBlocks'
  <2>1. b \in Blocks /\ GoodBlock(b)
    BY DEF GoodBlocks
  <2>2. GoodBlock(b)'
    BY <2>1 DEF GoodBlock, args, SizeAt, Start, BlockSize, use_ymodem, IType, ArgsOK,
       SenderOK
  <2> QED BY <2>1, <2>2 DEF GoodBlocks
<1>2. ASSUME NEW a \in GoodAnswers PROVE a \in GoodAnswers'
  BY DEF GoodAnswers, GoodAnswer, IType, ReceiverOK
<1> QED BY <1>1, <1>2

LEMMA GoodChars ==
  ASSUME IType
  PROVE  /\ \A k \in {"can", "bad", "junk"} : Char(k) \in GoodBlocks
         /\ fake \/ cp >= lFileSize => Char("eot") \in GoodBlocks
         /\ \A ch \in Chars : /\ Answer(ch, NoBlock) \in GoodAnswers
                              /\ Answer(ch, HeaderAt) \in GoodAnswers
         /\ \A a \in Nat : a < pos => Answer("ACK", a) \in GoodAnswers
<1>1. \A k \in {"can", "bad", "junk"} : Char(k) \in GoodBlocks
  BY CharsOK DEF GoodBlocks, GoodBlock, Char, Block
<1>2. fake \/ cp >= lFileSize => Char("eot") \in GoodBlocks
  BY CharsOK DEF GoodBlocks, GoodBlock, Char, Block
<1>3. \A ch \in Chars : /\ Answer(ch, NoBlock) \in GoodAnswers
                        /\ Answer(ch, HeaderAt) \in GoodAnswers
  <2>1. HeaderAt \notin Nat /\ NoBlock \notin Nat
    BY DEF HeaderAt, NoBlock
  <2> QED BY <2>1, CharsOK DEF GoodAnswers, GoodAnswer, Answer
<1>4. \A a \in Nat : a < pos => Answer("ACK", a) \in GoodAnswers
  BY CharsOK DEF GoodAnswers, GoodAnswer, Answer
<1> QED BY <1>1, <1>2, <1>3, <1>4

\* What was on the line is still good.
LEMMA LinesGrow ==
  ASSUME IType, IType', LinesInv, UNCHANGED args, cp <= cp', pos <= pos', fake => fake'
  PROVE  fwd \in Seq(GoodBlocks') /\ rep \in Seq(GoodAnswers')
BY GoodGrows, SeqMonotonic DEF LinesInv

-----------------------------------------------------------------------------
(* The sender implements the claim.                                        *)

\* What a step of the sender leaves alone.
LEMMA SenderKeeps ==
  ASSUME IType, IType', RInv, UNCHANGED <<args, rvars, fake, carrier>>, stale => stale'
  PROVE  LengthInv' /\ ReceiveInv' /\ EndInv'
BY DEF RInv, LengthInv, ReceiveInv, EndInv, Placed, Start, BlockSize, use_ymodem, Spoiled,
       args, rvars

\* xymodem_send returns.
LEMMA SendEndsStep ==
  ASSUME IType, IType', RInv, UNCHANGED <<args, rvars, fake, carrier, stale>>,
         sst # "done", NEW r \in {"sent", "failed"}, SendEnds(r),
         r = "sent" => pos >= lFileSize \/ Spoiled
  PROVE  SendInv' /\ AheadInv' /\ Step
<1>1. SendInv' /\ AheadInv'
  BY DEF RInv, SendInv, AheadInv, SendEnds, Placed, Start, BlockSize, use_ymodem, Spoiled,
     args, rvars
<1>2. sent = "open" /\ sent' = r /\ Len(rfile) = pos
  BY DEF RInv, SendInv, ReceiveInv, SendEnds
<1>3. Step
  BY <1>2, Claims DEF args, rvars
<1> QED BY <1>1, <1>3

\* A sender at the end of the file is not ahead of the receiver.
LEMMA EotIsWhole ==
  ASSUME IType, RInv, sst = "eot"
  PROVE  pos >= lFileSize \/ Spoiled
BY DEF RInv, SendInv, AheadInv, IType, ArgsOK, SenderOK, ReceiverOK

\* send_b goes on with the same block, or with CAN.
LEMMA SendAgainStep ==
  ASSUME IType, IType', RInv, UNCHANGED <<args, rvars, fake, carrier, stale>>,
         sst # "done", UNCHANGED <<cp, byBlockNumber, sent>>, sst' \in {sst, "cancel"}
  PROVE  SendInv' /\ AheadInv' /\ Step
<1>1. SendInv' /\ AheadInv'
  BY DEF RInv, SendInv, AheadInv, Placed, Start, BlockSize, use_ymodem, Spoiled, args, rvars
<1>2. Step
  BY Stutters DEF args, rvars
<1> QED BY <1>1, <1>2

LEMMA SendErrorStep ==
  ASSUME IType, IType', RInv, UNCHANGED <<args, rvars, fake, carrier, stale>>,
         sst \in {"header", "block", "cancel", "eot"}, SendError
  PROVE  SendInv' /\ AheadInv' /\ Step
<1>1. CASE nNumErrors + 1 >= MaxSendErrors
  <2>1. CASE sst \in {"header", "block"}
    BY <1>1, <2>1, SendAgainStep DEF SendError, GivenUp, SendNext
  <2>2. CASE sst = "cancel"
    BY <1>1, <2>2, SendEndsStep DEF SendError, GivenUp
  <2>3. CASE sst = "eot"
    BY <1>1, <2>3, SendEndsStep, EotIsWhole DEF SendError, GivenUp
  <2> QED BY <2>1, <2>2, <2>3
<1>2. CASE ~(nNumErrors + 1 >= MaxSendErrors)
  BY <1>2, SendAgainStep DEF SendError
<1> QED BY <1>1, <1>2

\* An ACK: the position goes on, to a block the receiver wants or past it if
\* the ACK was stale.
LEMMA AckedStep ==
  ASSUME IType, IType', RInv, UNCHANGED <<args, rvars, fake, carrier>>,
         sst \in {"header", "block", "cancel", "eot"}, Acked,
         NEW a \in GoodAnswers, a.ch = "ACK",
         stale' = (stale \/ (sst \in {"header", "block"} /\ a.for # Awaited))
  PROVE  SendInv' /\ AheadInv' /\ Step /\ cp <= cp'
<1> USE DEF IType
<1>1. CASE sst = "header"
  <2>1. /\ sst' = "block" /\ UNCHANGED <<cp, byBlockNumber, sent>> /\ cp = 0
        /\ cp' < lFileSize
    BY <1>1 DEF Acked, SendNext, RInv, SendInv, ArgsOK
  <2>2. SendInv' /\ AheadInv'
    BY <2>1, <1>1 DEF RInv, SendInv, AheadInv, Placed, Start, BlockSize, use_ymodem, Spoiled,
       args, rvars, ArgsOK, ReceiverOK
  <2>3. Step
    <3>1. CASE stale' = stale
      BY <2>1, <3>1, Stutters DEF args, rvars
    <3>2. CASE stale'
      BY <2>1, <3>2, Spoils DEF args, rvars, Spoiled
    <3> QED BY <1>1, <3>1, <3>2 DEF RestOK
  <2> QED BY <2>1, <2>2, <2>3 DEF SenderOK
<1>2. CASE sst = "block"
  <2>1. /\ cp' = cp + SizeAt(cp) /\ byBlockNumber' = (byBlockNumber + 1) % BlockMod
        /\ sent' = sent /\ sst' = (IF cp' < lFileSize THEN "block" ELSE "eot")
    BY <1>2 DEF Acked, SendNext
  <2>2. /\ cp < lFileSize /\ cp = Start(byBlockNumber) /\ byBlockNumber \in Nat \ {0}
        /\ sent = "open" /\ LengthInv
    BY <1>2 DEF RInv, SendInv, Placed, ArgsOK, SenderOK
  <2>3. SizeAt(cp) \in Nat \ {0} /\ SizeAt(cp) <= BlockSize /\ cp \in Nat /\ lFileSize \in Nat
    <3>1. BlockSize \in Nat /\ cp \in Nat /\ lFileSize \in Nat
      BY BlockSizeOK DEF SenderOK, ArgsOK
    <3> QED BY <3>1, SizeAssumption DEF SizeAt, BlockSize, SenderOK
  <2>4. Placed(cp', byBlockNumber + 1)
    BY <2>1, <2>2, <2>3, NextPlaced
  <2>5. byBlockNumber' = byBlockNumber + 1
    <3>1. byBlockNumber + 1 < BlockMod /\ byBlockNumber + 1 \in Nat /\ BlockMod \in Nat
      BY <2>2, <2>4, NumberFits, BlockModAssumption
    <3> QED BY <2>1, <3>1
  <2>6. Placed(cp, byBlockNumber)'
    BY <2>4, <2>5 DEF Placed, Start, BlockSize, use_ymodem, args
  <2>7. SendInv'
    BY <2>1, <2>2, <2>3, <2>6 DEF SendInv, args
  <2>8. AheadInv'
    <3>1. CASE a.for = cp
      <4>1. cp < pos
        BY <2>3, <3>1 DEF GoodAnswers, GoodAnswer
      <4>2. CASE pos >= lFileSize
        BY <4>2 DEF AheadInv, args, rvars
      <4>3. CASE ~(pos >= lFileSize)
        <5>1. pos = Start(bn) /\ bn \in Nat \ {0} /\ pos \in Nat
          BY <4>3 DEF RInv, ReceiveInv, Placed, ReceiverOK
        <5>2. byBlockNumber < bn
          <6> SUFFICES ASSUME bn <= byBlockNumber PROVE FALSE
            BY <2>2, <5>1
          <6>1. CASE bn = byBlockNumber
            BY <2>2, <4>1, <5>1, <6>1, <2>3
          <6>2. CASE bn < byBlockNumber
            <7>1. Start(bn) + BlockSize <= Start(byBlockNumber)
              BY <2>2, <5>1, <6>2, StartIncreases
            <7> QED BY <2>2, <2>3, <4>1, <5>1, <7>1, BlockSizeOK
          <6> QED BY <2>2, <5>1, <6>1, <6>2
        <5>3. Start(byBlockNumber) + BlockSize <= Start(bn)
          BY <2>2, <5>1, <5>2, StartIncreases
        <5>4. cp' <= pos
          BY <2>1, <2>2, <2>3, <5>1, <5>3, BlockSizeOK
        <5> QED BY <5>4 DEF AheadInv, rvars
      <4> QED BY <4>2, <4>3
    <3>2. CASE a.for # cp
      BY <1>2, <3>2 DEF AheadInv, Spoiled, Awaited
    <3> QED BY <3>1, <3>2
  <2>9. Step
    <3>1. CASE stale' = stale
      BY <2>1, <3>1, Stutters DEF args, rvars
    <3>2. CASE stale'
      BY <2>1, <3>2, Spoils DEF args, rvars, Spoiled
    <3> QED BY <1>2, <3>1, <3>2 DEF RestOK
  <2> QED BY <2>1, <2>3, <2>7, <2>8, <2>9
<1>3. CASE sst = "cancel"
  <2>1. SendEnds("failed") /\ stale' = stale
    BY <1>3 DEF Acked, RestOK
  <2>2. cp <= cp'
    BY <2>1 DEF SendEnds, SenderOK
  <2> QED BY <1>3, <2>1, <2>2, SendEndsStep
<1>4. CASE sst = "eot"
  <2>1. SendEnds("sent") /\ stale' = stale
    BY <1>4 DEF Acked, RestOK
  <2>2. cp <= cp'
    BY <2>1 DEF SendEnds, SenderOK
  <2> QED BY <1>4, <2>1, <2>2, SendEndsStep, EotIsWhole
<1> QED BY <1>1, <1>2, <1>3, <1>4

\* What send_b sends says where in the file it belongs.
LEMMA OutgoingGood ==
  ASSUME IType, RInv, sst \in {"header", "block", "cancel", "eot"}
  PROVE  Outgoing \in GoodBlocks
<1>0. Outgoing \in Blocks
  BY OutgoingOK
<1>1. CASE sst = "header"
  BY <1>0, <1>1 DEF Outgoing, Block, GoodBlocks, GoodBlock
<1>2. CASE sst = "block"
  <2>1. cp < lFileSize /\ cp = Start(byBlockNumber) /\ byBlockNumber # 0
    BY <1>2 DEF RInv, SendInv, Placed, IType, ArgsOK, SenderOK
  <2> QED BY <1>0, <1>2, <2>1 DEF Outgoing, Block, GoodBlocks, GoodBlock
<1>3. CASE sst = "cancel"
  BY <1>3, GoodChars DEF Outgoing
<1>4. CASE sst = "eot"
  BY <1>4, GoodChars DEF Outgoing, RInv, SendInv
<1> QED BY <1>1, <1>2, <1>3, <1>4

LEMMA SenderStep ==
  ASSUME IType, IType', RInv, Sender \/ SendEscape
  PROVE  RInv' /\ Step
<1> USE DEF IType
<1>1. CASE StartAnswer
  <2>1. /\ UNCHANGED <<args, rvars, fake, carrier, stale, fwd>> /\ rep' = Tail(rep)
        /\ rep # <<>> /\ sst = "start"
    BY <1>1 DEF StartAnswer, ghosts
  <2>2. LengthInv' /\ ReceiveInv' /\ EndInv'
    BY <2>1, SenderKeeps
  <2>3. SendInv' /\ AheadInv' /\ Step /\ cp' = cp
    <3>1. CASE Head(rep).ch \in {"C", "NAK"}
      <4>1. /\ UNCHANGED <<cp, byBlockNumber, sent>> /\ sst' \in {"header", "block"} /\ cp = 0
        BY <1>1, <3>1 DEF StartAnswer, SendNext, svars, SendEnds, RInv, SendInv
      <4>2. SendInv' /\ AheadInv'
        BY <2>1, <4>1 DEF RInv, SendInv, AheadInv, Placed, Start, BlockSize, use_ymodem,
           Spoiled, args, rvars, ArgsOK, ReceiverOK
      <4>3. Step
        BY <2>1, <4>1, Stutters DEF args, rvars
      <4> QED BY <4>1, <4>2, <4>3
    <3>2. CASE Head(rep).ch = "CAN"
      <4>1. SendEnds("failed")
        BY <1>1, <3>2 DEF StartAnswer
      <4>2. cp' = cp
        BY <4>1 DEF SendEnds
      <4> QED BY <2>1, <4>1, <4>2, SendEndsStep
    <3>3. CASE Head(rep).ch \notin {"C", "NAK", "CAN"}
      <4>1. UNCHANGED svars
        BY <1>1, <3>3 DEF StartAnswer
      <4>2. /\ UNCHANGED <<cp, byBlockNumber, sent>> /\ sst' = sst
        BY <4>1 DEF svars
      <4> QED BY <2>1, <4>2, SendAgainStep
    <3> QED BY <3>1, <3>2, <3>3
  <2>4. LinesInv'
    <3>1. fwd \in Seq(GoodBlocks') /\ rep \in Seq(GoodAnswers')
      BY <2>1, <2>3, LinesGrow DEF RInv, rvars, SenderOK, ReceiverOK
    <3> QED BY <2>1, <3>1, TakenOK DEF LinesInv
  <2> QED BY <2>2, <2>3, <2>4 DEF RInv
<1>2. CASE StartTimeout \/ SendHangup
  <2>1. UNCHANGED <<args, rvars, line, ghosts>> /\ sst # "done"
    BY <1>2 DEF StartTimeout, SendHangup
  <2>2. LengthInv' /\ ReceiveInv' /\ EndInv'
    BY <2>1, SenderKeeps DEF line, ghosts
  <2>3. PICK r \in {"sent", "failed"} : SendEnds(r) /\ (r = "sent" => Spoiled)
    BY <1>2 DEF StartTimeout, SendHangup, Spoiled
  <2>4. SendInv' /\ AheadInv' /\ Step
    BY <2>1, <2>3, SendEndsStep DEF line, ghosts
  <2>5. LinesInv'
    <3>1. cp' = cp
      BY <2>3 DEF SendEnds
    <3> QED BY <2>1, <3>1, LinesGrow DEF RInv, line, ghosts, rvars, LinesInv, SenderOK,
            ReceiverOK
  <2> QED BY <2>2, <2>4, <2>5 DEF RInv
<1>3. CASE SendBlock
  <2>1. /\ UNCHANGED <<args, rvars, fake, carrier, stale, cp, byBlockNumber, sent, sst>>
        /\ sst \in {"header", "block", "cancel", "eot"}
    BY <1>3 DEF SendBlock, ghosts
  <2>2. LengthInv' /\ ReceiveInv' /\ EndInv'
    BY <2>1, SenderKeeps
  <2>3. SendInv' /\ AheadInv' /\ Step
    BY <2>1, SendAgainStep
  <2>4. fwd' \in Seq(GoodBlocks) /\ rep' \in Seq(GoodAnswers)
    <3>1. Arrives \in GoodBlocks
      BY <2>1, OutgoingGood, GoodChars DEF Arrives
    <3> QED BY <1>3, <3>1, PutOK, PurgedOK DEF SendBlock, ToReceiver, RInv, LinesInv
  <2>5. GoodBlocks \subseteq GoodBlocks' /\ GoodAnswers \subseteq GoodAnswers'
    BY <2>1, GoodGrows DEF rvars, SenderOK, ReceiverOK
  <2>6. LinesInv'
    BY <2>4, <2>5, SeqMonotonic DEF LinesInv
  <2> QED BY <2>2, <2>3, <2>6 DEF RInv
<1>4. CASE SendAnswer
  <2>1. /\ UNCHANGED <<args, rvars, fake, carrier, fwd>> /\ rep' = Tail(rep)
        /\ rep # <<>> /\ sst \in {"header", "block", "cancel", "eot"}
    BY <1>4 DEF SendAnswer
  <2>2. Head(rep) \in GoodAnswers
    BY <2>1, TakenOK DEF RInv, LinesInv
  <2>3. SendInv' /\ AheadInv' /\ Step /\ cp <= cp' /\ (stale => stale')
    <3>1. CASE Head(rep).ch = "ACK"
      <4>1. Acked /\ stale' = (stale \/ (sst \in {"header", "block"} /\ Head(rep).for # Awaited))
        BY <1>4, <3>1 DEF SendAnswer
      <4> QED BY <2>1, <2>2, <3>1, <4>1, AckedStep
    <3>2. CASE Head(rep).ch = "CAN"
      <4>1. stale' = stale /\ SendEnds(IF sst = "eot" THEN "sent" ELSE "failed")
        BY <1>4, <3>2 DEF SendAnswer
      <4>2. cp <= cp'
        BY <4>1 DEF SendEnds, SenderOK
      <4>3. CASE sst = "eot"
        BY <2>1, <4>1, <4>2, <4>3, SendEndsStep, EotIsWhole
      <4>4. CASE sst # "eot"
        BY <2>1, <4>1, <4>2, <4>4, SendEndsStep
      <4> QED BY <4>3, <4>4
    <3>3. CASE Head(rep).ch \notin {"ACK", "CAN"}
      <4>1. stale' = stale /\ SendError
        BY <1>4, <3>3 DEF SendAnswer
      <4>2. cp' = cp
        BY <2>1, <4>1 DEF SendError, GivenUp, SendNext, SendEnds
      <4> QED BY <2>1, <4>1, <4>2, SendErrorStep DEF SenderOK
    <3> QED BY <3>1, <3>2, <3>3
  <2>4. LengthInv' /\ ReceiveInv' /\ EndInv'
    BY <2>1, <2>3, SenderKeeps
  <2>5. LinesInv'
    <3>1. fwd \in Seq(GoodBlocks') /\ rep \in Seq(GoodAnswers')
      BY <2>1, <2>3, LinesGrow DEF RInv, rvars, SenderOK, ReceiverOK
    <3> QED BY <2>1, <3>1, TakenOK DEF LinesInv
  <2> QED BY <2>3, <2>4, <2>5 DEF RInv
<1>5. CASE SendTimeout
  <2>1. /\ UNCHANGED <<args, rvars, line, ghosts>> /\ SendError
        /\ sst \in {"header", "block", "cancel", "eot"}
    BY <1>5 DEF SendTimeout
  <2>2. LengthInv' /\ ReceiveInv' /\ EndInv'
    BY <2>1, SenderKeeps DEF line, ghosts
  <2>3. SendInv' /\ AheadInv' /\ Step
    BY <2>1, SendErrorStep DEF line, ghosts
  <2>4. LinesInv'
    <3>1. cp' = cp
      BY <2>1 DEF SendError, GivenUp, SendNext, SendEnds
    <3> QED BY <2>1, <3>1, LinesGrow DEF RInv, line, ghosts, rvars, LinesInv, SenderOK,
            ReceiverOK
  <2> QED BY <2>2, <2>3, <2>4 DEF RInv
<1>6. CASE SendEscape
  <2>1. UNCHANGED <<args, rvars, rep, carrier, stale, fake>> /\ sst # "done" /\ SendEnds("failed")
    BY <1>6 DEF SendEscape
  <2>2. LengthInv' /\ ReceiveInv' /\ EndInv'
    BY <2>1, SenderKeeps
  <2>3. SendInv' /\ AheadInv' /\ Step
    BY <2>1, SendEndsStep
  <2>4. fwd' \in Seq(GoodBlocks) /\ rep' \in Seq(GoodAnswers)
    BY <1>6, PutOK, GoodChars DEF SendEscape, ToReceiver, RInv, LinesInv
  <2>5. GoodBlocks \subseteq GoodBlocks' /\ GoodAnswers \subseteq GoodAnswers'
    BY <2>1, GoodGrows DEF SendEnds, rvars, SenderOK, ReceiverOK
  <2>6. LinesInv'
    BY <2>4, <2>5, SeqMonotonic DEF LinesInv
  <2> QED BY <2>2, <2>3, <2>6 DEF RInv
<1> QED BY <1>1, <1>2, <1>3, <1>4, <1>5, <1>6 DEF Sender

-----------------------------------------------------------------------------
(* The receiver implements the copy and its outcome.                       *)

\* What a step of the receiver leaves alone.
LEMMA ReceiverKeeps ==
  ASSUME IType, IType', RInv, UNCHANGED <<args, svars, fake, carrier, stale>>, pos <= pos'
  PROVE  LengthInv' /\ SendInv' /\ AheadInv'
BY DEF RInv, LengthInv, SendInv, AheadInv, Placed, Start, BlockSize, use_ymodem, Spoiled,
   args, svars, IType, ArgsOK, SenderOK, ReceiverOK

\* A step of the receiver that writes nothing and does not return: it is still
\* in its loop, or the file is given up, or it is all there.
LEMMA LoopStep ==
  ASSUME IType, IType', RInv, UNCHANGED <<args, svars, fake, carrier, stale>>,
         UNCHANGED <<pos, bn, rfile, received>>,
         reallen' \in {0, lFileSize},
         rst \in {"start", "receive"}, rst' # "done",
         stopped' => ~ok',
         rst' = "end" /\ ok' => Spoiled \/ pos >= lFileSize,
         fwd' \in Seq(GoodBlocks), rep' \in Seq(GoodAnswers)
  PROVE  RInv' /\ Step
<1>1. LengthInv' /\ SendInv' /\ AheadInv'
  BY ReceiverKeeps DEF IType, ReceiverOK
<1>2. ReceiveInv' /\ EndInv'
  BY DEF RInv, ReceiveInv, EndInv, Placed, Start, BlockSize, use_ymodem, Spoiled, args
<1>3. GoodBlocks \subseteq GoodBlocks' /\ GoodAnswers \subseteq GoodAnswers'
  BY GoodGrows DEF IType, SenderOK, ReceiverOK, svars
<1>4. LinesInv'
  BY <1>3, SeqMonotonic DEF LinesInv
<1>5. Step
  BY Stutters DEF args, svars
<1> QED BY <1>1, <1>2, <1>4, <1>5 DEF RInv

\* The end of the loop's body, without success or at a place that is no end.
LEMMA LoopEndStep ==
  ASSUME IType, RInv, NEW done, NEW success \in BOOLEAN, LoopEnd(done, success),
         stopped' = stopped, done => ~success
  PROVE  rst' # "done" /\ (stopped' => ~ok') /\ ~(rst' = "end" /\ ok')
BY DEF LoopEnd, RInv, ReceiveInv

LEMMA TakesStep ==
  ASSUME IType, RInv, NEW kinds, Takes(kinds)
  PROVE  /\ Head(fwd) \in GoodBlocks /\ Tail(fwd) \in Seq(GoodBlocks)
         /\ Head(fwd) \in Blocks /\ GoodBlock(Head(fwd)) /\ Head(fwd).kind \in kinds
         /\ rst = "receive"
         /\ UNCHANGED <<args, svars, fake, carrier, stale, stopped, received>>
<1>1. Head(fwd) \in GoodBlocks /\ Tail(fwd) \in Seq(GoodBlocks)
  BY TakenOK DEF RInv, LinesInv, Takes
<1> QED BY <1>1 DEF Takes, ghosts, GoodBlocks

\* A block error: the block is asked for again, or the file is given up.
LEMMA BlockErrorStep ==
  ASSUME IType, IType', RInv, UNCHANGED <<args, svars, fake, carrier, stale>>,
         rst = "receive", BlockError, UNCHANGED <<stopped, received>>,
         fwd' \in Seq(GoodBlocks)
  PROVE  RInv' /\ Step
<1>1. PICK again \in GoodAnswers :
        IF nConsecErrors' > MaxConsecErrors
        THEN /\ rep' = Put(Put(rep, again, sst # "done"), Answer("CAN", NoBlock), sst # "done")
             /\ LoopEnd(TRUE, FALSE)
        ELSE /\ rep' = Put(rep, again, sst # "done")
             /\ LoopEnd(FALSE, TRUE)
  BY GoodChars, CharsOK DEF BlockError
<1>2. "CAN" \in Chars
  BY DEF Chars
<1>3. rep' \in Seq(GoodAnswers)
  BY <1>1, <1>2, PutOK, GoodChars DEF RInv, LinesInv
<1>4. rst' # "done" /\ (stopped' => ~ok') /\ ~(rst' = "end" /\ ok')
  BY <1>1, LoopEndStep
<1>5. UNCHANGED <<pos, bn, rfile, reallen>>
  BY DEF BlockError
<1> QED BY <1>3, <1>4, <1>5, LoopStep DEF RInv, ReceiveInv

\* The block that is taken for the next is the next, and at least a unit of it
\* is wanted.
LEMMA NextBlock ==
  ASSUME IType, RInv, NEW b \in Blocks, GoodBlock(b), b.kind \in {"header", "data"},
         b.num = bn % BlockMod
  PROVE  /\ b.num = bn /\ b.at = pos /\ pos = Start(bn) /\ pos < lFileSize
         /\ b.size = SizeAt(pos) /\ Clipped(b.size) \in 1..Large
         /\ Placed(pos + Clipped(b.size), bn + 1)
<1> USE DEF IType
<1>1. bn \in Nat \ {0} /\ bn < BlockMod /\ BlockMod \in Nat /\ pos \in Nat /\ lFileSize \in Nat
  BY NumberFits, BlockModAssumption DEF RInv, ReceiveInv, ReceiverOK, ArgsOK
<1>2. bn % BlockMod = bn
  BY <1>1
<1>3. b.num = bn /\ b.kind = "data"
  BY <1>1, <1>2 DEF GoodBlock
<1>4. b.at = Start(bn) /\ Start(bn) < lFileSize /\ b.size = SizeAt(b.at)
  BY <1>3 DEF GoodBlock
<1>5. pos = Start(bn)
  BY <1>1, <1>4, StartOK DEF RInv, ReceiveInv, Placed
<1>6. /\ b.size \in Nat \ {0} /\ b.size <= Large
  BY <1>1, <1>4, <1>5, SizeAtOK, SizeAssumption
<1> DEFINE n == Clipped(b.size)
<1>7. /\ n \in 1..Large
      /\ n = b.size \/ (pos + n = lFileSize /\ lFileSize < pos + b.size)
  <2>1. reallen = 0 \/ reallen = lFileSize
    BY DEF RInv, ReceiveInv
  <2>2. Large \in Nat
    BY SizeAssumption
  <2>3. CASE reallen # 0 /\ b.size > reallen - pos
    <3>1. n = lFileSize - pos
      BY <2>1, <2>3 DEF Clipped
    <3> HIDE DEF n
    <3> QED BY <1>1, <1>4, <1>5, <1>6, <2>1, <2>2, <2>3, <3>1
  <2>4. CASE ~(reallen # 0 /\ b.size > reallen - pos)
    <3>1. n = b.size
      BY <2>4 DEF Clipped
    <3> HIDE DEF n
    <3> QED BY <1>6, <2>2, <3>1
  <2> QED BY <2>3, <2>4
<1>8. Placed(pos + n, bn + 1)
  <2> HIDE DEF n
  <2>1. pos + n \in Nat
    BY <1>1, <1>7
  <2> QED BY <1>1, <1>4, <1>5, <1>7, <2>1, NextPlaced
<1> QED BY <1>3, <1>4, <1>5, <1>7, <1>8

\* The block that is taken for the one before has been written.
LEMMA RepeatedBlock ==
  ASSUME IType, RInv, NEW b \in Blocks, GoodBlock(b), b.kind \in {"header", "data"},
         ~(b.num = 0 /\ pos = 0), b.num = (bn - 1) % BlockMod
  PROVE  b.at \in Nat /\ b.at < pos
<1> USE DEF IType
<1>1. bn \in Nat \ {0} /\ bn < BlockMod /\ BlockMod \in Nat /\ pos \in Nat /\ lFileSize \in Nat \ {0}
  BY NumberFits, BlockModAssumption DEF RInv, ReceiveInv, ReceiverOK, ArgsOK
<1>2. b.num = bn - 1
  BY <1>1
<1>3. bn # 1
  <2> SUFFICES ASSUME bn = 1 PROVE FALSE
    OBVIOUS
  <2>1. Start(1) = 0
    BY StartOK
  <2>2. pos = 0
    BY <1>1, <2>1 DEF RInv, ReceiveInv, Placed
  <2> QED BY <1>2, <2>2
<1>4. /\ b.at = Start(bn - 1) /\ b.at < lFileSize /\ bn - 1 \in Nat \ {0}
  BY <1>1, <1>2, <1>3 DEF GoodBlock
<1>5. b.at \in Nat
  BY DEF Blocks
<1>6. CASE pos >= lFileSize
  BY <1>1, <1>4, <1>5, <1>6
<1>7. CASE ~(pos >= lFileSize)
  <2>1. pos = Start(bn)
    BY <1>7 DEF RInv, ReceiveInv, Placed
  <2>2. Start(bn - 1) + BlockSize <= Start(bn)
    BY <1>1, <1>4, StartIncreases
  <2> QED BY <1>1, <1>4, <1>5, <2>1, <2>2, BlockSizeOK
<1> QED BY <1>5, <1>6, <1>7

\* The next block is written.
LEMMA TakeNextStep ==
  ASSUME IType, IType', RInv, TakeNext
  PROVE  RInv' /\ Step
<1> USE DEF IType
<1> DEFINE b == Head(fwd)
           n == Clipped(b.size)
<1>1. Takes({"header", "data"}) /\ fwd' = Tail(fwd) /\ b.num = bn % BlockMod
      /\ rfile' = rfile \o [i \in 1..n |-> b.at + i - 1] /\ pos' = pos + n /\ bn' = bn + 1
      /\ reallen' = reallen /\ LoopEnd(FALSE, TRUE)
      /\ rep' = Put(rep, Answer("ACK", b.at), sst # "done")
  BY DEF TakeNext, TakesBlock, IsNext, ToSender
<1>2. /\ b \in Blocks /\ GoodBlock(b) /\ b.kind \in {"header", "data"} /\ rst = "receive"
      /\ fwd' \in Seq(GoodBlocks)
      /\ UNCHANGED <<args, svars, fake, carrier, stale, stopped, received>>
  BY <1>1, TakesStep
<1>3. /\ b.at = pos /\ pos < lFileSize /\ n \in 1..Large /\ Placed(pos + n, bn + 1)
  BY <1>1, <1>2, NextBlock
<1> HIDE DEF b, n
<1>4. pos \in Nat /\ n \in Nat \ {0} /\ pos < pos' /\ Large \in Nat /\ Len(rfile) = pos
  BY <1>1, <1>3, SizeAssumption DEF ReceiverOK, RInv, ReceiveInv
<1>5. LengthInv' /\ SendInv' /\ AheadInv'
  <2>1. pos <= pos'
    BY <1>1, <1>4
  <2> QED BY <1>2, <2>1, ReceiverKeeps
<1>6. GoodBlocks \subseteq GoodBlocks' /\ GoodAnswers \subseteq GoodAnswers'
  <2>1. cp <= cp' /\ pos <= pos'
    BY <1>1, <1>2, <1>4 DEF svars, SenderOK
  <2> QED BY <1>2, <2>1, GoodGrows
<1>7. LinesInv'
  <2>1. fwd' \in Seq(GoodBlocks') /\ rep \in Seq(GoodAnswers')
    BY <1>2, <1>6, SeqMonotonic DEF RInv, LinesInv
  <2>2. Answer("ACK", b.at) \in GoodAnswers'
    BY <1>3, <1>4, CharsOK DEF GoodAnswers, GoodAnswer, Answer
  <2>3. rep' \in Seq(GoodAnswers')
    BY <1>1, <2>1, <2>2, PutOK
  <2> QED BY <2>1, <2>3 DEF LinesInv
<1>8. Len(rfile') = pos'
  <2>1. [i \in 1..n |-> b.at + i - 1] \in Seq(Nat) /\ Len([i \in 1..n |-> b.at + i - 1]) = n
    BY <1>3, <1>4, UnitsOK
  <2> QED BY <1>1, <1>4, <2>1, ConcatProperties DEF ReceiverOK
<1>9. rst' # "done" /\ (stopped' => ~ok') /\ ~(rst' = "end" /\ ok')
  BY <1>1, <1>2, LoopEndStep
<1>10. Placed(pos, bn)'
  BY <1>1, <1>2, <1>3 DEF Placed, Start, BlockSize, use_ymodem, args
<1>11. ReceiveInv' /\ EndInv'
  BY <1>1, <1>2, <1>8, <1>9, <1>10 DEF ReceiveInv, EndInv, RInv, args
<1>12. Step
  <2>1. rfile' = rfile \o [i \in 1..n |-> Len(rfile) + i - 1]
    BY <1>1, <1>3, <1>4
  <2>2. received = "open"
    BY <1>2 DEF RInv, ReceiveInv
  <2> QED BY <1>2, <1>3, <2>1, <2>2, Extends DEF args, svars
<1> QED BY <1>5, <1>7, <1>11, <1>12 DEF RInv

LEMMA ReceiverStep ==
  ASSUME IType, IType', RInv, Receiver \/ StartEscape \/ ReceiveEscape
  PROVE  RInv' /\ Step
<1> USE DEF IType
<1>0. {"ACK", "NAK", "CAN", "C"} \subseteq Chars
  BY DEF Chars
<1>1. CASE StartTry
  <2>1. /\ UNCHANGED <<args, svars, fake, carrier, stale, rst, pos, bn, rfile, received,
                       reallen, ok, stopped, fwd>>
        /\ rst = "start" /\ rep' \in Seq(GoodAnswers)
    BY <1>0, <1>1, PutOK, GoodChars DEF StartTry, ToSender, RInv, LinesInv, ghosts
  <2> QED BY <2>1, LoopStep DEF RInv, ReceiveInv, LinesInv
<1>2. CASE StartGivesUp
  <2>1. /\ UNCHANGED <<args, svars, fake, carrier, stale, pos, bn, rfile, reallen, ok,
                       stopped, rep>>
        /\ rst = "start" /\ rst' = "done" /\ received' = "failed" /\ fwd' = <<>>
    BY <1>2 DEF StartGivesUp, ghosts
  <2>2. LengthInv' /\ SendInv' /\ AheadInv'
    BY <2>1, ReceiverKeeps DEF ReceiverOK
  <2>3. ReceiveInv' /\ EndInv'
    BY <2>1 DEF RInv, ReceiveInv, EndInv, Placed, Start, BlockSize, use_ymodem, args
  <2>4. LinesInv'
    BY <2>1, LinesGrow DEF RInv, LinesInv, SenderOK, ReceiverOK, svars
  <2>5. Step
    BY <2>1, Reports DEF args, svars, RInv, ReceiveInv
  <2> QED BY <2>2, <2>3, <2>4, <2>5 DEF RInv
<1>3. CASE StartHeard
  <2>1. /\ UNCHANGED <<args, svars, fake, carrier, stale, pos, bn, rfile, received,
                       reallen, ok, stopped, fwd, rep>>
        /\ rst = "start" /\ rst' = "receive"
    BY <1>3 DEF StartHeard, line, ghosts
  <2> QED BY <2>1, LoopStep DEF RInv, ReceiveInv, LinesInv
<1>4. CASE TakeHeader
  <2>1. Takes({"header", "data"}) /\ fwd' = Tail(fwd) /\ Head(fwd).num = 0
        /\ reallen' = Head(fwd).size /\ UNCHANGED <<pos, bn, rfile>>
        /\ LoopEnd(FALSE, TRUE)
    BY <1>4 DEF TakeHeader, TakesBlock, IsHeader
  <2>2. reallen' = lFileSize
    BY <2>1, TakesStep DEF GoodBlock
  <2>3. rep' \in Seq(GoodAnswers)
    <3>1. Head(fwd).kind = "header"
      BY <2>1, TakesStep DEF GoodBlock, Takes
    <3>2. rep' = Put(rep, Answer("ACK", HeaderAt), sst # "done")
      BY <1>4, <3>1 DEF TakeHeader, ToSender
    <3> QED BY <1>0, <3>2, PutOK, GoodChars DEF RInv, LinesInv
  <2>4. rst' # "done" /\ (stopped' => ~ok') /\ ~(rst' = "end" /\ ok')
    BY <2>1, TakesStep, LoopEndStep
  <2> QED BY <2>1, <2>2, <2>3, <2>4, TakesStep, LoopStep
<1>5. CASE TakeNext
  BY <1>5, TakeNextStep
<1>6. CASE TakeRepeated
  <2>1. Takes({"header", "data"}) /\ fwd' = Tail(fwd) /\ ~(Head(fwd).num = 0 /\ pos = 0)
        /\ Head(fwd).num = (bn - 1) % BlockMod
        /\ UNCHANGED <<pos, bn, reallen, rfile>>
        /\ LoopEnd(FALSE, TRUE) /\ rep' = Put(rep, Answer("ACK", Head(fwd).at), sst # "done")
    BY <1>6 DEF TakeRepeated, TakesBlock, IsHeader, IsRepeated, ToSender
  <2>2. Head(fwd).at \in Nat /\ Head(fwd).at < pos
    BY <2>1, TakesStep, RepeatedBlock
  <2>3. rep' \in Seq(GoodAnswers)
    BY <2>1, <2>2, PutOK, GoodChars DEF RInv, LinesInv
  <2>4. rst' # "done" /\ (stopped' => ~ok') /\ ~(rst' = "end" /\ ok')
    BY <2>1, TakesStep, LoopEndStep
  <2> QED BY <2>1, <2>3, <2>4, TakesStep, LoopStep DEF RInv, ReceiveInv
<1>7. CASE TakeOutOfOrder
  <2>1. Takes({"header", "data"}) /\ fwd' = Tail(fwd) /\ UNCHANGED <<pos, bn, reallen, rfile>>
        /\ LoopEnd(TRUE, FALSE) /\ rep' = Put(rep, Answer("CAN", NoBlock), sst # "done")
    BY <1>7 DEF TakeOutOfOrder, TakesBlock, ToSender
  <2>2. rep' \in Seq(GoodAnswers)
    BY <1>0, <2>1, PutOK, GoodChars DEF RInv, LinesInv
  <2>3. rst' # "done" /\ (stopped' => ~ok') /\ ~(rst' = "end" /\ ok')
    BY <2>1, TakesStep, LoopEndStep
  <2> QED BY <2>1, <2>2, <2>3, TakesStep, LoopStep DEF RInv, ReceiveInv
<1>8. CASE TakeBad
  <2>1. Takes({"bad", "header", "data"}) /\ fwd' = Tail(fwd) /\ BlockError
    BY <1>8 DEF TakeBad
  <2> QED BY <2>1, TakesStep, BlockErrorStep
<1>9. CASE ReceiveTimeout
  <2>1. /\ UNCHANGED <<args, svars, fake, carrier, stale, stopped, received, fwd>>
        /\ rst = "receive" /\ BlockError
    BY <1>9 DEF ReceiveTimeout, ghosts
  <2> QED BY <2>1, BlockErrorStep DEF RInv, LinesInv
<1>10. CASE TakeCan
  <2>1. Takes({"can"}) /\ fwd' = Tail(fwd) /\ LoopEnd(lastcan, ~lastcan)
        /\ UNCHANGED <<pos, bn, reallen, rfile>>
    BY <1>10 DEF TakeCan
  <2>2. rep' \in Seq(GoodAnswers)
    BY <1>0, <1>10, PutOK, GoodChars DEF TakeCan, ToSender, RInv, LinesInv
  <2>3. rst' # "done" /\ (stopped' => ~ok') /\ ~(rst' = "end" /\ ok')
    BY <2>1, TakesStep, LoopEndStep DEF ReceiverOK
  <2> QED BY <2>1, <2>2, <2>3, TakesStep, LoopStep DEF RInv, ReceiveInv
<1>11. CASE TakeEot
  <2>1. Takes({"eot"}) /\ fwd' = Tail(fwd) /\ LoopEnd(TRUE, TRUE)
        /\ UNCHANGED <<pos, bn, reallen, rfile>>
        /\ rep' = Put(rep, Answer("ACK", NoBlock), sst # "done")
    BY <1>11 DEF TakeEot, ToSender
  <2>2. rep' \in Seq(GoodAnswers)
    BY <1>0, <2>1, PutOK, GoodChars DEF RInv, LinesInv
  <2>3. fake \/ cp >= lFileSize
    BY <2>1, TakesStep DEF GoodBlock
  <2>4. Spoiled \/ pos >= lFileSize
    BY <2>3 DEF RInv, AheadInv, Spoiled, ArgsOK, SenderOK, ReceiverOK
  <2>5. rst' # "done" /\ (stopped' => ~ok')
    BY <2>1, TakesStep DEF LoopEnd, RInv, ReceiveInv
  <2> QED BY <2>1, <2>2, <2>4, <2>5, TakesStep, LoopStep DEF RInv, ReceiveInv
<1>12. CASE TakeJunk
  <2>1. Takes({"junk"}) /\ fwd' \in Purged(Tail(fwd)) /\ LoopEnd(FALSE, TRUE)
        /\ UNCHANGED <<pos, bn, reallen, rfile, rep>>
    BY <1>12 DEF TakeJunk
  <2>2. fwd' \in Seq(GoodBlocks)
    BY <2>1, TakesStep, PurgedOK
  <2>3. rst' # "done" /\ (stopped' => ~ok') /\ ~(rst' = "end" /\ ok')
    BY <2>1, TakesStep, LoopEndStep
  <2> QED BY <2>1, <2>2, <2>3, TakesStep, LoopStep DEF RInv, ReceiveInv, LinesInv
<1>13. CASE ReceiveEscape
  <2>1. /\ UNCHANGED <<args, svars, fake, carrier, stale, stopped, received, fwd, pos, bn,
                       reallen, rfile>>
        /\ rst = "receive" /\ LoopEnd(TRUE, FALSE)
        /\ rep' = Put(rep, Answer("CAN", NoBlock), sst # "done")
    BY <1>13 DEF ReceiveEscape, ToSender
  <2>2. rep' \in Seq(GoodAnswers)
    BY <1>0, <2>1, PutOK, GoodChars DEF RInv, LinesInv
  <2>3. rst' # "done" /\ (stopped' => ~ok') /\ ~(rst' = "end" /\ ok')
    BY <2>1, LoopEndStep
  <2> QED BY <2>1, <2>2, <2>3, LoopStep DEF RInv, ReceiveInv, LinesInv
<1>14. CASE ReceiveHangup
  <2>1. /\ UNCHANGED <<args, svars, fake, carrier, stale, stopped, received, fwd, rep, pos,
                       bn, reallen, rfile>>
        /\ rst = "receive" /\ rst' = "end" /\ (ok' => ok) /\ Spoiled
    BY <1>14 DEF ReceiveHangup, LoopEnd, line, ghosts, Spoiled
  <2> QED BY <2>1, LoopStep DEF RInv, ReceiveInv, LinesInv
<1>15. CASE ReceiveEnds
  <2>1. /\ UNCHANGED <<args, svars, fake, carrier, stale, pos, bn, rfile, reallen, ok,
                       stopped, rep>>
        /\ rst = "end" /\ rst' = "done" /\ fwd' = <<>>
        /\ received' \in {"received", "failed"} /\ (received' = "received" => ok)
    BY <1>15 DEF ReceiveEnds, ghosts
  <2>2. LengthInv' /\ SendInv' /\ AheadInv'
    BY <2>1, ReceiverKeeps DEF ReceiverOK
  <2>3. ReceiveInv' /\ EndInv'
    BY <2>1 DEF RInv, ReceiveInv, EndInv, Placed, Start, BlockSize, use_ymodem, args
  <2>4. LinesInv'
    BY <2>1, LinesGrow DEF RInv, LinesInv, SenderOK, ReceiverOK, svars
  <2>5. Step
    BY <2>1, Reports DEF args, svars, RInv, ReceiveInv, EndInv
  <2> QED BY <2>2, <2>3, <2>4, <2>5 DEF RInv
<1>16. CASE StartEscape
  <2>1. /\ UNCHANGED <<args, svars, fake, carrier, stale, rst, pos, bn, rfile, received,
                       reallen, fwd, rep>>
        /\ rst = "start" /\ ok' = FALSE
    BY <1>16 DEF StartEscape
  <2> QED BY <2>1, LoopStep DEF RInv, ReceiveInv, LinesInv
<1> QED BY <1>1, <1>2, <1>3, <1>4, <1>5, <1>6, <1>7, <1>8, <1>9, <1>10, <1>11, <1>12,
        <1>13, <1>14, <1>15, <1>16 DEF Receiver

-----------------------------------------------------------------------------
(* The line, and the theorem.                                              *)

LEMMA FaultStep ==
  ASSUME IType, IType', RInv, Fault
  PROVE  RInv' /\ Step
<1> USE DEF IType
<1>1. UNCHANGED <<args, svars, rvars, stale>>
  BY DEF Fault
<1>2. (fake => fake') /\ (carrier' => carrier)
  BY DEF Fault, Lose, Damage, Noise, LoseCarrier, RestOK
<1>3. LengthInv' /\ SendInv' /\ ReceiveInv' /\ AheadInv' /\ EndInv'
  BY <1>1, <1>2 DEF RInv, LengthInv, SendInv, ReceiveInv, AheadInv, EndInv, Placed, Start,
     BlockSize, use_ymodem, Spoiled, args, svars, rvars
<1>4. GoodBlocks \subseteq GoodBlocks' /\ GoodAnswers \subseteq GoodAnswers'
  BY <1>1, <1>2, GoodGrows DEF svars, rvars, SenderOK, ReceiverOK
<1>5. fwd \in Seq(GoodBlocks') /\ rep \in Seq(GoodAnswers')
  BY <1>4, SeqMonotonic DEF RInv, LinesInv
<1>6. LinesInv'
  <2>1. CASE Lose
    BY <1>5, <2>1, RemovedOK DEF Lose, LinesInv
  <2>2. CASE Damage
    <3>1. Char("bad") \in GoodBlocks' /\ Answer("junk", NoBlock) \in GoodAnswers'
      BY <1>4, GoodChars DEF Chars
    <3>2. \A i \in DOMAIN fwd : [fwd EXCEPT ![i] = Char("bad")] \in Seq(GoodBlocks')
      BY <1>5, <3>1, ExceptSeq
    <3>3. \A i \in DOMAIN rep : [rep EXCEPT ![i] = Answer("junk", NoBlock)] \in Seq(GoodAnswers')
      BY <1>5, <3>1, ExceptSeq
    <3> QED BY <1>5, <2>2, <3>2, <3>3 DEF Damage, LinesInv
  <2>3. CASE Noise
    <3>1. ASSUME NEW ch \in {"junk", "can", "eot", "bad"}, ToReceiver(Char(ch)),
                 fake' = (fake \/ ch = "eot"), rep' = rep
          PROVE  LinesInv'
      <4>1. fwd' = Put(fwd, Char(ch), rst # "done")
        BY <3>1 DEF ToReceiver
      <4>2. Char(ch) \in GoodBlocks'
        <5>1. CASE ch = "eot"
          BY <3>1, <5>1, CharsOK DEF GoodBlocks, GoodBlock, Char, Block
        <5>2. CASE ch # "eot"
          BY <1>4, <5>2, GoodChars
        <5> QED BY <5>1, <5>2
      <4> QED BY <1>5, <3>1, <4>1, <4>2, PutOK DEF LinesInv
    <3>2. ASSUME NEW ch \in Chars, ToSender(ch, NoBlock), fwd' = fwd
          PROVE  LinesInv'
      <4>1. rep' = Put(rep, Answer(ch, NoBlock), sst # "done")
        BY <3>2 DEF ToSender
      <4>2. Answer(ch, NoBlock) \in GoodAnswers'
        BY <1>4, GoodChars
      <4> QED BY <1>5, <3>2, <4>1, <4>2, PutOK DEF LinesInv
    <3> QED BY <2>3, <3>1, <3>2 DEF Noise
  <2>4. CASE LoseCarrier
    BY <1>5, <2>4 DEF LoseCarrier, LinesInv
  <2> QED BY <2>1, <2>2, <2>3, <2>4 DEF Fault
<1>7. Step
  <2>0. UNCHANGED <<lFileSize, rfile, received, sent, stale>>
    BY <1>1 DEF args, svars, rvars
  <2>1. CASE UNCHANGED <<fake, carrier>>
    BY <2>0, <2>1, Stutters
  <2>2. CASE Spoiled'
    BY <2>0, <2>2, Spoils
  <2> QED BY <1>2, <2>1, <2>2 DEF Spoiled, RestOK
<1> QED BY <1>3, <1>6, <1>7 DEF RInv

LEMMA RefinesInitially ==
  ASSUME FewBlocks, Init
  PROVE  RInv /\ Copying!Init
<1>1. LengthInv
  BY DEF Init, FewBlocks, LengthInv
<1>2. IType
  BY TypesInitially
<1>3. Start(1) = 0
  BY StartOK
<1>4. SendInv /\ ReceiveInv
  <2>1. Placed(0, 1)
    BY <1>3 DEF Placed
  <2>2. Len(<<>>) = 0
    OBVIOUS
  <2> QED BY <2>1, <2>2 DEF Init, SendInv, ReceiveInv
<1>5. AheadInv /\ EndInv
  BY DEF Init, AheadInv, EndInv
<1>6. LinesInv
  BY DEF Init, LinesInv
<1>7. Copying!Init
  <2>1. lFileSize \in Nat \ {0}
    BY <1>2 DEF IType, ArgsOK
  <2> QED BY <2>1 DEF Init, Copying!Init
<1> QED BY <1>1, <1>4, <1>5, <1>6, <1>7 DEF RInv

LEMMA RefinesStep ==
  ASSUME IType, IType', RInv, [Next]_vars
  PROVE  RInv' /\ [Copying!Next]_(Copying!vars)
<1>1. CASE Next
  BY <1>1, SenderStep, ReceiverStep, FaultStep DEF Next, Step
<1>2. CASE UNCHANGED vars
  <2>1. UNCHANGED <<args, svars, rvars, line, ghosts>>
    BY <1>2 DEF vars
  <2>2. RInv'
    BY <2>1 DEF RInv, LengthInv, SendInv, ReceiveInv, AheadInv, EndInv, LinesInv, Placed,
       Start, BlockSize, use_ymodem, Spoiled, GoodBlocks, GoodBlock, GoodAnswers, GoodAnswer,
       SizeAt, args, svars, rvars, line, ghosts
  <2>3. Step
    BY <2>1, Stutters DEF args, svars, rvars, line, ghosts
  <2> QED BY <2>2, <2>3 DEF Step
<1> QED BY <1>1, <1>2

\* CopyingSpec: xymodem_send and xymodem_receive implement FileCopy.  Whatever
\* the line loses, damages, delays or invents, and whatever keys are pressed, the
\* receiver writes the units of the file in order and once, and neither end
\* reports a file that has not been written whole -- but for the three ways in
\* which the line can deceive them (Spoiled).
THEOREM Implements ==
  ASSUME FewBlocks
  PROVE  Spec => CopyingSpec
<1>1. Init => RInv /\ Copying!Init
  BY RefinesInitially
<1>2. IType /\ IType' /\ RInv /\ [Next]_vars => RInv' /\ [Copying!Next]_(Copying!vars)
  BY RefinesStep
<1> QED BY <1>1, <1>2, TypesAlways, PTL DEF Spec, CopyingSpec, Copying!Spec
=============================================================================
