------------------------------ MODULE BinkP_proofs ------------------------------
(***************************************************************************)
(* Proofs about BinkP, for every set of scenarios: the types, that no file *)
(* is offered to a system that has not proved itself, that M_EOB comes     *)
(* after the files, and that a pending file is kept for network1.          *)
(***************************************************************************)
EXTENDS BinkP, SequenceTheorems, TLAPS

-----------------------------------------------------------------------------
(* The members, the frames and the connection.                             *)

\* Each side is the other one's peer.
LEMMA Peers ==
  ASSUME NEW s \in Sides
  PROVE  Peer(s) \in Sides /\ Peer(s) # s
  BY DEF Sides, Peer

\* The fields of a BinkP object have their types.
LEMMA Fields ==
  ASSUME NEW m \in Members
  PROVE  /\ m.open \in BOOLEAN /\ m.error_received \in BOOLEAN /\ m.done \in BOOLEAN
         /\ m.to_send \in BOOLEAN /\ m.file_length \in Nat /\ m.start \in Nat
         /\ m.auth_type \in AuthType /\ m.challenge \in Challenges
         /\ m.current_receive_file \in [size : Nat, len : Nat, open : BOOLEAN, on : BOOLEAN]
  BY DEF Members

\* What the handlers do to a BinkP object leaves a BinkP object.
LEMMA MembersEdits ==
  ASSUME NEW m \in Members, NEW b \in BOOLEAN, NEW n \in Nat
  PROVE  /\ [m EXCEPT !.done = b] \in Members
         /\ [m EXCEPT !.open = FALSE, !.done = TRUE] \in Members
         /\ [m EXCEPT !.to_send = b] \in Members
         /\ [m EXCEPT !.start = n] \in Members
         /\ [m EXCEPT !.file_length = n, !.start = 0] \in Members
         /\ [m EXCEPT !.challenge = Challenge] \in Members
<1>1. [m EXCEPT !.done = b] \in Members
  BY DEF Members
<1>2. [m EXCEPT !.open = FALSE, !.done = TRUE] \in Members
  BY DEF Members
<1>3. [m EXCEPT !.to_send = b] \in Members
  BY DEF Members
<1>4. [m EXCEPT !.start = n] \in Members
  BY DEF Members
<1>5. [m EXCEPT !.file_length = n, !.start = 0] \in Members
  BY DEF Members
<1>6. [m EXCEPT !.challenge = Challenge] \in Members
  BY DEF Members, Challenges
<1> QED BY <1>1, <1>2, <1>3, <1>4, <1>5, <1>6

\* A new BinkP object.
LEMMA NewMembers ==
  ASSUME NEW b \in BOOLEAN
  PROVE  NewBinkP(b) \in Members
<1>1. PlainText("") \in Passwords
  BY DEF PlainText, Passwords, Challenges, Secrets
<1>2. NoFile \in [size : Nat, len : Nat, open : BOOLEAN, on : BOOLEAN]
  BY DEF NoFile
<1>3. "PLAIN_TEXT" \in AuthType
  BY DEF AuthType
<1>4. \A e \in Challenges, p \in Passwords, a \in AuthType :
      \A f \in [size : Nat, len : Nat, open : BOOLEAN, on : BOOLEAN] :
        [open |-> b, done |-> FALSE, address_list |-> FALSE, challenge |-> e,
         auth_type |-> a, remote_password |-> p,
         ok_received |-> FALSE, eob_received |-> FALSE, error_received |-> FALSE,
         to_send |-> FALSE, file_length |-> 0, start |-> 0,
         current_receive_file |-> f, received |-> FALSE] \in Members
  BY DEF Members
<1> QED BY <1>1, <1>2, <1>3, <1>4 DEF NewBinkP, Challenges

\* The frames the handlers send.
LEMMA Frames ==
  /\ \A c \in {"M_ADR", "M_OK", "M_EOB", "M_ERR"} : Cmd(c) \in Frame
  /\ [cmd |-> "M_NUL", challenge |-> Challenge] \in Frame
  /\ \A a \in AuthType, p \in Passwords :
       [cmd |-> "M_PWD", auth_type |-> a, password |-> p] \in Frame
  /\ \A n \in Nat : [cmd |-> "M_FILE", size |-> n] \in Frame
  /\ \A n \in Nat : [cmd |-> "M_GOT", len |-> n] \in Frame
  /\ \A d \in MailFile : [cmd |-> "DATA", data |-> d] \in Frame
<1>1. \A c \in {"M_ADR", "M_OK", "M_EOB", "M_ERR"} : Cmd(c) \in Frame
  BY DEF Frame, Cmd
<1>2. [cmd |-> "M_NUL", challenge |-> Challenge] \in Frame
  BY DEF Frame
<1>3. \A a \in AuthType, p \in Passwords :
        [cmd |-> "M_PWD", auth_type |-> a, password |-> p] \in Frame
  BY DEF Frame
<1>4. /\ \A n \in Nat : [cmd |-> "M_FILE", size |-> n] \in Frame
      /\ \A n \in Nat : [cmd |-> "M_GOT", len |-> n] \in Frame
  BY DEF Frame
<1>5. \A d \in MailFile : [cmd |-> "DATA", data |-> d] \in Frame
  BY DEF Frame
<1> QED BY <1>1, <1>2, <1>3, <1>4, <1>5

\* What a frame that is received carries.
LEMMA Carries ==
  ASSUME NEW f \in Frame
  PROVE  /\ f.cmd = "M_NUL" => f.challenge = Challenge
         /\ f.cmd = "M_PWD" => f.auth_type \in AuthType /\ f.password \in Passwords
         /\ f.cmd = "M_FILE" => f.size \in Nat
         /\ f.cmd = "DATA" => f.data \in MailFile
         /\ f.cmd \in {"M_ADR", "M_OK", "M_EOB", "M_ERR", "M_NUL", "M_PWD",
                       "M_FILE", "DATA", "M_GOT"}
<1>1. CASE f \in [cmd : {"M_ADR", "M_OK", "M_EOB", "M_ERR"}]
  BY <1>1
<1>2. CASE f \in [cmd : {"M_NUL"}, challenge : {Challenge}]
  BY <1>2
<1>3. CASE f \in [cmd : {"M_PWD"}, auth_type : AuthType, password : Passwords]
  BY <1>3
<1>4. CASE f \in [cmd : {"M_FILE"}, size : Nat]
  BY <1>4
<1>5. CASE f \in [cmd : {"DATA"}, data : MailFile]
  BY <1>5
<1>6. CASE f \in [cmd : {"M_GOT"}, len : Nat]
  BY <1>6
<1> QED BY <1>1, <1>2, <1>3, <1>4, <1>5, <1>6 DEF Frame

ConnectionOK == chan \in [Sides -> Seq(Frame)] /\ rst \in [Sides -> BOOLEAN]
SessionOK ==
  pc \in [Sides -> PcLabels] /\ state \in [Sides -> BinkState] /\ sess \in [Sides -> Members]

\* Sending keeps the types of the connection.
LEMMA SendType ==
  ASSUME ConnectionOK, NEW s \in Sides, NEW fs \in Seq(Frame), Send(s, fs)
  PROVE  ConnectionOK'
<1>1. \A c \in Seq(Frame) : c \o fs \in Seq(Frame)
  OBVIOUS
<1>2. chan[Peer(s)] \in Seq(Frame) /\ Peer(s) \in Sides
  BY Peers DEF ConnectionOK
<1> QED BY <1>1, <1>2 DEF Send, ConnectionOK

\* So do closing it and reading a frame from it.
LEMMA CloseType ==
  ASSUME ConnectionOK, NEW s \in Sides, Close(s)
  PROVE  ConnectionOK'
  BY Peers DEF Close, ConnectionOK

LEMMA PopType ==
  ASSUME ConnectionOK, NEW s \in Sides, chan[s] # <<>>
  PROVE  /\ Head(chan[s]) \in Frame
         /\ Pop(s) => ConnectionOK'
<1>1. chan[s] \in Seq(Frame)
  BY DEF ConnectionOK
<1>2. Head(chan[s]) \in Frame /\ Tail(chan[s]) \in Seq(Frame)
  BY <1>1
<1> QED BY <1>2 DEF Pop, ConnectionOK

\* The end of a handler.
LEMMA ReturnType ==
  ASSUME SessionOK, NEW s \in Sides, NEW next \in BinkState, NEW m \in Members,
         Return(s, next, m)
  PROVE  SessionOK'
<1>1. [m EXCEPT !.done = m.done \/ m.error_received] \in Members
  BY MembersEdits, Fields
<1>2. /\ state' = [state EXCEPT ![s] = next]
      /\ sess' = [sess EXCEPT ![s] = [m EXCEPT !.done = m.done \/ m.error_received]]
      /\ pc' = [pc EXCEPT ![s] = "tail"]
  BY DEF Return
<1> QED BY <1>1, <1>2 DEF SessionOK, PcLabels, WindowPcs

\* A step inside a handler.
LEMMA GoToType ==
  ASSUME SessionOK, NEW s \in Sides, NEW l \in PcLabels, GoTo(s, l),
         sess' \in [Sides -> Members]
  PROVE  SessionOK'
  BY DEF GoTo, SessionOK

\* The end of a process.
LEMMA ExitType ==
  ASSUME SessionOK, ConnectionOK, NEW s \in Sides, Exit(s)
  PROVE  SessionOK' /\ ConnectionOK'
<1>1. NewBinkP(FALSE) \in Members /\ StartState(s) \in BinkState
  BY NewMembers DEF StartState, BinkState
<1>2. SessionOK'
  BY <1>1 DEF Exit, SessionOK, PcLabels
<1>3. ConnectionOK'
  BY CloseType DEF Exit
<1> QED BY <1>2, <1>3

\* What a command does to the members.
LEMMA HandleType ==
  ASSUME SessionOK, NEW s \in Sides, NEW f \in Frame, f.cmd \notin {"M_GOT", "DATA"}
  PROVE  Handle(s, f) \in Members
<1> DEFINE m == sess[s]
<1>1. m \in Members
  BY DEF SessionOK
<1> HIDE DEF m
<1>2. CASE f.cmd = "M_NUL"
  <2>1. [m EXCEPT !.challenge = f.challenge, !.auth_type = "CRAM_MD5"] \in Members
    BY <1>1, <1>2, Carries DEF Members, AuthType, Challenges
  <2> QED BY <2>1, <1>2 DEF Handle, m
<1>3. CASE f.cmd = "M_ADR"
  <2>1. [m EXCEPT !.address_list = TRUE] \in Members
    BY <1>1 DEF Members
  <2> QED BY <2>1, <1>3 DEF Handle, m
<1>4. CASE f.cmd = "M_OK"
  <2>1. [m EXCEPT !.ok_received = TRUE] \in Members
    BY <1>1 DEF Members
  <2> QED BY <2>1, <1>4 DEF Handle, m
<1>5. CASE f.cmd = "M_EOB"
  <2>1. [m EXCEPT !.eob_received = TRUE] \in Members
    BY <1>1 DEF Members
  <2> QED BY <2>1, <1>5 DEF Handle, m
<1>6. CASE f.cmd = "M_ERR"
  <2>1. [m EXCEPT !.error_received = TRUE] \in Members
    BY <1>1 DEF Members
  <2> QED BY <2>1, <1>6 DEF Handle, m
<1>7. CASE f.cmd = "M_PWD"
  <2>1. [m EXCEPT !.auth_type = f.auth_type, !.remote_password = f.password] \in Members
    BY <1>1, <1>7, Carries DEF Members
  <2> QED BY <2>1, <1>7 DEF Handle, m
<1>8. CASE f.cmd = "M_FILE"
  <2>1. [m EXCEPT !.current_receive_file =
          [size |-> f.size, len |-> 0, open |-> FALSE, on |-> TRUE]] \in Members
    BY <1>1, <1>8, Carries DEF Members
  <2> QED BY <2>1, <1>8 DEF Handle, m
<1> QED BY <1>2, <1>3, <1>4, <1>5, <1>6, <1>7, <1>8, Carries
-----------------------------------------------------------------------------
(* The types are kept.                                                     *)

DiskOK ==
  /\ out \in [Sides -> MailFile] /\ inb \in [Sides -> MailFile]
  /\ pend \in [Sides -> Seq(MailFile)] /\ delivered \in [Sides -> SUBSET Nat]
RecordsOK ==
  /\ contact \in [Sides -> [numcontacts : Nat, numfails : Nat]]
  /\ posted \in [Sides -> Nat] /\ late \in [Sides -> SUBSET Nat]
  /\ offers \in [Sides -> SUBSET MailFile]
BudgetOK == budget \in [sessions : Nat, crashes : Nat, resets : Nat] /\ conf \in Scenarios

\* While a file is read out in chunks it is at least as long as it was when
\* SendFileData asked for its length: it only grows, until M_GOT comes.
ChunkInv ==
  \A s \in Sides :
    pc[s] \in {"chunk", "afterData"} /\ sess[s].to_send => sess[s].file_length <= Len(out[s])

TypeInv == TypeOK /\ ChunkInv

\* The parts of TypeOK.
LEMMA TypeParts == TypeOK <=> SessionOK /\ ConnectionOK /\ DiskOK /\ RecordsOK /\ BudgetOK
  BY DEF TypeOK, SessionOK, ConnectionOK, DiskOK, RecordsOK, BudgetOK

LEMMA TypePartsNext ==
  TypeOK' <=> SessionOK' /\ ConnectionOK' /\ DiskOK' /\ RecordsOK' /\ BudgetOK'
  BY DEF TypeOK, SessionOK, ConnectionOK, DiskOK, RecordsOK, BudgetOK

\* A handler that only changes the session and the connection.
LEMMA HandlerType ==
  ASSUME TypeOK, UNCHANGED <<disk, contact, ghost, env>>, SessionOK', ConnectionOK'
  PROVE  TypeOK'
<1>1. DiskOK' /\ RecordsOK' /\ BudgetOK'
  BY TypeParts DEF DiskOK, RecordsOK, BudgetOK, disk, ghost, env
<1> QED BY <1>1, TypePartsNext

\* A scenario has its fields.
LEMMA ConfFields ==
  ASSUME conf \in Scenarios
  PROVE  /\ conf.Password \in [Sides -> STRING \ {""}] /\ conf.AddressOk \in [Sides -> BOOLEAN]
         /\ conf.ChunkSize \in Nat \ {0} /\ conf.MaxPosted \in [Sides -> Nat]
         /\ conf.MaxSessions \in Nat /\ conf.MaxCrashes \in Nat /\ conf.MaxResets \in Nat
<1>1. conf \in Scenario
  BY ScenarioAssumption
<1> QED BY <1>1 DEF Scenario

\* The password of a side is one of the secrets.
LEMMA SecretsOf ==
  ASSUME conf \in Scenarios, NEW s \in Sides
  PROVE  conf.Password[s] \in Secrets
<1>1. conf.Password[s] \in {conf.Password[t] : t \in Sides}
  OBVIOUS
<1>2. {conf.Password[t] : t \in Sides} \in {{c.Password[t] : t \in Sides} : c \in Scenarios}
  BY Zenon
<1> QED BY <1>1, <1>2, Zenon DEF Secrets

\* The initial states.
LEMMA InitType ==
  ASSUME Init
  PROVE  TypeInv
<1>1. conf \in Scenarios
  BY DEF Init
<1>2. SessionOK
  <2>1. \A s \in Sides : StartState(s) \in BinkState
    BY DEF StartState, BinkState
  <2>2. NewBinkP(FALSE) \in Members
    BY NewMembers
  <2> QED BY <2>1, <2>2 DEF Init, SessionOK, PcLabels
<1>3. ConnectionOK
  BY DEF Init, ConnectionOK
<1>4. posted \in [Sides -> Nat]
  <2>1. conf.MaxPosted \in [Sides -> Nat]
    BY <1>1, ConfFields
  <2>2. \A s \in Sides : 0 .. conf.MaxPosted[s] \subseteq Nat
    <3> TAKE s \in Sides
    <3>1. conf.MaxPosted[s] \in Nat
      BY <2>1
    <3> QED BY <3>1
  <2> QED BY <2>2 DEF Init
<1>5. DiskOK
  <2>1. \A s \in Sides : [i \in 1 .. posted[s] |-> i] \in MailFile
    BY <1>4 DEF MailFile
  <2> QED BY <2>1 DEF Init, DiskOK, MailFile
<1>6. RecordsOK
  BY <1>4 DEF Init, RecordsOK
<1>7. BudgetOK
  BY <1>1, ConfFields DEF Init, BudgetOK
<1>8. ChunkInv
  BY DEF Init, ChunkInv
<1> QED BY <1>2, <1>3, <1>5, <1>6, <1>7, <1>8, TypeParts DEF TypeInv

\* The handlers that send what cannot go wrong and return a state.
LEMMA ReturnKeeps ==
  ASSUME TypeInv, NEW s \in Sides, NEW next \in BinkState, NEW m \in Members,
         Return(s, next, m), UNCHANGED <<disk, contact, ghost, env>>, ConnectionOK'
  PROVE  TypeInv'
<1>1. SessionOK'
  BY ReturnType, TypeParts DEF TypeInv
<1>2. TypeOK'
  BY <1>1, HandlerType DEF TypeInv
<1>3. ChunkInv'
  BY <1>1, TypeParts DEF Return, ChunkInv, TypeInv, SessionOK, disk
<1> QED BY <1>2, <1>3 DEF TypeInv

\* The handlers that go on to a place where no file is being read.
LEMMA GoToKeeps ==
  ASSUME TypeInv, NEW s \in Sides, NEW l \in PcLabels \ {"chunk", "afterData"},
         GoTo(s, l), sess' \in [Sides -> Members], \A t \in Sides \ {s} : sess'[t] = sess[t],
         UNCHANGED <<disk, contact, ghost, env>>, ConnectionOK'
  PROVE  TypeInv'
<1>1. SessionOK'
  BY GoToType, TypeParts DEF TypeInv
<1>2. TypeOK'
  BY <1>1, HandlerType DEF TypeInv
<1>3. ChunkInv'
  BY <1>1, TypeParts DEF GoTo, ChunkInv, TypeInv, SessionOK, disk
<1> QED BY <1>2, <1>3 DEF TypeInv

\* Nothing is sent.
LEMMA QuietType ==
  ASSUME ConnectionOK, Quiet
  PROVE  ConnectionOK'
  BY DEF Quiet, ConnectionOK

\* One frame is a sequence of frames.
LEMMA OneFrame ==
  ASSUME NEW f \in Frame
  PROVE  <<f>> \in Seq(Frame)
  OBVIOUS

\* The handlers of the session setup.
LEMMA SetupType ==
  ASSUME TypeInv, NEW s \in Sides,
         \/ ConnInit(s) \/ WaitConn(s) \/ WaitConnReturns(s) \/ SendPasswd(s)
         \/ WaitAddr(s) \/ AuthRemote(s) \/ IfSecure(s) \/ WaitOk(s)
         \/ WaitPwd(s) \/ PasswordAck(s)
  PROVE  TypeInv'
<1>1. /\ SessionOK /\ ConnectionOK /\ conf \in Scenarios
      /\ sess[s] \in Members
  BY TypeParts DEF TypeInv, SessionOK, BudgetOK
<1>2. /\ <<Cmd("M_OK")>> \in Seq(Frame) /\ <<Cmd("M_ERR")>> \in Seq(Frame)
      /\ Greeting(s) \in Seq(Frame)
  BY Frames DEF Greeting
<1>3. CASE ConnInit(s)
  BY <1>1, <1>3, ReturnKeeps, QuietType DEF ConnInit, BinkState
<1>4. CASE WaitConn(s)
  <2>1. ConnectionOK'
    BY <1>1, <1>2, <1>4, SendType DEF WaitConn
  <2>2. [sess[s] EXCEPT !.challenge = Challenge] \in Members
    BY <1>1, MembersEdits
  <2>3. [sess[s] EXCEPT !.challenge = sess[s].challenge] = sess[s]
    BY <1>1 DEF Members
  <2>4. /\ sess' \in [Sides -> Members]
        /\ \A t \in Sides \ {s} : sess'[t] = sess[t]
    BY <1>1, <1>4, <2>2, <2>3 DEF WaitConn, SessionOK
  <2> QED BY <1>4, <2>1, <2>4, GoToKeeps DEF WaitConn, PcLabels, WindowPcs
<1>5. CASE WaitConnReturns(s)
  BY <1>1, <1>5, ReturnKeeps, QuietType DEF WaitConnReturns, BinkState
<1>6. CASE SendPasswd(s)
  <2> DEFINE p == IF sess[s].auth_type = "CRAM_MD5"
                    THEN CreateHashedSecret(sess[s].challenge, conf.Password[s])
                    ELSE PlainText(conf.Password[s])
  <2>1. conf.Password[s] \in Secrets
    BY <1>1, SecretsOf
  <2>2. p \in Passwords
    BY <1>1, <2>1, Fields DEF CreateHashedSecret, PlainText, Passwords, Challenges
  <2>3. [cmd |-> "M_PWD", auth_type |-> sess[s].auth_type, password |-> p] \in Frame
    BY <1>1, <2>2, Frames, Fields
  <2>4. ConnectionOK'
    BY <1>1, <1>6, <2>3, SendType, OneFrame DEF SendPasswd
  <2> QED BY <1>1, <1>6, <2>4, ReturnKeeps DEF SendPasswd, BinkState
<1>7. CASE WaitAddr(s)
  BY <1>1, <1>7, ReturnKeeps, QuietType DEF WaitAddr, BinkState
<1>8. CASE AuthRemote(s)
  <2>1. ConnectionOK'
    BY <1>1, <1>2, <1>8, SendType, QuietType DEF AuthRemote
  <2> QED BY <1>1, <1>8, <2>1, ReturnKeeps DEF AuthRemote, BinkState
<1>9. CASE IfSecure(s)
  BY <1>1, <1>9, ReturnKeeps, QuietType DEF IfSecure, BinkState
<1>10. CASE WaitOk(s)
  <2>1. ConnectionOK'
    BY <1>1, <1>2, <1>10, SendType, QuietType DEF WaitOk
  <2> QED BY <1>1, <1>10, <2>1, ReturnKeeps DEF WaitOk, BinkState
<1>11. CASE WaitPwd(s)
  BY <1>1, <1>11, ReturnKeeps, QuietType DEF WaitPwd, BinkState
<1>12. CASE PasswordAck(s)
  <2>1. ConnectionOK'
    BY <1>1, <1>2, <1>12, SendType DEF PasswordAck
  <2> QED BY <1>1, <1>12, <2>1, ReturnKeeps DEF PasswordAck, BinkState
<1> QED BY <1>3, <1>4, <1>5, <1>6, <1>7, <1>8, <1>9, <1>10, <1>11, <1>12

\* What the file being read gives is mail, and so is what the buffer held.
LEMMA ChunkType ==
  ASSUME TypeInv, NEW s \in Sides, pc[s] = "chunk"
  PROVE  /\ GarbageChunk(s) \in MailFile
         /\ sess[s].to_send => SubSeq(out[s], sess[s].start + 1, ChunkEnd(s)) \in MailFile
<1>1. /\ sess[s].start \in Nat /\ sess[s].file_length \in Nat
      /\ sess[s].to_send \in BOOLEAN /\ conf.ChunkSize \in Nat \ {0} /\ out[s] \in Seq(Nat)
  BY Fields, ConfFields, TypeParts DEF TypeInv, SessionOK, BudgetOK, DiskOK, MailFile
<1>2. ChunkEnd(s) \in Nat /\ ChunkEnd(s) <= sess[s].file_length
  BY <1>1 DEF ChunkEnd
<1>3. GarbageChunk(s) \in MailFile
  <2> DEFINE n == IF ChunkEnd(s) - sess[s].start >= 0 THEN ChunkEnd(s) - sess[s].start ELSE 0
  <2>1. n \in Nat /\ 1 .. (ChunkEnd(s) - sess[s].start) = 1 .. n
    BY <1>1, <1>2
  <2>2. GarbageChunk(s) = [i \in 1 .. n |-> Garbage]
    BY <2>1 DEF GarbageChunk
  <2> QED BY <2>1, <2>2 DEF MailFile, Garbage
<1>4. ASSUME sess[s].to_send
      PROVE  SubSeq(out[s], sess[s].start + 1, ChunkEnd(s)) \in MailFile
  <2>1. sess[s].file_length <= Len(out[s])
    BY <1>4 DEF TypeInv, ChunkInv
  <2>2. \A i \in sess[s].start + 1 .. ChunkEnd(s) : i \in 1 .. Len(out[s])
    BY <1>1, <1>2, <2>1
  <2>3. \A i \in sess[s].start + 1 .. ChunkEnd(s) : out[s][i] \in Nat
    BY <1>1, <2>2
  <2> QED BY <1>1, <1>2, <2>3, SubSeqProperties DEF MailFile
<1> QED BY <1>3, <1>4

\* A chunk is sent.
LEMMA SendChunkType ==
  ASSUME TypeInv, NEW s \in Sides, pc[s] = "chunk", NEW data \in MailFile, SendChunk(s, data)
  PROVE  TypeInv'
<1>1. /\ SessionOK /\ ConnectionOK /\ sess[s] \in Members
      /\ sess[s].start + conf.ChunkSize \in Nat
  <2>1. SessionOK /\ ConnectionOK /\ sess[s] \in Members /\ conf \in Scenarios
    BY TypeParts DEF TypeInv, SessionOK, BudgetOK
  <2>2. sess[s].start \in Nat /\ conf.ChunkSize \in Nat
    BY <2>1, Fields, ConfFields
  <2> QED BY <2>1, <2>2
<1>2. ConnectionOK'
  BY <1>1, Frames, OneFrame, SendType DEF SendChunk
<1>3. [sess[s] EXCEPT !.start = sess[s].start + conf.ChunkSize] \in Members
  BY <1>1, MembersEdits
<1>4. /\ sess' \in [Sides -> Members]
      /\ \A t \in Sides \ {s} : sess'[t] = sess[t]
      /\ sess'[s].to_send = sess[s].to_send /\ sess'[s].file_length = sess[s].file_length
  BY <1>1, <1>3 DEF SendChunk, SessionOK, Members
<1>5. SessionOK'
  BY <1>1, <1>4, GoToType DEF SendChunk, PcLabels, WindowPcs
<1>6. TypeOK'
  BY <1>2, <1>5, HandlerType DEF SendChunk, TypeInv
<1>7. ChunkInv'
  BY <1>4, <1>1 DEF SendChunk, GoTo, TypeInv, ChunkInv, disk, SessionOK
<1> QED BY <1>6, <1>7 DEF TypeInv

\* TransferFiles and its helpers.
LEMMA TransferType ==
  ASSUME TypeInv, NEW s \in Sides,
         \/ SendFilePacket(s) \/ NothingToSend(s) \/ SendFileData(s)
         \/ GetChunk(s) \/ BadChunk(s) \/ DanglingChunk(s) \/ AfterChunk(s)
         \/ SendEob(s) \/ TransferFilesReturns(s)
  PROVE  TypeInv'
<1>1. /\ SessionOK /\ ConnectionOK /\ DiskOK /\ RecordsOK /\ BudgetOK
      /\ sess[s] \in Members /\ sess \in [Sides -> Members] /\ out[s] \in Seq(Nat)
      /\ Len(out[s]) \in Nat
  BY TypeParts DEF TypeInv, SessionOK, DiskOK, MailFile
<1>2. CASE SendFilePacket(s)
  <2>1. ConnectionOK'
    BY <1>1, <1>2, Frames, OneFrame, SendType DEF SendFilePacket
  <2>2. [sess[s] EXCEPT !.to_send = TRUE] \in Members
    BY <1>1, MembersEdits
  <2>3. sess' \in [Sides -> Members] /\ \A t \in Sides \ {s} : sess'[t] = sess[t]
    BY <1>1, <1>2, <2>2 DEF SendFilePacket
  <2>4. SessionOK'
    BY <1>1, <1>2, <2>3, GoToType DEF SendFilePacket, PcLabels, WindowPcs
  <2>5. RecordsOK'
    BY <1>1, <1>2 DEF SendFilePacket, RecordsOK, MailFile
  <2>6. DiskOK' /\ BudgetOK'
    BY <1>1, <1>2 DEF SendFilePacket, DiskOK, BudgetOK, disk, env
  <2>7. ChunkInv'
    BY <1>1, <1>2, <2>3 DEF SendFilePacket, TypeInv, ChunkInv, GoTo, disk, SessionOK
  <2> QED BY <2>1, <2>4, <2>5, <2>6, <2>7, TypePartsNext DEF TypeInv
<1>3. CASE NothingToSend(s)
  BY <1>1, <1>3, GoToKeeps, QuietType DEF NothingToSend, PcLabels, WindowPcs
<1>4. CASE SendFileData(s)
  <2>1. ConnectionOK'
    BY <1>1, <1>4, QuietType DEF SendFileData
  <2>2. CASE ~sess[s].to_send
    BY <1>1, <1>4, <2>1, <2>2, GoToKeeps DEF SendFileData, PcLabels, WindowPcs
  <2>3. CASE sess[s].to_send
    <3>1. [sess[s] EXCEPT !.file_length = Len(out[s]), !.start = 0] \in Members
      BY <1>1, MembersEdits
    <3> DEFINE m == [sess[s] EXCEPT !.file_length = Len(out[s]), !.start = 0]
    <3>a. sess' = [sess EXCEPT ![s] = m]
      BY <1>4, <2>3 DEF SendFileData, FileSize
    <3>b. m.file_length = Len(out[s])
      BY <1>1 DEF Members
    <3> HIDE DEF m
    <3>2. /\ sess' \in [Sides -> Members] /\ \A t \in Sides \ {s} : sess'[t] = sess[t]
          /\ sess'[s].file_length = Len(out[s])
      BY <1>1, <3>1, <3>a, <3>b DEF m
    <3>3. SessionOK'
      BY <1>1, <1>4, <2>3, <3>2, GoToType DEF SendFileData, PcLabels, WindowPcs
    <3>4. TypeOK'
      BY <1>4, <2>1, <3>3, HandlerType DEF SendFileData, TypeInv
    <3>5. ChunkInv'
      <4>1. out' = out /\ pc' = [pc EXCEPT ![s] = "chunk"] /\ pc \in [Sides -> PcLabels]
        BY <1>1, <1>4, <2>3 DEF SendFileData, GoTo, disk, SessionOK
      <4>2. sess'[s].file_length <= Len(out'[s])
        BY <1>1, <3>2, <4>1
      <4>3. \A t \in Sides \ {s} : pc'[t] = pc[t]
        BY <4>1
      <4> QED BY <3>2, <4>1, <4>2, <4>3 DEF TypeInv, ChunkInv
    <3> QED BY <3>4, <3>5 DEF TypeInv
  <2> QED BY <2>2, <2>3
<1>5. CASE GetChunk(s)
  BY <1>5, ChunkType, SendChunkType DEF GetChunk
<1>6. CASE BadChunk(s) \/ DanglingChunk(s)
  BY <1>6, ChunkType, SendChunkType DEF BadChunk, DanglingChunk
<1>7. CASE AfterChunk(s)
  <2>1. ConnectionOK'
    BY <1>1, <1>7, QuietType DEF AfterChunk
  <2>2. SessionOK'
    BY <1>1, <1>7, GoToType DEF AfterChunk, PcLabels, WindowPcs
  <2>3. TypeOK'
    BY <1>7, <2>1, <2>2, HandlerType DEF AfterChunk, TypeInv
  <2>4. ChunkInv'
    BY <1>1, <1>7 DEF AfterChunk, TypeInv, ChunkInv, GoTo, disk, SessionOK
  <2> QED BY <2>3, <2>4 DEF TypeInv
<1>8. CASE SendEob(s)
  <2>1. ConnectionOK'
    BY <1>1, <1>8, Frames, OneFrame, SendType DEF SendEob
  <2> QED BY <1>1, <1>8, <2>1, GoToKeeps DEF SendEob, PcLabels, WindowPcs
<1>9. CASE TransferFilesReturns(s)
  BY <1>1, <1>9, ReturnKeeps, QuietType DEF TransferFilesReturns, BinkState
<1> QED BY <1>2, <1>3, <1>4, <1>5, <1>6, <1>7, <1>8, <1>9

\* A command that is received.
LEMMA CommandType ==
  ASSUME TypeInv, NEW s \in Sides, ReceiveCommand(s)
  PROVE  TypeInv'
<1>1. SessionOK /\ ConnectionOK /\ chan[s] # <<>>
  BY TypeParts DEF TypeInv, ReceiveCommand
<1>2. Head(chan[s]) \in Frame /\ ConnectionOK'
  BY <1>1, PopType DEF ReceiveCommand
<1> DEFINE f == Head(chan[s])
<1>3. Handle(s, f) \in Members
  BY <1>1, <1>2, HandleType DEF ReceiveCommand
<1>4. sess' = [sess EXCEPT ![s] = Handle(s, f)] /\ UNCHANGED <<pc, state, disk, contact, ghost, env>>
  BY DEF ReceiveCommand
<1>5. /\ Handle(s, f).to_send = sess[s].to_send
      /\ Handle(s, f).file_length = sess[s].file_length
  <2>1. /\ sess[s] \in Members
        /\ f.cmd \in {"M_ADR", "M_OK", "M_EOB", "M_ERR", "M_NUL", "M_PWD", "M_FILE"}
    BY <1>1, <1>2, Carries DEF SessionOK, ReceiveCommand
  <2> QED BY <2>1 DEF Handle, Members
<1>6. SessionOK'
  BY <1>1, <1>3, <1>4 DEF SessionOK
<1>7. TypeOK'
  BY <1>2, <1>4, <1>6, HandlerType DEF TypeInv
<1> HIDE DEF f
<1>8. ChunkInv'
  <2>1. /\ \A t \in Sides : sess'[t].to_send = sess[t].to_send
        /\ \A t \in Sides : sess'[t].file_length = sess[t].file_length
    BY <1>1, <1>4, <1>5 DEF SessionOK
  <2> QED BY <1>4, <2>1 DEF ChunkInv, TypeInv, disk
<1> QED BY <1>7, <1>8 DEF TypeInv

\* M_GOT: the file is deleted, and is not being read any more.
LEMMA GotType ==
  ASSUME TypeInv, NEW s \in Sides, HandleFileGotRequest(s)
  PROVE  TypeInv'
<1>1. /\ SessionOK /\ ConnectionOK /\ DiskOK /\ RecordsOK /\ BudgetOK /\ chan[s] # <<>>
      /\ sess[s] \in Members
  BY TypeParts DEF TypeInv, HandleFileGotRequest, SessionOK
<1>2. ConnectionOK'
  BY <1>1, PopType DEF HandleFileGotRequest
<1> DEFINE m == [sess[s] EXCEPT !.to_send = FALSE]
<1>3. m \in Members /\ ~m.to_send
  <2>1. m \in Members
    BY <1>1, MembersEdits
  <2>2. ~m.to_send
    BY <1>1 DEF Members
  <2> QED BY <2>1, <2>2
<1>4. sess' = [sess EXCEPT ![s] = m]
  BY DEF HandleFileGotRequest
<1>5. UNCHANGED <<pc, state, inb, pend, delivered, contact, ghost, env>>
  BY DEF HandleFileGotRequest
<1>6. out' \in [Sides -> MailFile] /\ \A t \in Sides \ {s} : out'[t] = out[t]
  <2>1. CASE out' = [out EXCEPT ![s] = AfterGot(s)]
    BY <1>1, <2>1 DEF AfterGot, DiskOK, MailFile
  <2>2. CASE out' = out
    BY <1>1, <2>2 DEF DiskOK
  <2> QED BY <2>1, <2>2 DEF HandleFileGotRequest
<1> HIDE DEF m
<1>7. SessionOK' /\ DiskOK' /\ RecordsOK' /\ BudgetOK'
  BY <1>1, <1>3, <1>4, <1>5, <1>6 DEF SessionOK, DiskOK, RecordsOK, BudgetOK, ghost, env
<1>8. ChunkInv'
  <2>1. /\ \A t \in Sides \ {s} : sess'[t] = sess[t]
        /\ ~sess'[s].to_send
    BY <1>1, <1>3, <1>4 DEF SessionOK
  <2> QED BY <1>5, <1>6, <2>1 DEF ChunkInv, TypeInv
<1> QED BY <1>2, <1>7, <1>8, TypePartsNext DEF TypeInv

\* A data frame is written, and M_GOT sent when it was the last one.
LEMMA DataType ==
  ASSUME TypeInv, NEW s \in Sides, process_data(s)
  PROVE  TypeInv'
<1> DEFINE file == sess[s].current_receive_file
           data == Head(chan[s]).data
           len  == file.len + (IF MayWrite(s) THEN Len(data) ELSE 0)
           m1 == [sess[s] EXCEPT !.current_receive_file = NoFile, !.received = TRUE]
           m2 == [sess[s] EXCEPT !.current_receive_file =
                    [file EXCEPT !.len = len, !.open = MayWrite(s)]]
<1>1. /\ SessionOK /\ ConnectionOK /\ DiskOK /\ RecordsOK /\ BudgetOK /\ chan[s] # <<>>
      /\ sess[s] \in Members /\ inb[s] \in Seq(Nat)
  BY TypeParts DEF TypeInv, process_data, SessionOK, DiskOK, MailFile
<1>2. data \in Seq(Nat)
  BY <1>1, PopType, Carries DEF process_data, MailFile
<1>3. /\ file \in [size : Nat, len : Nat, open : BOOLEAN, on : BOOLEAN]
      /\ MayWrite(s) \in BOOLEAN
  BY <1>1, Fields DEF MayWrite
<1>4. len \in Nat
  <2>1. file.len \in Nat /\ Len(data) \in Nat
    BY <1>2, <1>3
  <2> QED BY <2>1
<1>5. /\ m1 \in Members /\ m1.to_send = sess[s].to_send
      /\ m1.file_length = sess[s].file_length
  BY <1>1 DEF Members, NoFile
<1>6. [file EXCEPT !.len = len, !.open = MayWrite(s)]
        \in [size : Nat, len : Nat, open : BOOLEAN, on : BOOLEAN]
  BY <1>3, <1>4
<1>7. /\ m2 \in Members /\ m2.to_send = sess[s].to_send
      /\ m2.file_length = sess[s].file_length
  BY <1>1, <1>6 DEF Members
<1>8. inb' \in [Sides -> MailFile]
  <2>1. inb[s] \o data \in Seq(Nat)
    BY <1>1, <1>2
  <2>2. inb' = [inb EXCEPT ![s] = IF MayWrite(s) THEN inb[s] \o data ELSE inb[s]]
    BY DEF process_data
  <2> QED BY <1>1, <2>1, <2>2 DEF DiskOK, MailFile
<1>9. ConnectionOK'
  <2>1. CASE Complete(s, len)
    <3>1. [cmd |-> "M_GOT", len |-> len] \in Frame
      BY <1>4, Frames
    <3>2. /\ chan' = [chan EXCEPT
               ![s] = Tail(chan[s]),
               ![Peer(s)] = IF Connected(s) THEN Append(chan[Peer(s)], [cmd |-> "M_GOT", len |-> len])
                                            ELSE chan[Peer(s)]]
          /\ rst' = [rst EXCEPT ![s] = rst[s] \/ ~Connected(s)]
      BY <2>1, Peers DEF process_data
    <3>3. Tail(chan[s]) \in Seq(Frame) /\ chan[Peer(s)] \in Seq(Frame) /\ Peer(s) \in Sides
      BY <1>1, Peers DEF ConnectionOK
    <3>4. Append(chan[Peer(s)], [cmd |-> "M_GOT", len |-> len]) \in Seq(Frame)
      BY <3>1, <3>3
    <3> QED BY <1>1, <3>2, <3>3, <3>4 DEF ConnectionOK
  <2>2. CASE ~Complete(s, len)
    BY <1>1, <2>2, PopType DEF process_data
  <2> QED BY <2>1, <2>2
<1>10. sess' = [sess EXCEPT ![s] = m1] \/ sess' = [sess EXCEPT ![s] = m2]
  BY DEF process_data
<1>11. UNCHANGED <<pc, state, out, pend, delivered, contact, ghost, env>>
  BY DEF process_data
<1> HIDE DEF m1, m2
<1>12. SessionOK' /\ DiskOK' /\ RecordsOK' /\ BudgetOK'
  BY <1>1, <1>5, <1>7, <1>8, <1>10, <1>11
     DEF SessionOK, DiskOK, RecordsOK, BudgetOK, ghost, env
<1>13. ChunkInv'
  <2>1. /\ \A t \in Sides : sess'[t].to_send = sess[t].to_send
        /\ \A t \in Sides : sess'[t].file_length = sess[t].file_length
    BY <1>1, <1>5, <1>7, <1>10 DEF SessionOK
  <2> QED BY <1>11, <2>1 DEF ChunkInv, TypeInv
<1> QED BY <1>9, <1>12, <1>13, TypePartsNext DEF TypeInv

\* A frame that is dropped, the end of the stream, and a reset.
LEMMA LinkType ==
  ASSUME TypeInv, NEW s \in Sides, DropData(s) \/ SocketClosed(s) \/ ResetArrives(s)
  PROVE  TypeInv'
<1>1. SessionOK /\ ConnectionOK
  BY TypeParts DEF TypeInv
<1>2. UNCHANGED <<state, sess, disk, contact, ghost, env>> /\ SessionOK'
  BY <1>1 DEF DropData, SocketClosed, ResetArrives, SessionOK, PcLabels
<1>3. ConnectionOK'
  <2>1. CASE DropData(s)
    BY <1>1, <2>1, PopType DEF DropData
  <2>2. CASE SocketClosed(s)
    BY <1>1, <2>2 DEF SocketClosed, ConnectionOK
  <2>3. CASE ResetArrives(s)
    BY <1>1, <2>3 DEF ResetArrives, ConnectionOK
  <2> QED BY <2>1, <2>2, <2>3
<1>4. TypeOK'
  BY <1>2, <1>3, HandlerType DEF TypeInv
<1>5. ChunkInv'
  <2>1. \A t \in Sides : pc'[t] = pc[t] \/ pc'[t] = "rename"
    BY <1>1 DEF DropData, SocketClosed, ResetArrives, SessionOK
  <2> QED BY <1>2, <2>1 DEF TypeInv, ChunkInv, disk
<1> QED BY <1>4, <1>5 DEF TypeInv

\* network1 takes in packets.
LEMMA NetworkType ==
  ASSUME DiskOK, NEW s \in Sides, Network1(s), UNCHANGED <<out, inb>>
  PROVE  DiskOK'
<1>1. Packets(pend[s]) \in SUBSET Nat
  <2>1. pend[s] \in Seq(Seq(Nat))
    BY DEF DiskOK, MailFile
  <2>2. \A i \in DOMAIN pend[s] : Range(pend[s][i]) \subseteq Nat
    <3> TAKE i \in DOMAIN pend[s]
    <3>1. pend[s][i] \in Seq(Nat)
      BY <2>1
    <3> QED BY <3>1 DEF Range
  <2> QED BY <2>2 DEF Packets
<1>2. pend' \in [Sides -> Seq(MailFile)]
  BY DEF Network1, DiskOK
<1>3. delivered' \in [Sides -> SUBSET Nat]
  BY <1>1 DEF Network1, DiskOK
<1> QED BY <1>2, <1>3 DEF DiskOK

\* The end of a session.
LEMMA EndType ==
  ASSUME TypeInv, NEW s \in Sides,
         \/ WaitEob(s) \/ Unknown(s) \/ Done(s) \/ LoopEnd(s)
         \/ rename_pending_files(s) \/ process_network_files(s) \/ UpdateContact(s)
  PROVE  TypeInv'
<1>1. /\ SessionOK /\ ConnectionOK /\ DiskOK /\ RecordsOK /\ BudgetOK
      /\ sess[s] \in Members /\ sess \in [Sides -> Members]
  BY TypeParts DEF TypeInv, SessionOK
<1>2. CASE WaitEob(s)
  BY <1>1, <1>2, ReturnKeeps, QuietType DEF WaitEob, BinkState
<1>3. CASE Unknown(s)
  BY <1>1, <1>3, ReturnKeeps, QuietType DEF Unknown, BinkState
<1>4. CASE Done(s)
  <2>1. ConnectionOK'
    BY <1>1, <1>4, CloseType DEF Done
  <2>2. [sess[s] EXCEPT !.open = FALSE, !.done = TRUE] \in Members
    BY <1>1, MembersEdits
  <2> QED BY <1>4, <2>1, <2>2, ReturnKeeps DEF Done, BinkState
<1>5. CASE LoopEnd(s)
  BY <1>1, <1>5, GoToKeeps, QuietType DEF LoopEnd, PcLabels
<1>6. CASE rename_pending_files(s) \/ process_network_files(s)
  <2>1. PICK l \in PcLabels \ {"chunk", "afterData"} :
          GoTo(s, l) /\ Quiet /\ UNCHANGED <<sess, out, contact, ghost, env>>
    BY <1>6 DEF rename_pending_files, process_network_files, PcLabels
  <2>2. SessionOK' /\ ConnectionOK' /\ RecordsOK' /\ BudgetOK'
    <3>1. SessionOK'
      BY <1>1, <2>1, GoToType
    <3>2. ConnectionOK'
      BY <1>1, <2>1, QuietType
    <3>3. RecordsOK' /\ BudgetOK'
      BY <1>1, <2>1 DEF RecordsOK, BudgetOK, ghost, env
    <3> QED BY <3>1, <3>2, <3>3
  <2>3. ChunkInv'
    BY <1>1, <2>1 DEF GoTo, ChunkInv, TypeInv, SessionOK
  <2>4. DiskOK'
    <3>1. CASE rename_pending_files(s)
      <4>1. Renamed(s) \in Seq(MailFile)
        BY <1>1 DEF Renamed, DiskOK
      <4>2. <<>> \in MailFile
        BY DEF MailFile
      <4>3. /\ UNCHANGED <<out, delivered>>
            /\ \/ UNCHANGED <<pend, inb>>
               \/ /\ pend' = [pend EXCEPT ![s] = Renamed(s)]
                  /\ inb' = [inb EXCEPT ![s] = <<>>]
        BY <3>1 DEF rename_pending_files
      <4> QED BY <1>1, <4>1, <4>2, <4>3 DEF DiskOK
    <3>2. CASE process_network_files(s)
      BY <1>1, <3>2, NetworkType DEF process_network_files, DiskOK
    <3> QED BY <1>6, <3>1, <3>2
  <2> QED BY <2>2, <2>3, <2>4, TypePartsNext DEF TypeInv
<1>7. CASE UpdateContact(s)
  <2>1. SessionOK' /\ ConnectionOK'
    BY <1>1, <1>7, ExitType DEF UpdateContact
  <2>a. /\ add_contact(contact[s]) \in [numcontacts : Nat, numfails : Nat]
        /\ add_failure(contact[s]) \in [numcontacts : Nat, numfails : Nat]
    <3>1. contact[s] \in [numcontacts : Nat, numfails : Nat]
      BY <1>1 DEF RecordsOK
    <3>2. contact[s].numcontacts + 1 \in Nat /\ contact[s].numfails + 1 \in Nat
      BY <3>1
    <3> QED BY <3>1, <3>2 DEF add_contact, add_failure
  <2>2. contact' \in [Sides -> [numcontacts : Nat, numfails : Nat]]
    BY <1>1, <1>7, <2>a DEF RecordsOK, UpdateContact
  <2>3. DiskOK' /\ RecordsOK' /\ BudgetOK'
    BY <1>1, <1>7, <2>2 DEF UpdateContact, DiskOK, RecordsOK, BudgetOK, disk, ghost, env
  <2>4. ChunkInv'
    BY <1>1, <1>7 DEF UpdateContact, Exit, ChunkInv, TypeInv, SessionOK, disk
  <2> QED BY <2>1, <2>3, <2>4, TypePartsNext DEF TypeInv
<1> QED BY <1>2, <1>3, <1>4, <1>5, <1>6, <1>7

\* The environment.
LEMMA EnvironmentType ==
  ASSUME TypeInv, Environment
  PROVE  TypeInv'
<1>1. /\ SessionOK /\ ConnectionOK /\ DiskOK /\ RecordsOK /\ BudgetOK
  BY TypeParts DEF TypeInv, SessionOK
<1>2. ASSUME NEW what \in {"sessions", "crashes", "resets"}, Spend(what), conf' = conf
      PROVE  BudgetOK'
  <2>1. budget' \in [sessions : Nat, crashes : Nat, resets : Nat]
    <3>1. CASE what = "sessions"
      BY <1>1, <1>2, <3>1 DEF Spend, BudgetOK
    <3>2. CASE what = "crashes"
      BY <1>1, <1>2, <3>2 DEF Spend, BudgetOK
    <3>3. CASE what = "resets"
      BY <1>1, <1>2, <3>3 DEF Spend, BudgetOK
    <3> QED BY <3>1, <3>2, <3>3
  <2> QED BY <1>1, <1>2, <2>1 DEF BudgetOK
<1>3. CASE Call
  <2>a. NewBinkP(TRUE) \in Members
    BY NewMembers
  <2>1. SessionOK' /\ ConnectionOK'
    <3>1. SessionOK'
      BY <1>1, <1>3, <2>a DEF Call, SessionOK, PcLabels
    <3>2. ConnectionOK'
      BY <1>3 DEF Call, ConnectionOK
    <3> QED BY <3>1, <3>2
  <2>2. DiskOK' /\ RecordsOK' /\ BudgetOK'
    BY <1>1, <1>2, <1>3 DEF Call, DiskOK, RecordsOK, disk, ghost
  <2>3. ChunkInv'
    BY <1>3 DEF Call, ChunkInv
  <2> QED BY <2>1, <2>2, <2>3, TypePartsNext DEF TypeInv
<1>4. CASE Reset
  <2>1. SessionOK' /\ ConnectionOK'
    BY <1>1, <1>4 DEF Reset, SessionOK, ConnectionOK
  <2>2. DiskOK' /\ RecordsOK' /\ BudgetOK'
    BY <1>1, <1>2, <1>4 DEF Reset, DiskOK, RecordsOK, disk, ghost
  <2>3. ChunkInv'
    BY <1>4 DEF Reset, ChunkInv, TypeInv, disk
  <2> QED BY <2>1, <2>2, <2>3, TypePartsNext DEF TypeInv
<1>5. ASSUME NEW s \in Sides, Crash(s)
      PROVE  TypeInv'
  <2>1. SessionOK' /\ ConnectionOK'
    BY <1>1, <1>5, ExitType DEF Crash
  <2>2. DiskOK' /\ RecordsOK' /\ BudgetOK'
    BY <1>1, <1>2, <1>5 DEF Crash, DiskOK, RecordsOK, disk, ghost
  <2>3. ChunkInv'
    BY <1>1, <1>5 DEF Crash, Exit, ChunkInv, TypeInv, SessionOK, disk
  <2> QED BY <2>1, <2>2, <2>3, TypePartsNext DEF TypeInv
<1>6. ASSUME NEW s \in Sides, network1_appends(s)
      PROVE  TypeInv'
  <2>1. posted[s] + 1 \in Nat /\ out[s] \in Seq(Nat)
    BY <1>1 DEF RecordsOK, DiskOK, MailFile
  <2>2. /\ Append(out[s], posted[s] + 1) \in Seq(Nat)
        /\ Len(Append(out[s], posted[s] + 1)) = Len(out[s]) + 1
    BY <2>1
  <2>3. out' = [out EXCEPT ![s] = Append(out[s], posted[s] + 1)]
    BY <1>6 DEF network1_appends
  <2>4. SessionOK' /\ ConnectionOK' /\ BudgetOK'
    BY <1>1, <1>6 DEF network1_appends, SessionOK, ConnectionOK, BudgetOK, env
  <2>5. DiskOK'
    BY <1>1, <1>6, <2>2, <2>3 DEF network1_appends, DiskOK, MailFile
  <2>6. RecordsOK'
    BY <1>1, <1>6, <2>1 DEF network1_appends, RecordsOK
  <2>7. ChunkInv'
    <3>1. \A t \in Sides : Len(out[t]) \in Nat /\ Len(out[t]) <= Len(out'[t])
      BY <1>1, <2>2, <2>3 DEF DiskOK, MailFile
    <3>2. \A t \in Sides : sess[t].file_length \in Nat
      BY <1>1, Fields DEF SessionOK
    <3>3. UNCHANGED <<pc, sess>> /\ \A t \in Sides : Len(out'[t]) \in Nat
      BY <1>6, <2>5 DEF network1_appends, DiskOK, MailFile
    <3> QED BY <3>1, <3>2, <3>3 DEF ChunkInv, TypeInv
  <2> QED BY <2>4, <2>5, <2>6, <2>7, TypePartsNext DEF TypeInv
<1>7. ASSUME NEW s \in Sides, network1_tosses(s)
      PROVE  TypeInv'
  <2>1. DiskOK'
    BY <1>1, <1>7, NetworkType DEF network1_tosses
  <2>2. SessionOK' /\ ConnectionOK' /\ RecordsOK' /\ BudgetOK'
    BY <1>1, <1>7 DEF network1_tosses, SessionOK, ConnectionOK, RecordsOK, BudgetOK, ghost, env
  <2>3. ChunkInv'
    BY <1>7 DEF network1_tosses, ChunkInv, TypeInv
  <2> QED BY <2>1, <2>2, <2>3, TypePartsNext DEF TypeInv
<1> QED BY <1>3, <1>4, <1>5, <1>6, <1>7, LinkType DEF Environment

\* Every step keeps the types, and the length a file had when it was opened.
LEMMA NextType ==
  ASSUME TypeInv, [Next]_vars
  PROVE  TypeInv'
<1>1. CASE UNCHANGED vars
  BY <1>1 DEF vars, disk, ghost, env, TypeInv, TypeOK, ChunkInv
<1>2. CASE Environment
  BY <1>2, EnvironmentType
<1>3. ASSUME NEW s \in Sides, Step(s)
      PROVE  TypeInv'
  BY <1>3, SetupType, TransferType, EndType, CommandType, GotType, DataType, LinkType
     DEF Step, Handler, ReceiveFrame
<1> QED BY <1>1, <1>2, <1>3 DEF Next

\* Whatever the scenarios, the members of the two BinkP objects, the frames
\* on the link and the files on disk keep their types; above all a chunk is
\* never read beyond the end of the outbound file.
THEOREM TypeCorrect == Spec => []TypeOK
<1>1. Init => TypeInv
  BY InitType
<1>2. TypeInv /\ [Next]_vars => TypeInv'
  BY NextType
<1> QED BY <1>1, <1>2, PTL DEF Spec, TypeInv

-----------------------------------------------------------------------------
(* No file is offered to a stranger.                                       *)

PasswordsDiffer == conf.Password["ORIGINATING"] # conf.Password["ANSWERING"]
Refused == PasswordsDiffer \/ ~conf.AddressOk["ANSWERING"]

\* The states side s can be in.  What the other side has yet to prove cuts
\* the path to TRANSFER_FILES.
MayBe(s) ==
  {x \in BinkState :
     /\ s = "ORIGINATING" =>
          /\ x \notin {"WAIT_PWD", "PASSWORD_ACK"}
          /\ ~conf.AddressOk["ORIGINATING"] => x \notin {"IF_SECURE", "WAIT_OK", "TRANSFER_FILES"}
     /\ s = "ANSWERING" =>
          /\ x \notin {"SEND_PASSWORD", "IF_SECURE", "WAIT_OK"}
          /\ ~conf.AddressOk["ANSWERING"] => x \notin {"WAIT_PWD", "PASSWORD_ACK"}
     /\ Refused => x # "TRANSFER_FILES"}

\* The frames on their way to side s: a refused caller is not sent M_OK, and
\* the answering side is sent the password of the caller.
MayCome(s) ==
  {f \in Frame :
     /\ s = "ORIGINATING" /\ Refused => f.cmd # "M_OK"
     /\ s = "ANSWERING" /\ PasswordsDiffer /\ f.cmd = "M_PWD" =>
          f.password.secret # conf.Password["ANSWERING"]}

\* What side s has made of the frames that have come.
Unproved(s, m) ==
  /\ s = "ORIGINATING" /\ Refused => ~m.ok_received
  /\ s = "ANSWERING" /\ PasswordsDiffer =>
       m.remote_password.secret # conf.Password["ANSWERING"]

StatesInv == \A s \in Sides : state[s] \in MayBe(s)
FramesInv == \A s \in Sides : chan[s] \in Seq(MayCome(s))
MembersInv == \A s \in Sides : Unproved(s, sess[s])
StrangerInv == StatesInv /\ FramesInv /\ MembersInv /\ NoFilesToStrangers

\* Nothing but offers and the scenario matters to NoFilesToStrangers.
LEMMA OffersKept ==
  ASSUME NoFilesToStrangers, UNCHANGED <<offers, conf>>
  PROVE  NoFilesToStrangers'
  BY DEF NoFilesToStrangers

\* The end of a handler.
LEMMA ReturnSafe ==
  ASSUME TypeOK, StatesInv, MembersInv, NEW s \in Sides, NEW next \in MayBe(s), NEW m \in Members,
         Unproved(s, m), Return(s, next, m), conf' = conf
  PROVE  StatesInv' /\ MembersInv'
<1> DEFINE n == [m EXCEPT !.done = m.done \/ m.error_received]
<1>1. n.ok_received = m.ok_received /\ n.remote_password = m.remote_password
  BY DEF Members
<1>2. /\ state' = [state EXCEPT ![s] = next]
      /\ sess' = [sess EXCEPT ![s] = n]
  BY DEF Return
<1>3. Unproved(s, n)
  BY <1>1 DEF Unproved
<1> HIDE DEF n
<1>4. StatesInv'
  BY <1>2 DEF StatesInv, TypeOK, MayBe, Refused, PasswordsDiffer
<1>5. MembersInv'
  BY <1>2, <1>3 DEF MembersInv, TypeOK, Unproved, Refused, PasswordsDiffer
<1> QED BY <1>4, <1>5

\* Sending frames that may come.
LEMMA SendSafe ==
  ASSUME TypeOK, FramesInv, NEW s \in Sides, NEW fs \in Seq(MayCome(Peer(s))), Send(s, fs),
         conf' = conf
  PROVE  FramesInv'
<1>1. Peer(s) \in Sides /\ \A t \in Sides : MayCome(t)' = MayCome(t)
  BY Peers DEF MayCome, Refused, PasswordsDiffer
<1>2. chan[Peer(s)] \o fs \in Seq(MayCome(Peer(s)))
  BY <1>1 DEF FramesInv
<1>3. \A t \in Sides : chan'[t] \in Seq(MayCome(t))
  BY <1>1, <1>2 DEF Send, FramesInv, TypeOK
<1> QED BY <1>1, <1>3 DEF FramesInv

\* A channel that is emptied, or loses its first frame.
LEMMA LessSafe ==
  ASSUME FramesInv, conf' = conf,
         \A t \in Sides : \/ chan'[t] = chan[t]
                          \/ chan'[t] = <<>>
                          \/ chan[t] # <<>> /\ chan'[t] = Tail(chan[t])
  PROVE  FramesInv'
<1>1. \A t \in Sides : MayCome(t)' = MayCome(t)
  BY DEF MayCome, Refused, PasswordsDiffer
<1>2. \A t \in Sides : chan'[t] \in Seq(MayCome(t))
  <2> TAKE t \in Sides
  <2>1. chan[t] \in Seq(MayCome(t))
    BY DEF FramesInv
  <2>2. chan[t] # <<>> => Tail(chan[t]) \in Seq(MayCome(t))
    BY <2>1, HeadTailProperties
  <2>3. <<>> \in Seq(MayCome(t))
    OBVIOUS
  <2> QED BY <2>1, <2>2, <2>3
<1> QED BY <1>1, <1>2 DEF FramesInv

\* The states, the members and the frames when nothing is done to them.
LEMMA StatesKept ==
  ASSUME StatesInv, UNCHANGED <<state, conf>>
  PROVE  StatesInv'
  BY DEF StatesInv, MayBe, Refused, PasswordsDiffer

LEMMA MembersKept ==
  ASSUME MembersInv, conf' = conf,
         \A t \in Sides : /\ sess'[t].ok_received = sess[t].ok_received
                          /\ sess'[t].remote_password = sess[t].remote_password
  PROVE  MembersInv'
  BY DEF MembersInv, Unproved, Refused, PasswordsDiffer

\* The frames that say nothing about who is there.
LEMMA Harmless ==
  ASSUME TypeOK, NEW s \in Sides, NEW f \in Frame, f.cmd \notin {"M_OK", "M_PWD"}
  PROVE  f \in MayCome(s) /\ <<f>> \in Seq(MayCome(s))
  BY DEF MayCome

\* A handler that returns with the members it has found.
LEMMA HandlerSafe ==
  ASSUME TypeOK, StrangerInv, NEW s \in Sides, NEW next \in MayBe(s),
         Return(s, next, sess[s]), FramesInv', UNCHANGED <<disk, contact, ghost, env>>
  PROVE  StrangerInv'
<1>1. sess[s] \in Members /\ Unproved(s, sess[s]) /\ UNCHANGED <<offers, conf>>
  BY DEF TypeOK, StrangerInv, MembersInv, ghost, env
<1>2. StatesInv' /\ MembersInv'
  BY <1>1, ReturnSafe DEF StrangerInv
<1>3. NoFilesToStrangers'
  BY <1>1, OffersKept DEF StrangerInv
<1> QED BY <1>2, <1>3 DEF StrangerInv

\* The handlers of the session setup.
LEMMA SetupSafe ==
  ASSUME TypeOK, StrangerInv, NEW s \in Sides,
         \/ ConnInit(s) \/ WaitConnReturns(s) \/ SendPasswd(s)
         \/ WaitAddr(s) \/ AuthRemote(s) \/ IfSecure(s) \/ WaitOk(s)
         \/ WaitPwd(s) \/ PasswordAck(s)
  PROVE  StrangerInv'
<1>1. /\ FramesInv /\ StatesInv /\ MembersInv /\ state[s] \in MayBe(s)
      /\ Unproved(s, sess[s]) /\ sess[s] \in Members /\ conf \in Scenarios
      /\ UNCHANGED <<disk, contact, ghost, env>> /\ conf' = conf
  BY DEF StrangerInv, StatesInv, MembersInv, TypeOK, env, ConnInit, WaitConnReturns, SendPasswd,
         WaitAddr, AuthRemote, IfSecure, WaitOk, WaitPwd, PasswordAck
<1>2. Quiet => FramesInv'
  BY <1>1, LessSafe DEF Quiet
<1>3. Send(s, <<Cmd("M_ERR")>>) => FramesInv'
  BY <1>1, Frames, Harmless, SendSafe, Peers DEF Cmd
<1>4. CASE ConnInit(s) \/ WaitAddr(s)
  <2>1. {"WAIT_CONN", "AUTH_REMOTE"} \subseteq MayBe(s)
    BY DEF MayBe, BinkState
  <2> QED BY <1>1, <1>2, <1>4, <2>1, HandlerSafe DEF ConnInit, WaitAddr
<1>5. CASE WaitConnReturns(s)
  <2>1. (IF s = "ORIGINATING" THEN "SEND_PASSWORD" ELSE "WAIT_ADDR") \in MayBe(s)
    BY DEF MayBe, BinkState
  <2> QED BY <1>1, <1>2, <1>5, <2>1, HandlerSafe DEF WaitConnReturns
<1>6. CASE SendPasswd(s)
  <2> DEFINE p == IF sess[s].auth_type = "CRAM_MD5"
                    THEN CreateHashedSecret(sess[s].challenge, conf.Password[s])
                    ELSE PlainText(conf.Password[s])
             f == [cmd |-> "M_PWD", auth_type |-> sess[s].auth_type, password |-> p]
  <2>1. s = "ORIGINATING" /\ "WAIT_ADDR" \in MayBe(s)
    BY <1>1, <1>6 DEF SendPasswd, At, MayBe, Sides, BinkState
  <2>2. p \in Passwords /\ p.secret = conf.Password["ORIGINATING"]
    <3>1. conf.Password[s] \in Secrets
      BY <1>1, SecretsOf
    <3> QED BY <1>1, <2>1, <3>1, Fields DEF CreateHashedSecret, PlainText, Passwords, Challenges
  <2>3. f \in Frame
    BY <1>1, <2>2, Frames, Fields
  <2>4. f.cmd = "M_PWD" /\ f.password = p /\ Peer(s) = "ANSWERING"
    BY <2>1 DEF Peer
  <2> HIDE DEF p, f
  <2>5. f \in MayCome(Peer(s))
    BY <2>2, <2>3, <2>4 DEF MayCome, PasswordsDiffer
  <2>6. <<f>> \in Seq(MayCome(Peer(s)))
    BY <2>5
  <2>7. Send(s, <<f>>)
    BY <1>6 DEF SendPasswd, f, p
  <2>8. FramesInv'
    BY <1>1, <2>6, <2>7, SendSafe
  <2> QED BY <1>1, <1>6, <2>1, <2>8, HandlerSafe DEF SendPasswd
<1>7. CASE AuthRemote(s)
  <2>1. /\ Knows(s) => (IF s = "ANSWERING" THEN "WAIT_PWD" ELSE "IF_SECURE") \in MayBe(s)
        /\ "UNKNOWN" \in MayBe(s)
    BY DEF Knows, MayBe, BinkState, Sides
  <2> QED BY <1>1, <1>2, <1>3, <1>7, <2>1, HandlerSafe DEF AuthRemote
<1>8. CASE IfSecure(s)
  <2>1. "WAIT_OK" \in MayBe(s)
    BY <1>1, <1>8 DEF IfSecure, At, MayBe, BinkState
  <2> QED BY <1>1, <1>2, <1>8, <2>1, HandlerSafe DEF IfSecure
<1>9. CASE WaitOk(s)
  <2>1. /\ sess[s].ok_received => "TRANSFER_FILES" \in MayBe(s)
        /\ "DONE" \in MayBe(s)
    BY <1>1, <1>9 DEF WaitOk, At, MayBe, BinkState, Unproved, Sides
  <2> QED BY <1>1, <1>2, <1>3, <1>9, <2>1, HandlerSafe DEF WaitOk
<1>10. CASE WaitPwd(s)
  <2>1. "PASSWORD_ACK" \in MayBe(s)
    BY <1>1, <1>10 DEF WaitPwd, At, MayBe, BinkState
  <2> QED BY <1>1, <1>2, <1>10, <2>1, HandlerSafe DEF WaitPwd
<1>11. CASE PasswordAck(s)
  <2>1. s = "ANSWERING" /\ conf.AddressOk["ANSWERING"] /\ "DONE" \in MayBe(s)
    BY <1>1, <1>11 DEF PasswordAck, At, MayBe, BinkState, Sides
  <2>2. CASE PasswordsMatch(s)
    <3>1. sess[s].remote_password.secret = conf.Password["ANSWERING"]
      <4>1. \/ sess[s].remote_password = PlainText(conf.Password[s])
            \/ sess[s].remote_password = CreateHashedSecret(sess[s].challenge, conf.Password[s])
        BY <2>2 DEF PasswordsMatch
      <4>2. /\ PlainText(conf.Password[s]).secret = conf.Password[s]
            /\ CreateHashedSecret(sess[s].challenge, conf.Password[s]).secret = conf.Password[s]
        BY DEF PlainText, CreateHashedSecret
      <4> QED BY <2>1, <4>1, <4>2
    <3>2. ~Refused
      BY <1>1, <2>1, <3>1 DEF Unproved, Refused
    <3>3. "TRANSFER_FILES" \in MayBe(s)
      BY <2>1, <3>2 DEF MayBe, BinkState
    <3>4. Cmd("M_OK") \in MayCome(Peer(s))
      BY <2>1, <3>2, Frames DEF MayCome, Cmd, Peer
    <3>5. <<Cmd("M_OK")>> \in Seq(MayCome(Peer(s)))
      BY <3>4
    <3>6. FramesInv'
      BY <1>1, <1>11, <2>2, <3>5, SendSafe DEF PasswordAck
    <3> QED BY <1>1, <1>11, <2>2, <3>3, <3>6, HandlerSafe DEF PasswordAck
  <2>3. CASE ~PasswordsMatch(s)
    BY <1>1, <1>3, <1>11, <2>1, <2>3, HandlerSafe DEF PasswordAck
  <2> QED BY <2>2, <2>3
<1> QED BY <1>4, <1>5, <1>6, <1>7, <1>8, <1>9, <1>10, <1>11

\* A new BinkP object has seen nothing that proves anything.
LEMMA NewIsUnproved ==
  ASSUME conf \in Scenarios, NEW s \in Sides, NEW b \in BOOLEAN
  PROVE  Unproved(s, NewBinkP(b))
<1>1. ~NewBinkP(b).ok_received /\ NewBinkP(b).remote_password.secret = ""
  BY DEF NewBinkP, PlainText
<1>2. conf.Password["ANSWERING"] # ""
  BY ConfFields DEF Sides
<1> QED BY <1>1, <1>2 DEF Unproved

\* Steps that keep the state and what the members say of the other side.
LEMMA InnerSafe ==
  ASSUME TypeOK, StrangerInv, UNCHANGED <<state, offers, conf>>, FramesInv',
         \A t \in Sides : /\ sess'[t].ok_received = sess[t].ok_received
                          /\ sess'[t].remote_password = sess[t].remote_password
  PROVE  StrangerInv'
<1>1. StatesInv' /\ MembersInv' /\ NoFilesToStrangers'
  BY StatesKept, MembersKept, OffersKept DEF StrangerInv
<1> QED BY <1>1 DEF StrangerInv

\* The edits that do not touch what the members say of the other side.
LEMMA QuietEdits ==
  ASSUME NEW m \in Members
  PROVE  /\ \A b : /\ [m EXCEPT !.to_send = b].ok_received = m.ok_received
                   /\ [m EXCEPT !.to_send = b].remote_password = m.remote_password
         /\ \A n : /\ [m EXCEPT !.start = n].ok_received = m.ok_received
                   /\ [m EXCEPT !.start = n].remote_password = m.remote_password
         /\ \A c : /\ [m EXCEPT !.challenge = c].ok_received = m.ok_received
                   /\ [m EXCEPT !.challenge = c].remote_password = m.remote_password
         /\ \A n : /\ [m EXCEPT !.file_length = n, !.start = 0].ok_received = m.ok_received
                   /\ [m EXCEPT !.file_length = n, !.start = 0].remote_password = m.remote_password
         /\ \A f : /\ [m EXCEPT !.current_receive_file = f].ok_received = m.ok_received
                   /\ [m EXCEPT !.current_receive_file = f].remote_password = m.remote_password
         /\ \A f : /\ [m EXCEPT !.current_receive_file = f, !.received = TRUE].ok_received
                        = m.ok_received
                   /\ [m EXCEPT !.current_receive_file = f, !.received = TRUE].remote_password
                        = m.remote_password
  BY DEF Members

\* The greeting and the handlers of the transfer.
LEMMA TransferSafe ==
  ASSUME TypeInv, StrangerInv, NEW s \in Sides,
         \/ WaitConn(s) \/ SendFilePacket(s) \/ NothingToSend(s) \/ SendFileData(s)
         \/ GetChunk(s) \/ BadChunk(s) \/ DanglingChunk(s) \/ AfterChunk(s)
         \/ SendEob(s) \/ LoopEnd(s)
  PROVE  StrangerInv'
<1>1. /\ TypeOK /\ FramesInv /\ StatesInv /\ MembersInv /\ state[s] \in MayBe(s)
      /\ sess[s] \in Members /\ sess \in [Sides -> Members] /\ conf' = conf /\ Peer(s) \in Sides
      /\ NoFilesToStrangers
  BY Peers
     DEF TypeInv, StrangerInv, StatesInv, TypeOK, env, WaitConn, SendFilePacket, NothingToSend,
         SendFileData, GetChunk, BadChunk, DanglingChunk, SendChunk, AfterChunk, SendEob, LoopEnd
<1>2. Quiet => FramesInv'
  BY <1>1, LessSafe DEF Quiet
<1>3. CASE WaitConn(s)
  <2>1. Greeting(s) \in Seq(MayCome(Peer(s)))
    <3>1. /\ Cmd("M_ADR") \in MayCome(Peer(s))
          /\ [cmd |-> "M_NUL", challenge |-> Challenge] \in MayCome(Peer(s))
      BY <1>1, Frames, Harmless DEF Cmd
    <3> QED BY <3>1 DEF Greeting
  <2>2. FramesInv'
    BY <1>1, <1>3, <2>1, SendSafe DEF WaitConn
  <2>3. UNCHANGED <<state, offers, conf>>
    BY <1>3 DEF WaitConn, GoTo, ghost, env
  <2>4. PICK c : sess' = [sess EXCEPT ![s] = [sess[s] EXCEPT !.challenge = c]]
    BY <1>3 DEF WaitConn
  <2>5. \A t \in Sides : /\ sess'[t].ok_received = sess[t].ok_received
                         /\ sess'[t].remote_password = sess[t].remote_password
    BY <1>1, <2>4, QuietEdits
  <2> QED BY <1>1, <2>2, <2>3, <2>5, InnerSafe
<1>4. CASE SendFilePacket(s)
  <2>1. ~Refused /\ (s = "ORIGINATING" => conf.AddressOk["ORIGINATING"])
    BY <1>1, <1>4 DEF SendFilePacket, At, MayBe
  <2>2. NoFilesToStrangers'
    <3>1. s # "ORIGINATING" => offers'["ORIGINATING"] = offers["ORIGINATING"]
      BY <1>1, <1>4 DEF SendFilePacket, TypeOK, Sides
    <3>2. ~conf.AddressOk["ORIGINATING"] => offers'["ORIGINATING"] = {}
      BY <1>1, <2>1, <3>1 DEF NoFilesToStrangers
    <3> QED BY <1>1, <2>1, <3>2 DEF NoFilesToStrangers, Refused, PasswordsDiffer
  <2>3. [cmd |-> "M_FILE", size |-> Len(out[s])] \in Frame
    BY <1>1, Frames DEF TypeOK, MailFile
  <2>4. <<[cmd |-> "M_FILE", size |-> Len(out[s])]>> \in Seq(MayCome(Peer(s)))
    BY <1>1, <2>3, Harmless
  <2>5. FramesInv'
    BY <1>1, <1>4, <2>4, SendSafe DEF SendFilePacket
  <2>6. \A t \in Sides : /\ sess'[t].ok_received = sess[t].ok_received
                         /\ sess'[t].remote_password = sess[t].remote_password
    BY <1>1, <1>4, QuietEdits DEF SendFilePacket
  <2>7. StatesInv' /\ MembersInv'
    BY <1>1, <1>4, <2>6, StatesKept, MembersKept DEF SendFilePacket, GoTo
  <2> QED BY <2>2, <2>5, <2>7 DEF StrangerInv
<1>5. CASE NothingToSend(s) \/ AfterChunk(s) \/ LoopEnd(s)
  BY <1>1, <1>2, <1>5, InnerSafe DEF NothingToSend, AfterChunk, LoopEnd, GoTo, ghost, env
<1>6. CASE SendFileData(s)
  <2>1. UNCHANGED <<state, offers, conf>> /\ FramesInv'
    BY <1>1, <1>2, <1>6 DEF SendFileData, GoTo, ghost, env
  <2> DEFINE m == [sess[s] EXCEPT !.file_length = FileSize(s), !.start = 0]
  <2>2. /\ sess' = sess \/ sess' = [sess EXCEPT ![s] = m]
        /\ m.ok_received = sess[s].ok_received /\ m.remote_password = sess[s].remote_password
    <3>1. sess' = sess \/ sess' = [sess EXCEPT ![s] = m]
      BY <1>6 DEF SendFileData
    <3>2. m.ok_received = sess[s].ok_received /\ m.remote_password = sess[s].remote_password
      BY <1>1, QuietEdits
    <3> QED BY <3>1, <3>2
  <2> HIDE DEF m
  <2>3. \A t \in Sides : /\ sess'[t].ok_received = sess[t].ok_received
                         /\ sess'[t].remote_password = sess[t].remote_password
    BY <1>1, <2>2
  <2> QED BY <1>1, <2>1, <2>3, InnerSafe
<1>7. CASE GetChunk(s) \/ BadChunk(s) \/ DanglingChunk(s)
  <2>1. PICK d \in MailFile : SendChunk(s, d)
    BY <1>7, ChunkType DEF GetChunk, BadChunk, DanglingChunk
  <2>2. [cmd |-> "DATA", data |-> d] \in Frame
    BY Frames
  <2>3. <<[cmd |-> "DATA", data |-> d]>> \in Seq(MayCome(Peer(s)))
    BY <1>1, <2>2, Harmless
  <2>4. FramesInv' /\ UNCHANGED <<state, offers, conf>>
    BY <1>1, <2>1, <2>3, SendSafe DEF SendChunk, GoTo, ghost, env
  <2>5. \A t \in Sides : /\ sess'[t].ok_received = sess[t].ok_received
                         /\ sess'[t].remote_password = sess[t].remote_password
    BY <1>1, <2>1, QuietEdits DEF SendChunk
  <2> QED BY <1>1, <2>4, <2>5, InnerSafe
<1>8. CASE SendEob(s)
  <2>1. <<Cmd("M_EOB")>> \in Seq(MayCome(Peer(s)))
    BY <1>1, Frames, Harmless DEF Cmd
  <2>2. FramesInv' /\ UNCHANGED <<state, sess, offers, conf>>
    BY <1>1, <1>8, <2>1, SendSafe DEF SendEob, GoTo, ghost, env
  <2> QED BY <1>1, <2>2, InnerSafe
<1> QED BY <1>3, <1>4, <1>5, <1>6, <1>7, <1>8

\* What a command says is taken over, and no frame that may come proves
\* anything to a side that has nothing proved to it.
LEMMA CommandSafe ==
  ASSUME TypeInv, StrangerInv, NEW s \in Sides, ReceiveCommand(s)
  PROVE  StrangerInv'
<1> DEFINE f == Head(chan[s])
<1>1. /\ TypeOK /\ StatesInv /\ FramesInv /\ MembersInv /\ NoFilesToStrangers
      /\ sess[s] \in Members /\ sess \in [Sides -> Members] /\ chan[s] # <<>>
      /\ Unproved(s, sess[s]) /\ chan \in [Sides -> Seq(Frame)]
      /\ UNCHANGED <<state, offers, conf>>
  BY DEF TypeInv, TypeOK, StrangerInv, MembersInv, ReceiveCommand, ghost, env
<1>2. f \in MayCome(s)
  BY <1>1, HeadTailProperties DEF FramesInv
<1>3. /\ f \in Frame
      /\ f.cmd \in {"M_ADR", "M_OK", "M_EOB", "M_ERR", "M_NUL", "M_PWD", "M_FILE"}
  BY <1>2, Carries DEF MayCome, ReceiveCommand
<1>4. /\ sess' = [sess EXCEPT ![s] = Handle(s, f)]
      /\ chan' = [chan EXCEPT ![s] = Tail(chan[s])]
  BY DEF ReceiveCommand, Pop
<1> HIDE DEF f
<1>5. Unproved(s, Handle(s, f))
  <2>1. CASE f.cmd = "M_OK"
    <3>1. /\ Handle(s, f).remote_password = sess[s].remote_password
          /\ ~(s = "ORIGINATING" /\ Refused)
      BY <1>1, <1>2, <2>1 DEF Handle, Members, MayCome
    <3> QED BY <1>1, <3>1 DEF Unproved
  <2>2. CASE f.cmd = "M_PWD"
    <3>1. /\ Handle(s, f).remote_password = f.password
          /\ Handle(s, f).ok_received = sess[s].ok_received
      BY <1>1, <2>2 DEF Handle, Members
    <3> QED BY <1>1, <1>2, <2>2, <3>1 DEF Unproved, MayCome
  <2>3. CASE f.cmd \notin {"M_OK", "M_PWD"}
    <3>1. /\ Handle(s, f).remote_password = sess[s].remote_password
          /\ Handle(s, f).ok_received = sess[s].ok_received
      BY <1>1, <1>3, <2>3 DEF Handle, Members
    <3> QED BY <1>1, <3>1 DEF Unproved
  <2> QED BY <2>1, <2>2, <2>3
<1>6. MembersInv'
  BY <1>1, <1>4, <1>5 DEF MembersInv, Unproved, Refused, PasswordsDiffer
<1>7. FramesInv'
  BY <1>1, <1>4, LessSafe
<1>8. StatesInv' /\ NoFilesToStrangers'
  BY <1>1, StatesKept, OffersKept
<1> QED BY <1>6, <1>7, <1>8 DEF StrangerInv

\* The other frames.
LEMMA DataSafe ==
  ASSUME TypeInv, StrangerInv, NEW s \in Sides,
         HandleFileGotRequest(s) \/ process_data(s) \/ DropData(s)
  PROVE  StrangerInv'
<1>1. /\ TypeOK /\ FramesInv /\ sess[s] \in Members /\ sess \in [Sides -> Members]
      /\ chan[s] # <<>> /\ chan \in [Sides -> Seq(Frame)] /\ Peer(s) \in Sides /\ Peer(s) # s
      /\ UNCHANGED <<state, offers, conf>>
  BY Peers DEF TypeInv, TypeOK, StrangerInv, HandleFileGotRequest, process_data, DropData, ghost, env
<1>2. \A t \in Sides : /\ sess'[t].ok_received = sess[t].ok_received
                       /\ sess'[t].remote_password = sess[t].remote_password
  <2>1. CASE HandleFileGotRequest(s)
    BY <1>1, <2>1, QuietEdits DEF HandleFileGotRequest
  <2>2. CASE process_data(s)
    <3>1. \/ \E f : sess' = [sess EXCEPT ![s] = [sess[s] EXCEPT !.current_receive_file = f]]
          \/ sess' = [sess EXCEPT ![s] =
                        [sess[s] EXCEPT !.current_receive_file = NoFile, !.received = TRUE]]
      BY <2>2 DEF process_data
    <3>2. PICK m : /\ sess' = [sess EXCEPT ![s] = m]
                   /\ m.ok_received = sess[s].ok_received
                   /\ m.remote_password = sess[s].remote_password
      <4>1. CASE \E f : sess' = [sess EXCEPT ![s] = [sess[s] EXCEPT !.current_receive_file = f]]
        <5>1. PICK f : sess' = [sess EXCEPT ![s] = [sess[s] EXCEPT !.current_receive_file = f]]
          BY <4>1
        <5> DEFINE m == [sess[s] EXCEPT !.current_receive_file = f]
        <5>2. m.ok_received = sess[s].ok_received /\ m.remote_password = sess[s].remote_password
          BY <1>1, QuietEdits
        <5>3. sess' = [sess EXCEPT ![s] = m]
          BY <5>1
        <5> HIDE DEF m
        <5> QED BY <5>2, <5>3
      <4>2. CASE sess' = [sess EXCEPT ![s] =
                            [sess[s] EXCEPT !.current_receive_file = NoFile, !.received = TRUE]]
        <5> DEFINE m == [sess[s] EXCEPT !.current_receive_file = NoFile, !.received = TRUE]
        <5>1. m.ok_received = sess[s].ok_received /\ m.remote_password = sess[s].remote_password
          BY <1>1, QuietEdits
        <5>2. sess' = [sess EXCEPT ![s] = m]
          BY <4>2
        <5> HIDE DEF m
        <5> QED BY <5>1, <5>2
      <4> QED BY <3>1, <4>1, <4>2
    <3> QED BY <1>1, <3>2
  <2>3. CASE DropData(s)
    BY <2>3 DEF DropData
  <2> QED BY <2>1, <2>2, <2>3
<1>3. CASE Pop(s)
  <2>1. FramesInv'
    BY <1>1, <1>3, LessSafe DEF Pop
  <2> QED BY <1>1, <1>2, <2>1, InnerSafe
<1>4. CASE ~Pop(s)
  <2>1. PICK n :
          /\ n = sess[s].current_receive_file.len
                   + (IF MayWrite(s) THEN Len(Head(chan[s]).data) ELSE 0)
          /\ chan' = [chan EXCEPT
               ![s] = Tail(chan[s]),
               ![Peer(s)] = IF Connected(s) THEN Append(chan[Peer(s)], [cmd |-> "M_GOT", len |-> n])
                                            ELSE chan[Peer(s)]]
    BY <1>1, <1>4 DEF HandleFileGotRequest, DropData, process_data
  <2>2. n \in Nat
    <3>1. Head(chan[s]).data \in Seq(Nat)
      <4>1. Head(chan[s]) \in Frame /\ Head(chan[s]).cmd = "DATA"
        BY <1>1, <1>4, HeadTailProperties DEF HandleFileGotRequest, DropData, process_data
      <4> QED BY <4>1, Carries DEF MailFile
    <3>2. sess[s].current_receive_file.len \in Nat /\ Len(Head(chan[s]).data) \in Nat
      BY <1>1, <3>1, Fields
    <3>3. n = sess[s].current_receive_file.len + Len(Head(chan[s]).data)
            \/ n = sess[s].current_receive_file.len + 0
      BY <2>1
    <3> QED BY <3>2, <3>3
  <2>3. [cmd |-> "M_GOT", len |-> n] \in MayCome(Peer(s))
    <3>1. [cmd |-> "M_GOT", len |-> n] \in Frame
      BY <2>2, Frames
    <3> QED BY <1>1, <3>1, Harmless
  <2>4. /\ chan[Peer(s)] \in Seq(MayCome(Peer(s)))
        /\ Tail(chan[s]) \in Seq(MayCome(s))
    BY <1>1, HeadTailProperties DEF FramesInv
  <2>5. Append(chan[Peer(s)], [cmd |-> "M_GOT", len |-> n]) \in Seq(MayCome(Peer(s)))
    BY <2>3, <2>4
  <2>6. \A t \in Sides : chan'[t] \in Seq(MayCome(t))
    BY <1>1, <2>1, <2>4, <2>5 DEF FramesInv
  <2>7. \A t \in Sides : MayCome(t)' = MayCome(t)
    BY <1>1 DEF MayCome, Refused, PasswordsDiffer
  <2>8. FramesInv'
    BY <2>6, <2>7 DEF FramesInv
  <2> QED BY <1>1, <1>2, <2>8, InnerSafe
<1> QED BY <1>3, <1>4

\* The end of a process.
LEMMA ExitSafe ==
  ASSUME TypeOK, StrangerInv, NEW s \in Sides, Exit(s), UNCHANGED <<offers, conf>>
  PROVE  StrangerInv'
<1>1. Unproved(s, NewBinkP(FALSE)) /\ StartState(s) \in MayBe(s)
  BY NewIsUnproved DEF TypeOK, StartState, MayBe, BinkState, Sides
<1>2. StatesInv'
  BY <1>1 DEF Exit, StrangerInv, StatesInv, TypeOK, MayBe, Refused, PasswordsDiffer
<1>3. MembersInv'
  BY <1>1 DEF Exit, StrangerInv, MembersInv, TypeOK, Unproved, Refused, PasswordsDiffer
<1>4. FramesInv'
  <2>1. \A t \in Sides : chan'[t] = chan[t] \/ chan'[t] = <<>>
    BY DEF Exit, Close, TypeOK
  <2> QED BY <2>1, LessSafe DEF StrangerInv
<1>5. NoFilesToStrangers'
  BY OffersKept DEF StrangerInv
<1> QED BY <1>2, <1>3, <1>4, <1>5 DEF StrangerInv

\* The end of a session.
LEMMA EndSafe ==
  ASSUME TypeInv, StrangerInv, NEW s \in Sides,
         \/ TransferFilesReturns(s) \/ WaitEob(s) \/ Unknown(s) \/ Done(s)
         \/ rename_pending_files(s) \/ process_network_files(s) \/ UpdateContact(s)
         \/ SocketClosed(s)
  PROVE  StrangerInv'
<1>1. /\ TypeOK /\ FramesInv /\ StatesInv /\ MembersInv /\ NoFilesToStrangers
      /\ sess[s] \in Members /\ Unproved(s, sess[s]) /\ UNCHANGED <<offers, conf>>
  BY DEF TypeInv, TypeOK, StrangerInv, MembersInv, TransferFilesReturns, WaitEob, Unknown, Done,
         rename_pending_files, process_network_files, UpdateContact, SocketClosed, ghost, env
<1>2. Quiet => FramesInv'
  BY <1>1, LessSafe DEF Quiet
<1>3. {"WAIT_EOB", "DONE"} \subseteq MayBe(s)
  BY DEF MayBe, BinkState
<1>4. CASE TransferFilesReturns(s) \/ WaitEob(s) \/ Unknown(s)
  BY <1>1, <1>2, <1>3, <1>4, HandlerSafe DEF TransferFilesReturns, WaitEob, Unknown
<1>5. CASE Done(s)
  <2> DEFINE m == [sess[s] EXCEPT !.open = FALSE, !.done = TRUE]
  <2>1. m \in Members
    BY <1>1, MembersEdits
  <2>2. m.ok_received = sess[s].ok_received /\ m.remote_password = sess[s].remote_password
    BY <1>1 DEF Members
  <2>3. Return(s, "DONE", m)
    BY <1>5 DEF Done
  <2> HIDE DEF m
  <2>4. Unproved(s, m)
    BY <1>1, <2>2 DEF Unproved
  <2>5. StatesInv' /\ MembersInv'
    BY <1>1, <1>3, <2>1, <2>3, <2>4, ReturnSafe
  <2>6. FramesInv'
    <3>1. \A t \in Sides : chan'[t] = chan[t] \/ chan'[t] = <<>>
      BY <1>1, <1>5 DEF Done, Close, TypeOK
    <3> QED BY <1>1, <3>1, LessSafe
  <2> QED BY <1>1, <2>5, <2>6, OffersKept DEF StrangerInv
<1>6. CASE rename_pending_files(s) \/ process_network_files(s) \/ SocketClosed(s)
  <2>1. UNCHANGED <<state, sess>> /\ Quiet
    BY <1>6 DEF rename_pending_files, process_network_files, SocketClosed, GoTo, Quiet
  <2> QED BY <1>1, <1>2, <2>1, InnerSafe
<1>7. CASE UpdateContact(s)
  BY <1>1, <1>7, ExitSafe DEF UpdateContact
<1> QED BY <1>4, <1>5, <1>6, <1>7

\* The environment.
LEMMA EnvironmentSafe ==
  ASSUME TypeInv, StrangerInv, Environment
  PROVE  StrangerInv'
<1>1. TypeOK /\ FramesInv /\ StatesInv /\ MembersInv /\ NoFilesToStrangers
  BY DEF TypeInv, StrangerInv
<1>2. CASE Call
  <2>1. UNCHANGED <<state, offers, conf>>
    BY <1>2 DEF Call, ghost
  <2>2. FramesInv'
    <3>1. \A t \in Sides : chan'[t] = <<>>
      BY <1>2 DEF Call
    <3> QED BY <1>1, <2>1, <3>1, LessSafe
  <2>3. MembersInv'
    <3>1. \A t \in Sides : sess'[t] = NewBinkP(TRUE)
      BY <1>2 DEF Call
    <3>2. \A t \in Sides : Unproved(t, NewBinkP(TRUE))
      BY <1>1, NewIsUnproved DEF TypeOK
    <3> QED BY <2>1, <3>1, <3>2 DEF MembersInv, Unproved, Refused, PasswordsDiffer
  <2> QED BY <1>1, <2>1, <2>2, <2>3, StatesKept, OffersKept DEF StrangerInv
<1>3. CASE Reset
  <2>1. UNCHANGED <<state, sess, chan, offers, conf>>
    BY <1>3 DEF Reset, ghost
  <2> QED BY <1>1, <2>1, LessSafe, InnerSafe
<1>4. ASSUME NEW s \in Sides, Crash(s)
      PROVE  StrangerInv'
  BY <1>1, <1>4, ExitSafe DEF Crash, ghost
<1>5. ASSUME NEW s \in Sides, ResetArrives(s) \/ network1_appends(s) \/ network1_tosses(s)
      PROVE  StrangerInv'
  <2>1. UNCHANGED <<state, sess, offers, conf>>
    BY <1>5 DEF ResetArrives, network1_appends, network1_tosses, ghost, env
  <2>2. \A t \in Sides : chan'[t] = chan[t] \/ chan'[t] = <<>>
    BY <1>1, <1>5 DEF ResetArrives, network1_appends, network1_tosses, TypeOK
  <2>3. FramesInv'
    BY <1>1, <2>1, <2>2, LessSafe
  <2> QED BY <1>1, <2>1, <2>3, InnerSafe
<1> QED BY <1>2, <1>3, <1>4, <1>5 DEF Environment

\* Every step keeps strangers out.
LEMMA NextSafe ==
  ASSUME TypeInv, StrangerInv, [Next]_vars
  PROVE  StrangerInv'
<1>1. CASE UNCHANGED vars
  <2>1. UNCHANGED <<state, sess, chan, offers, conf>>
    BY <1>1 DEF vars, ghost, env
  <2>2. TypeOK /\ FramesInv
    BY DEF TypeInv, StrangerInv
  <2> QED BY <2>1, <2>2, LessSafe, InnerSafe
<1>2. CASE Environment
  BY <1>2, EnvironmentSafe
<1>3. ASSUME NEW s \in Sides, Step(s)
      PROVE  StrangerInv'
  <2>1. TypeOK
    BY DEF TypeInv
  <2> QED BY <1>3, <2>1, SetupSafe, TransferSafe, CommandSafe, DataSafe, EndSafe
          DEF Step, Handler, ReceiveFrame
<1> QED BY <1>1, <1>2, <1>3 DEF Next

\* It starts with nothing proved and nothing offered.
LEMMA InitSafe ==
  ASSUME Init
  PROVE  StrangerInv
<1>1. conf \in Scenarios
  BY DEF Init
<1>2. StatesInv
  BY DEF Init, StatesInv, StartState, MayBe, BinkState
<1>3. FramesInv
  BY DEF Init, FramesInv
<1>4. MembersInv
  <2>1. \A s \in Sides : Unproved(s, NewBinkP(FALSE))
    BY <1>1, NewIsUnproved
  <2> QED BY <2>1 DEF Init, MembersInv
<1>5. NoFilesToStrangers
  BY DEF Init, NoFilesToStrangers, Sides
<1> QED BY <1>2, <1>3, <1>4, <1>5 DEF StrangerInv

\* Whatever the installations, the timeouts, the crashes and the resets: no
\* file is offered by M_FILE when the passwords differ or the answering side
\* does not know the caller, and the caller offers none to a system whose
\* address is not the one it meant to call.
THEOREM StrangersGetNothing == Spec => []NoFilesToStrangers
<1>1. Init => TypeInv /\ StrangerInv
  BY InitType, InitSafe
<1>2. (TypeInv /\ StrangerInv) /\ [Next]_vars => (TypeInv /\ StrangerInv)'
  BY NextType, NextSafe
<1>3. StrangerInv => NoFilesToStrangers
  BY DEF StrangerInv
<1> QED BY <1>1, <1>2, <1>3, PTL DEF Spec
-----------------------------------------------------------------------------
(* M_EOB is the last word.                                                 *)

Has(q, c) == \E k \in DOMAIN q : q[k].cmd = c
OneFile(q) == \A k, l \in DOMAIN q : q[k].cmd = "M_FILE" /\ q[l].cmd = "M_FILE" => k = l

Receiving(m) == m.current_receive_file.on
Underway(s) == Receiving(sess[s]) \/ Has(chan[s], "M_FILE")

\* Side p has not yet come to its offer, or is between the offer and the test
\* that decides whether M_EOB is sent.
EarlyStates == BinkState \ {"WAIT_EOB", "UNKNOWN", "DONE"}
Before(p) == pc[p] = "WaitConn" \/ (pc[p] \in {"handler", "tail"} /\ state[p] \in EarlyStates)
Transferring(p) == pc[p] \in {"afterFile", "chunk", "afterData", "flush"}

\* Nothing says that the files for s are over, neither M_EOB nor M_GOT.
Unfinished(s) ==
  /\ ~Has(chan[s], "M_EOB") /\ ~sess[s].eob_received
  /\ ~Has(chan[Peer(s)], "M_GOT")

\* Nothing does as long as a file is offered to s or half received by it, and
\* its sender knows that it still has a file to send.  A session has one offer
\* in each direction at most.
EobOf(s) ==
  /\ Before(Peer(s)) => ~Underway(s) /\ Unfinished(s)
  /\ Underway(s) => Unfinished(s) /\ (Transferring(Peer(s)) => sess[Peer(s)].to_send)
  /\ Receiving(sess[s]) => ~Has(chan[s], "M_FILE")
  /\ OneFile(chan[s])
EobInv == \A s \in Sides : EobOf(s)

\* Frames are added at the end of a channel,
LEMMA Added ==
  ASSUME NEW q \in Seq(Frame), NEW fs \in Seq(Frame)
  PROVE  /\ \A c : Has(q \o fs, c) => Has(q, c) \/ Has(fs, c)
         /\ OneFile(q) /\ ~Has(fs, "M_FILE") => OneFile(q \o fs)
         /\ OneFile(fs) /\ ~Has(q, "M_FILE") => OneFile(q \o fs)
<1> DEFINE r == q \o fs
<1>1. /\ Len(q) \in Nat /\ Len(fs) \in Nat
      /\ DOMAIN q = 1..Len(q) /\ DOMAIN fs = 1..Len(fs) /\ DOMAIN r = 1..Len(q) + Len(fs)
      /\ \A k \in 1..Len(q) + Len(fs) : r[k] = IF k <= Len(q) THEN q[k] ELSE fs[k - Len(q)]
  OBVIOUS
<1> HIDE DEF r
<1>2. \A k \in DOMAIN r : \/ k \in DOMAIN q /\ r[k] = q[k]
                          \/ k - Len(q) \in DOMAIN fs /\ r[k] = fs[k - Len(q)] /\ k \in Int
  BY <1>1
<1>3. \A c : Has(r, c) => Has(q, c) \/ Has(fs, c)
  BY <1>2 DEF Has
<1>4. OneFile(q) /\ ~Has(fs, "M_FILE") => OneFile(r)
  BY <1>2 DEF Has, OneFile
<1>5. OneFile(fs) /\ ~Has(q, "M_FILE") => OneFile(r)
  <2> SUFFICES ASSUME OneFile(fs), ~Has(q, "M_FILE"), NEW k \in DOMAIN r, NEW l \in DOMAIN r,
                      r[k].cmd = "M_FILE", r[l].cmd = "M_FILE"
               PROVE  k = l
    BY DEF OneFile
  <2>1. /\ k - Len(q) \in DOMAIN fs /\ fs[k - Len(q)].cmd = "M_FILE" /\ k \in Int
        /\ l - Len(q) \in DOMAIN fs /\ fs[l - Len(q)].cmd = "M_FILE" /\ l \in Int
    BY <1>2 DEF Has
  <2>2. k - Len(q) = l - Len(q)
    BY <2>1 DEF OneFile
  <2> QED BY <1>1, <2>1, <2>2
<1> QED BY <1>3, <1>4, <1>5 DEF r

LEMMA AddedKeeps ==
  ASSUME NEW q \in Seq(Frame), NEW fs \in Seq(Frame), NEW c, Has(q, c)
  PROVE  Has(q \o fs, c)
<1>1. \A k \in DOMAIN q : k \in DOMAIN (q \o fs) /\ (q \o fs)[k] = q[k]
  OBVIOUS
<1> QED BY <1>1 DEF Has

\* and the first one is taken off.
LEMMA TakenOff ==
  ASSUME NEW q \in Seq(Frame), q # <<>>
  PROVE  /\ \A c : Has(Tail(q), c) => Has(q, c)
         /\ OneFile(q) => OneFile(Tail(q))
         /\ OneFile(q) /\ Head(q).cmd = "M_FILE" => ~Has(Tail(q), "M_FILE")
         /\ Has(q, Head(q).cmd)
<1> DEFINE r == Tail(q)
<1>1. /\ Len(q) \in Nat /\ Len(q) >= 1 /\ DOMAIN q = 1..Len(q) /\ DOMAIN r = 1..Len(q) - 1
      /\ \A k \in 1..Len(q) - 1 : r[k] = q[k + 1]
      /\ Head(q) = q[1]
  BY HeadTailProperties
<1> HIDE DEF r
<1>2. \A k \in DOMAIN r : k \in Nat /\ k + 1 \in DOMAIN q /\ r[k] = q[k + 1] /\ k + 1 # 1
  BY <1>1
<1>3. 1 \in DOMAIN q
  BY <1>1
<1>4. \A c : Has(r, c) => Has(q, c)
  BY <1>2 DEF Has
<1>5. OneFile(q) => OneFile(r)
  <2> SUFFICES ASSUME OneFile(q), NEW k \in DOMAIN r, NEW l \in DOMAIN r,
                      r[k].cmd = "M_FILE", r[l].cmd = "M_FILE"
               PROVE  k = l
    BY DEF OneFile
  <2>1. k + 1 = l + 1
    BY <1>2 DEF OneFile
  <2> QED BY <1>2, <2>1
<1>6. OneFile(q) /\ Head(q).cmd = "M_FILE" => ~Has(r, "M_FILE")
  BY <1>1, <1>2, <1>3 DEF Has, OneFile
<1>7. Has(q, Head(q).cmd)
  BY <1>1, <1>3 DEF Has
<1> QED BY <1>4, <1>5, <1>6, <1>7 DEF r

\* Channels with nothing in them, or one frame.
LEMMA ShortOnes ==
  /\ \A c : ~Has(<<>>, c)
  /\ OneFile(<<>>)
  /\ \A f : \A c : Has(<<f>>, c) => f.cmd = c
  /\ \A f : OneFile(<<f>>)
  BY DEF Has, OneFile

\* The frames that matter here.
Words == {"M_FILE", "M_EOB", "M_GOT"}

\* Channel t carries no more of them than before.
NoMore(t) ==
  /\ \A c \in Words : Has(chan'[t], c) => Has(chan[t], c)
  /\ OneFile(chan'[t])

LEMMA NoMoreIf ==
  ASSUME TypeOK, EobInv, NEW t \in Sides,
         \/ chan'[t] = chan[t]
         \/ chan'[t] = <<>>
         \/ chan[t] # <<>> /\ chan'[t] = Tail(chan[t])
         \/ \E fs \in Seq(Frame) : /\ chan'[t] = chan[t] \o fs
                                   /\ \A c \in Words : ~Has(fs, c)
  PROVE  NoMore(t)
<1>1. chan[t] \in Seq(Frame) /\ OneFile(chan[t])
  BY DEF TypeOK, EobInv, EobOf
<1>2. CASE chan'[t] = chan[t]
  BY <1>1, <1>2 DEF NoMore
<1>3. CASE chan'[t] = <<>>
  BY <1>3, ShortOnes DEF NoMore
<1>4. CASE chan[t] # <<>> /\ chan'[t] = Tail(chan[t])
  BY <1>1, <1>4, TakenOff DEF NoMore
<1>5. ASSUME NEW fs \in Seq(Frame), chan'[t] = chan[t] \o fs, \A c \in Words : ~Has(fs, c)
      PROVE  NoMore(t)
  BY <1>1, <1>5, Added DEF NoMore, Words
<1> QED BY <1>2, <1>3, <1>4, <1>5

LEMMA NoMoreSent ==
  ASSUME TypeOK, EobInv, NEW s \in Sides, NEW fs \in Seq(Frame), Send(s, fs),
         \A c \in Words : ~Has(fs, c)
  PROVE  \A t \in Sides : NoMore(t)
<1>1. \A t \in Sides : chan'[t] = chan[t] \/ chan'[t] = chan[t] \o fs
  BY Peers DEF Send, TypeOK
<1> QED BY <1>1, NoMoreIf

\* Members that say no more than before of what was received or is to be sent.
Same(m, n) ==
  /\ Receiving(n) = Receiving(m) /\ n.eob_received = m.eob_received /\ n.to_send = m.to_send

LEMMA SameEdits ==
  ASSUME NEW m \in Members
  PROVE  /\ Same(m, m)
         /\ \A b : Same(m, [m EXCEPT !.done = b])
         /\ \A b : Same(m, [[m EXCEPT !.open = FALSE, !.done = TRUE] EXCEPT !.done = b])
         /\ \A n : Same(m, [m EXCEPT !.start = n])
         /\ \A c : Same(m, [m EXCEPT !.challenge = c])
         /\ \A n : Same(m, [m EXCEPT !.file_length = n, !.start = 0])
  BY DEF Members, Same, Receiving

LEMMA NewIsIdle ==
  \A b : /\ ~Receiving(NewBinkP(b)) /\ ~NewBinkP(b).eob_received /\ ~NewBinkP(b).to_send
  BY DEF NewBinkP, Receiving, NoFile

\* A step that sends none of the words, ends no transfer and begins none.
LEMMA EobKept ==
  ASSUME TypeOK, EobInv,
         \A t \in Sides : NoMore(t),
         \A t \in Sides : /\ Receiving(sess'[t]) => Receiving(sess[t])
                          /\ sess'[t].eob_received => sess[t].eob_received,
         \A t \in Sides : Before(t)' => Before(t),
         \A t \in Sides : Transferring(t)' =>
           (Before(t) \/ Transferring(t)) /\ (sess[t].to_send => sess'[t].to_send)
  PROVE  EobInv'
<1> SUFFICES ASSUME NEW s \in Sides PROVE EobOf(s)'
  BY DEF EobInv
<1>1. EobOf(s) /\ Peer(s) \in Sides
  BY Peers DEF EobInv
<1>2. Underway(s)' => Underway(s)
  BY <1>1 DEF Underway, NoMore, Words
<1>3. Unfinished(s) => Unfinished(s)'
  BY <1>1 DEF Unfinished, NoMore, Words
<1>4. Before(Peer(s))' => Before(Peer(s))
  BY <1>1
<1>5. OneFile(chan'[s]) /\ (Receiving(sess'[s]) => ~Has(chan'[s], "M_FILE"))
  BY <1>1 DEF EobOf, NoMore, Words
<1>6. Underway(s)' => (Transferring(Peer(s))' => sess'[Peer(s)].to_send)
  BY <1>1, <1>2 DEF EobOf
<1> QED BY <1>1, <1>2, <1>3, <1>4, <1>5, <1>6 DEF EobOf

\* A handler that returns next, where it was early if next is.
LEMMA ReturnEob ==
  ASSUME TypeOK, EobInv, NEW s \in Sides, NEW next, NEW m, Return(s, next, m),
         \A b : Same(sess[s], [m EXCEPT !.done = b]),
         next \in EarlyStates => Before(s),
         \A t \in Sides : NoMore(t)
  PROVE  EobInv'
<1> DEFINE n == [m EXCEPT !.done = @ \/ m.error_received]
<1>1. /\ sess' = [sess EXCEPT ![s] = n] /\ Same(sess[s], n)
      /\ pc' = [pc EXCEPT ![s] = "tail"] /\ state' = [state EXCEPT ![s] = next]
  BY DEF Return
<1> HIDE DEF n
<1>2. \A t \in Sides : /\ Receiving(sess'[t]) => Receiving(sess[t])
                       /\ sess'[t].eob_received => sess[t].eob_received
                       /\ sess[t].to_send => sess'[t].to_send
  BY <1>1 DEF TypeOK, Same
<1>3. \A t \in Sides : Before(t)' => Before(t)
  BY <1>1 DEF TypeOK, Before
<1>4. \A t \in Sides : Transferring(t)' => Transferring(t)
  BY <1>1 DEF TypeOK, Transferring
<1> QED BY <1>2, <1>3, <1>4, EobKept

\* A handler that goes on, without a word.
LEMMA GoToEob ==
  ASSUME TypeOK, EobInv, NEW s \in Sides, NEW l, GoTo(s, l),
         NEW m, sess' = [sess EXCEPT ![s] = m] \/ sess' = sess, Same(sess[s], m),
         l \in {"handler", "WaitConn", "tail"} => Before(s) \/ state[s] \notin EarlyStates,
         l \in {"WaitConn"} => Before(s),
         l \in {"afterFile", "chunk", "afterData", "flush"} => Before(s) \/ Transferring(s),
         \A t \in Sides : NoMore(t)
  PROVE  EobInv'
<1>1. pc' = [pc EXCEPT ![s] = l] /\ state' = state
  BY DEF GoTo
<1>2. \A t \in Sides : /\ Receiving(sess'[t]) => Receiving(sess[t])
                       /\ sess'[t].eob_received => sess[t].eob_received
                       /\ sess[t].to_send => sess'[t].to_send
  BY DEF TypeOK, Same
<1>3. \A t \in Sides : Before(t)' => Before(t)
  BY <1>1 DEF TypeOK, Before
<1>4. \A t \in Sides : Transferring(t)' => Before(t) \/ Transferring(t)
  BY <1>1 DEF TypeOK, Transferring
<1> QED BY <1>2, <1>3, <1>4, EobKept

\* What is said during the setup of a session is none of the words.
LEMMA SetupWords ==
  ASSUME TypeOK, EobInv, NEW s \in Sides
  PROVE  /\ Quiet => \A t \in Sides : NoMore(t)
         /\ \A f \in Frame : f.cmd \notin Words =>
              <<f>> \in Seq(Frame) /\ \A c \in Words : ~Has(<<f>>, c)
         /\ \A f \in Frame : f.cmd \notin Words /\ Send(s, <<f>>) => \A t \in Sides : NoMore(t)
<1>1. Quiet => \A t \in Sides : NoMore(t)
  BY NoMoreIf DEF Quiet
<1>2. \A f \in Frame : f.cmd \notin Words =>
        <<f>> \in Seq(Frame) /\ \A c \in Words : ~Has(<<f>>, c)
  BY ShortOnes, OneFrame
<1> QED BY <1>1, <1>2, NoMoreSent

\* The handlers of the session setup, and the end of a session.
LEMMA HandlersEob ==
  ASSUME TypeInv, EobInv, NEW s \in Sides,
         \/ ConnInit(s) \/ WaitConnReturns(s) \/ SendPasswd(s)
         \/ WaitAddr(s) \/ AuthRemote(s) \/ IfSecure(s) \/ WaitOk(s)
         \/ WaitPwd(s) \/ PasswordAck(s)
         \/ TransferFilesReturns(s) \/ WaitEob(s) \/ Unknown(s) \/ Done(s)
  PROVE  EobInv'
<1>1. TypeOK /\ sess[s] \in Members /\ conf \in Scenarios
  BY DEF TypeInv, TypeOK
<1>2. /\ \A b : Same(sess[s], [sess[s] EXCEPT !.done = b])
      /\ \A b : Same(sess[s], [[sess[s] EXCEPT !.open = FALSE, !.done = TRUE] EXCEPT !.done = b])
  BY <1>1, SameEdits
<1>3. /\ Quiet => \A t \in Sides : NoMore(t)
      /\ \A c \in {"M_ERR", "M_OK"} : Send(s, <<Cmd(c)>>) => \A t \in Sides : NoMore(t)
  <2>1. \A c \in {"M_ERR", "M_OK"} : Cmd(c) \in Frame /\ Cmd(c).cmd \notin Words
    BY Frames DEF Cmd, Words
  <2> QED BY <1>1, <2>1, SetupWords
<1>4. CASE ConnInit(s) \/ WaitAddr(s) \/ IfSecure(s) \/ WaitPwd(s)
  <2>1. Before(s) /\ Quiet
    BY <1>4 DEF ConnInit, WaitAddr, IfSecure, WaitPwd, At, Before, EarlyStates, BinkState
  <2>2. PICK next : Return(s, next, sess[s])
    BY <1>4 DEF ConnInit, WaitAddr, IfSecure, WaitPwd
  <2> QED BY <1>1, <1>2, <1>3, <2>1, <2>2, ReturnEob
<1>5. CASE WaitConnReturns(s)
  <2>1. Before(s) /\ Quiet
    BY <1>5 DEF WaitConnReturns, Before
  <2>2. PICK next : Return(s, next, sess[s])
    BY <1>5 DEF WaitConnReturns
  <2> QED BY <1>1, <1>2, <1>3, <2>1, <2>2, ReturnEob
<1>6. CASE SendPasswd(s)
  <2> DEFINE p == IF sess[s].auth_type = "CRAM_MD5"
                    THEN CreateHashedSecret(sess[s].challenge, conf.Password[s])
                    ELSE PlainText(conf.Password[s])
             f == [cmd |-> "M_PWD", auth_type |-> sess[s].auth_type, password |-> p]
  <2>1. p \in Passwords
    <3>1. conf.Password[s] \in Secrets
      BY <1>1, SecretsOf
    <3> QED BY <1>1, <3>1, Fields DEF CreateHashedSecret, PlainText, Passwords, Challenges
  <2>2. f \in Frame /\ f.cmd \notin Words
    BY <1>1, <2>1, Frames, Fields DEF Words
  <2>3. Send(s, <<f>>) /\ Return(s, "WAIT_ADDR", sess[s]) /\ Before(s)
    BY <1>6 DEF SendPasswd, At, Before, EarlyStates, BinkState
  <2> HIDE DEF f, p
  <2>4. \A t \in Sides : NoMore(t)
    BY <1>1, <2>2, <2>3, SetupWords
  <2> QED BY <1>1, <1>2, <2>3, <2>4, ReturnEob
<1>7. CASE AuthRemote(s) \/ WaitOk(s) \/ PasswordAck(s)
  <2>1. Before(s)
    BY <1>7 DEF AuthRemote, WaitOk, PasswordAck, At, Before, EarlyStates, BinkState
  <2>2. PICK next : Return(s, next, sess[s])
    BY <1>7 DEF AuthRemote, WaitOk, PasswordAck
  <2>3. \A t \in Sides : NoMore(t)
    BY <1>3, <1>7 DEF AuthRemote, WaitOk, PasswordAck
  <2> QED BY <1>1, <1>2, <2>1, <2>2, <2>3, ReturnEob
<1>8. CASE TransferFilesReturns(s) \/ WaitEob(s) \/ Unknown(s)
  <2>1. PICK next \in {"WAIT_EOB", "DONE"} : Return(s, next, sess[s])
    BY <1>8 DEF TransferFilesReturns, WaitEob, Unknown
  <2>2. next \notin EarlyStates /\ Quiet
    BY <1>8 DEF TransferFilesReturns, WaitEob, Unknown, EarlyStates
  <2> QED BY <1>1, <1>2, <1>3, <2>1, <2>2, ReturnEob
<1>9. CASE Done(s)
  <2>1. Return(s, "DONE", [sess[s] EXCEPT !.open = FALSE, !.done = TRUE]) /\ Close(s)
    BY <1>9 DEF Done
  <2>2. \A t \in Sides : chan'[t] = chan[t] \/ chan'[t] = <<>>
    BY <1>1, <2>1 DEF Close, TypeOK
  <2>3. \A t \in Sides : NoMore(t)
    BY <1>1, <2>2, NoMoreIf
  <2>4. "DONE" \notin EarlyStates
    BY DEF EarlyStates
  <2> QED BY <1>1, <1>2, <2>1, <2>3, <2>4, ReturnEob
<1> QED BY <1>4, <1>5, <1>6, <1>7, <1>8, <1>9

\* The steps that go on inside of a handler and say none of the words.
LEMMA InnerEob ==
  ASSUME TypeInv, EobInv, NEW s \in Sides,
         \/ WaitConn(s) \/ NothingToSend(s) \/ SendFileData(s)
         \/ GetChunk(s) \/ BadChunk(s) \/ DanglingChunk(s) \/ AfterChunk(s) \/ LoopEnd(s)
         \/ rename_pending_files(s) \/ process_network_files(s) \/ SocketClosed(s)
  PROVE  EobInv'
<1>1. TypeOK /\ sess[s] \in Members /\ sess \in [Sides -> Members]
  BY DEF TypeInv, TypeOK
<1>2. Quiet => \A t \in Sides : NoMore(t)
  BY <1>1, SetupWords
<1>3. Same(sess[s], sess[s])
  BY <1>1, SameEdits
<1>4. CASE WaitConn(s)
  <2>1. Greeting(s) \in Seq(Frame) /\ \A c \in Words : ~Has(Greeting(s), c)
    <3> DEFINE a == Cmd("M_ADR")
               n == [cmd |-> "M_NUL", challenge |-> Challenge]
    <3>1. a \in Frame /\ n \in Frame /\ a.cmd \notin Words /\ n.cmd \notin Words
      BY Frames DEF Cmd, Words
    <3>2. Greeting(s) = <<a>> \/ Greeting(s) = <<n, a>>
      BY DEF Greeting
    <3> HIDE DEF a, n
    <3>3. CASE Greeting(s) = <<a>>
      BY <3>1, <3>3 DEF Has
    <3>4. CASE Greeting(s) = <<n, a>>
      BY <3>1, <3>4 DEF Has
    <3> QED BY <3>2, <3>3, <3>4
  <2>2. \A t \in Sides : NoMore(t)
    BY <1>1, <1>4, <2>1, NoMoreSent DEF WaitConn
  <2>3. PICK c : sess' = [sess EXCEPT ![s] = [sess[s] EXCEPT !.challenge = c]]
    BY <1>4 DEF WaitConn
  <2>4. Same(sess[s], [sess[s] EXCEPT !.challenge = c])
    BY <1>1, SameEdits
  <2>5. GoTo(s, "WaitConn") /\ Before(s)
    BY <1>4 DEF WaitConn, At, Before, EarlyStates, BinkState
  <2> QED BY <1>1, <2>2, <2>3, <2>4, <2>5, GoToEob
<1>5. CASE NothingToSend(s)
  <2>1. Before(s) /\ GoTo(s, "flush") /\ sess' = sess /\ Quiet
    BY <1>5 DEF NothingToSend, At, Before, EarlyStates, BinkState
  <2> QED BY <1>1, <1>2, <1>3, <2>1, GoToEob
<1>6. CASE SendFileData(s)
  <2> DEFINE m == [sess[s] EXCEPT !.file_length = FileSize(s), !.start = 0]
  <2>1. Same(sess[s], m)
    BY <1>1, SameEdits
  <2>2. sess' = [sess EXCEPT ![s] = m] \/ sess' = sess
    BY <1>6 DEF SendFileData
  <2> HIDE DEF m
  <2>3. PICK l \in {"chunk", "flush"} : GoTo(s, l)
    BY <1>6 DEF SendFileData
  <2>4. Transferring(s) /\ Quiet
    BY <1>6 DEF SendFileData, Transferring
  <2> QED BY <1>1, <1>2, <2>1, <2>2, <2>3, <2>4, GoToEob
<1>7. CASE GetChunk(s) \/ BadChunk(s) \/ DanglingChunk(s)
  <2>1. PICK d \in MailFile : SendChunk(s, d)
    BY <1>7, ChunkType DEF GetChunk, BadChunk, DanglingChunk
  <2>2. [cmd |-> "DATA", data |-> d] \in Frame /\ [cmd |-> "DATA", data |-> d].cmd \notin Words
    BY Frames DEF Words
  <2>3. \A t \in Sides : NoMore(t)
    BY <1>1, <2>1, <2>2, SetupWords DEF SendChunk
  <2> DEFINE m == [sess[s] EXCEPT !.start = @ + conf.ChunkSize]
  <2>4. sess' = [sess EXCEPT ![s] = m]
    BY <1>1, <2>1 DEF SendChunk
  <2>5. Same(sess[s], m)
    BY <1>1, SameEdits
  <2>6. PICK l \in {"afterData"} : GoTo(s, l)
    BY <2>1 DEF SendChunk
  <2>7. Transferring(s)
    BY <1>7 DEF GetChunk, BadChunk, DanglingChunk, Transferring
  <2> HIDE DEF m
  <2> QED BY <1>1, <2>3, <2>4, <2>5, <2>6, <2>7, GoToEob
<1>8. CASE AfterChunk(s)
  <2>1. PICK l \in {"chunk", "flush"} : GoTo(s, l)
    BY <1>8 DEF AfterChunk
  <2>2. Transferring(s) /\ sess' = sess /\ Quiet
    BY <1>8 DEF AfterChunk, Transferring
  <2> QED BY <1>1, <1>2, <1>3, <2>1, <2>2, GoToEob
<1>9. CASE LoopEnd(s)
  <2>1. PICK l \in {"rename", "handler"} : GoTo(s, l)
    BY <1>9 DEF LoopEnd
  <2>2. (Before(s) \/ state[s] \notin EarlyStates) /\ sess' = sess /\ Quiet
    BY <1>9 DEF LoopEnd, Before
  <2> QED BY <1>1, <1>2, <1>3, <2>1, <2>2, GoToEob
<1>10. CASE rename_pending_files(s) \/ process_network_files(s) \/ SocketClosed(s)
  <2>1. PICK l \in {"network", "contact", "rename"} : GoTo(s, l)
    BY <1>10 DEF rename_pending_files, process_network_files, SocketClosed, GoTo
  <2>2. sess' = sess /\ Quiet
    BY <1>10 DEF rename_pending_files, process_network_files, SocketClosed, Quiet
  <2> QED BY <1>1, <1>2, <1>3, <2>1, <2>2, GoToEob
<1> QED BY <1>4, <1>5, <1>6, <1>7, <1>8, <1>9, <1>10

\* M_FILE: until now nothing was under way.
LEMMA OfferEob ==
  ASSUME TypeInv, EobInv, NEW s \in Sides, SendFilePacket(s)
  PROVE  EobInv'
<1> DEFINE p == Peer(s)
           f == [cmd |-> "M_FILE", size |-> Len(out[s])]
<1>1. /\ TypeOK /\ sess[s] \in Members /\ sess \in [Sides -> Members]
      /\ p \in Sides /\ p # s /\ Peer(p) = s /\ \A t \in Sides : t = s \/ t = p
      /\ chan \in [Sides -> Seq(Frame)]
  BY Peers DEF TypeInv, TypeOK, Sides, Peer
<1>2. f \in Frame /\ <<f>> \in Seq(Frame) /\ f.cmd = "M_FILE"
  BY <1>1, Frames, OneFrame DEF TypeOK, MailFile
<1>3. /\ Send(s, <<f>>) /\ Before(s)
      /\ pc' = [pc EXCEPT ![s] = "afterFile"] /\ state' = state
      /\ sess' = [sess EXCEPT ![s].to_send = TRUE]
  BY DEF SendFilePacket, GoTo, At, Before, EarlyStates, BinkState
<1> HIDE DEF f, p
<1>4. /\ EobOf(s) /\ EobOf(p) /\ ~Underway(p) /\ Unfinished(p)
  BY <1>1, <1>3 DEF EobInv, EobOf
<1>5. /\ sess'[p] = sess[p] /\ sess'[s].to_send
      /\ Receiving(sess'[s]) = Receiving(sess[s])
      /\ sess'[s].eob_received = sess[s].eob_received
  BY <1>1, <1>3 DEF Members, Receiving
<1>6. chan'[s] = chan[s] /\ (chan'[p] = chan[p] \/ chan'[p] = chan[p] \o <<f>>)
  BY <1>1, <1>3 DEF Send, p
<1>7. \A c : Has(chan'[p], c) => Has(chan[p], c) \/ c = "M_FILE"
  BY <1>1, <1>2, <1>6, Added, ShortOnes
<1>8. OneFile(chan'[p])
  <2>1. OneFile(chan[p]) /\ ~Has(chan[p], "M_FILE")
    BY <1>4 DEF EobOf, Underway
  <2> QED BY <1>1, <1>2, <1>6, <2>1, Added, ShortOnes
<1>9. EobOf(p)'
  <2>1. ~Before(s)'
    BY <1>1, <1>3 DEF Before, TypeOK
  <2>2. Unfinished(p)' /\ ~Receiving(sess'[p])
    BY <1>1, <1>4, <1>5, <1>6, <1>7 DEF Unfinished, Underway
  <2> QED BY <1>1, <1>5, <1>8, <2>1, <2>2 DEF EobOf
<1>10. EobOf(s)'
  <2>1. (Before(p)' <=> Before(p)) /\ (Transferring(p)' <=> Transferring(p))
    BY <1>1, <1>3 DEF Before, Transferring, TypeOK
  <2>2. (Underway(s)' <=> Underway(s)) /\ (Unfinished(s) => Unfinished(s)') /\ Peer(s) = p
    BY <1>5, <1>6, <1>7 DEF Underway, Unfinished, p
  <2> QED BY <1>4, <1>5, <1>6, <2>1, <2>2 DEF EobOf
<1> QED BY <1>1, <1>9, <1>10 DEF EobInv

\* M_EOB: the sender has nothing to send, so nothing is under way.
LEMMA SendEobEob ==
  ASSUME TypeInv, EobInv, NEW s \in Sides, SendEob(s)
  PROVE  EobInv'
<1> DEFINE p == Peer(s)
           f == Cmd("M_EOB")
<1>1. /\ TypeOK /\ p \in Sides /\ p # s /\ Peer(p) = s /\ \A t \in Sides : t = s \/ t = p
      /\ chan \in [Sides -> Seq(Frame)]
  BY Peers DEF TypeInv, TypeOK, Sides, Peer
<1>2. f \in Frame /\ <<f>> \in Seq(Frame) /\ f.cmd = "M_EOB"
  BY Frames, OneFrame DEF Cmd
<1>3. /\ Send(s, <<f>>) /\ Transferring(s) /\ ~sess[s].to_send
      /\ pc' = [pc EXCEPT ![s] = "afterEob"] /\ state' = state /\ sess' = sess
  BY DEF SendEob, GoTo, Transferring, AllSent
<1> HIDE DEF f, p
<1>4. EobOf(s) /\ EobOf(p) /\ ~Underway(p)
  BY <1>1, <1>3 DEF EobInv, EobOf
<1>5. chan'[s] = chan[s] /\ (chan'[p] = chan[p] \/ chan'[p] = chan[p] \o <<f>>)
  BY <1>1, <1>3 DEF Send, p
<1>6. \A c : Has(chan'[p], c) => Has(chan[p], c) \/ c = "M_EOB"
  BY <1>1, <1>2, <1>5, Added, ShortOnes
<1>7. OneFile(chan'[p])
  <2>1. OneFile(chan[p]) /\ ~Has(<<f>>, "M_FILE")
    BY <1>2, <1>4, ShortOnes DEF EobOf
  <2> QED BY <1>1, <1>2, <1>5, <2>1, Added
<1>8. EobOf(p)'
  <2>1. ~Before(s)'
    BY <1>1, <1>3 DEF Before, TypeOK
  <2>2. ~Underway(p)'
    BY <1>3, <1>4, <1>6 DEF Underway
  <2> QED BY <1>1, <1>7, <2>1, <2>2 DEF EobOf, Underway
<1>9. EobOf(s)'
  <2>1. (Before(p)' <=> Before(p)) /\ (Transferring(p)' <=> Transferring(p))
    BY <1>1, <1>3 DEF Before, Transferring, TypeOK
  <2>2. (Underway(s)' <=> Underway(s)) /\ (Unfinished(s) => Unfinished(s)') /\ Peer(s) = p
    BY <1>3, <1>5, <1>6 DEF Underway, Unfinished, p
  <2> QED BY <1>3, <1>4, <1>5, <2>1, <2>2 DEF EobOf
<1> QED BY <1>1, <1>8, <1>9 DEF EobInv

\* A command is received: M_FILE is not under way any more but received, and
\* when M_EOB is, nothing is.
LEMMA CommandEob ==
  ASSUME TypeInv, EobInv, NEW s \in Sides, ReceiveCommand(s)
  PROVE  EobInv'
<1> DEFINE p == Peer(s)
           f == Head(chan[s])
           m == Handle(s, f)
<1>1. /\ TypeOK /\ sess[s] \in Members /\ sess \in [Sides -> Members]
      /\ p \in Sides /\ p # s /\ Peer(p) = s /\ Peer(s) = p /\ \A t \in Sides : t = s \/ t = p
      /\ chan \in [Sides -> Seq(Frame)] /\ chan[s] # <<>> /\ UNCHANGED <<pc, state>>
  BY Peers DEF TypeInv, TypeOK, Sides, Peer, ReceiveCommand
<1>2. f \in Frame
  BY <1>1, HeadTailProperties
<1>3. /\ f.cmd \in {"M_ADR", "M_OK", "M_EOB", "M_ERR", "M_NUL", "M_PWD", "M_FILE"}
      /\ sess' = [sess EXCEPT ![s] = m] /\ chan' = [chan EXCEPT ![s] = Tail(chan[s])]
  BY <1>2, Carries DEF ReceiveCommand, Pop
<1>4. /\ m.to_send = sess[s].to_send
      /\ f.cmd = "M_FILE" \/ Receiving(m) = Receiving(sess[s])
      /\ f.cmd = "M_EOB" \/ m.eob_received = sess[s].eob_received
  BY <1>1, <1>3 DEF Handle, Members, Receiving
<1>5. /\ \A c : Has(chan'[s], c) => Has(chan[s], c)
      /\ Has(chan[s], f.cmd)
      /\ EobOf(s) /\ EobOf(p) /\ OneFile(chan[s])
      /\ OneFile(chan'[s]) /\ (f.cmd = "M_FILE" => ~Has(chan'[s], "M_FILE"))
  BY <1>1, <1>3, TakenOff DEF EobInv, EobOf
<1>6. sess'[s] = m /\ sess'[p] = sess[p] /\ chan'[p] = chan[p]
  BY <1>1, <1>3
<1> HIDE DEF f, m, p
<1>7. /\ \A t \in Sides : /\ Before(t)' <=> Before(t)
                          /\ Transferring(t)' <=> Transferring(t)
  BY <1>1 DEF Before, Transferring
<1>8. EobOf(p)'
  <2>1. (Underway(p)' <=> Underway(p)) /\ (Unfinished(p) => Unfinished(p)')
    BY <1>1, <1>5, <1>6 DEF Underway, Unfinished
  <2> QED BY <1>1, <1>4, <1>5, <1>6, <1>7, <2>1 DEF EobOf
<1>9. EobOf(s)'
  <2>1. CASE f.cmd = "M_FILE"
    <3>1. Underway(s) /\ Unfinished(s) /\ ~Before(p) /\ (Transferring(p) => sess[p].to_send)
      BY <1>1, <1>5, <2>1 DEF EobOf, Underway
    <3>2. Unfinished(s)'
      BY <1>1, <1>4, <1>5, <1>6, <2>1, <3>1 DEF Unfinished
    <3> QED BY <1>1, <1>5, <1>6, <1>7, <2>1, <3>1, <3>2 DEF EobOf
  <2>2. CASE f.cmd = "M_EOB"
    <3>1. ~Underway(s) /\ ~Before(p)
      BY <1>1, <1>5, <2>2 DEF EobOf, Unfinished
    <3>2. ~Underway(s)'
      BY <1>4, <1>5, <1>6, <2>2, <3>1 DEF Underway
    <3> QED BY <1>1, <1>5, <1>7, <3>1, <3>2 DEF EobOf, Underway
  <2>3. CASE f.cmd \notin {"M_FILE", "M_EOB"}
    <3>1. (Underway(s)' => Underway(s)) /\ (Unfinished(s) => Unfinished(s)')
      BY <1>1, <1>4, <1>5, <1>6, <2>3 DEF Underway, Unfinished
    <3>2. Receiving(sess'[s]) => ~Has(chan'[s], "M_FILE")
      BY <1>4, <1>5, <1>6, <2>3 DEF EobOf
    <3> QED BY <1>1, <1>5, <1>6, <1>7, <3>1, <3>2 DEF EobOf
  <2> QED BY <2>1, <2>2, <2>3
<1> QED BY <1>1, <1>8, <1>9 DEF EobInv

\* M_GOT is received: what it is for is not under way.
LEMMA GotEob ==
  ASSUME TypeInv, EobInv, NEW s \in Sides, HandleFileGotRequest(s)
  PROVE  EobInv'
<1> DEFINE p == Peer(s)
<1>1. /\ TypeOK /\ sess[s] \in Members /\ sess \in [Sides -> Members]
      /\ p \in Sides /\ p # s /\ Peer(p) = s /\ Peer(s) = p /\ \A t \in Sides : t = s \/ t = p
      /\ chan \in [Sides -> Seq(Frame)] /\ chan[s] # <<>> /\ UNCHANGED <<pc, state>>
  BY Peers DEF TypeInv, TypeOK, Sides, Peer, HandleFileGotRequest
<1>2. /\ sess' = [sess EXCEPT ![s].to_send = FALSE] /\ Head(chan[s]).cmd = "M_GOT"
      /\ chan' = [chan EXCEPT ![s] = Tail(chan[s])]
  BY DEF HandleFileGotRequest, Pop
<1>3. /\ Receiving(sess'[s]) = Receiving(sess[s]) /\ sess'[s].eob_received = sess[s].eob_received
      /\ sess'[p] = sess[p] /\ chan'[p] = chan[p]
  BY <1>1, <1>2 DEF Members, Receiving
<1>4. /\ \A c : Has(chan'[s], c) => Has(chan[s], c)
      /\ Has(chan[s], "M_GOT") /\ OneFile(chan'[s])
      /\ EobOf(s) /\ EobOf(p)
  BY <1>1, <1>2, TakenOff DEF EobInv, EobOf
<1> HIDE DEF p
<1>5. \A t \in Sides : /\ Before(t)' <=> Before(t)
                       /\ Transferring(t)' <=> Transferring(t)
  BY <1>1 DEF Before, Transferring
<1>6. EobOf(p)'
  <2>1. ~Underway(p) /\ ~Before(s)
    BY <1>1, <1>4 DEF EobOf, Unfinished
  <2>2. ~Underway(p)'
    BY <1>3, <2>1 DEF Underway
  <2> QED BY <1>1, <1>3, <1>4, <1>5, <2>1, <2>2 DEF EobOf
<1>7. EobOf(s)'
  <2>1. (Underway(s)' => Underway(s)) /\ (Unfinished(s) => Unfinished(s)')
    BY <1>1, <1>3, <1>4 DEF Underway, Unfinished
  <2> QED BY <1>1, <1>3, <1>4, <1>5, <2>1 DEF EobOf
<1> QED BY <1>1, <1>6, <1>7 DEF EobInv

\* Data is received: the file stays under way, or it is complete, and M_GOT
\* is sent.
LEMMA DataEob ==
  ASSUME TypeInv, EobInv, NEW s \in Sides, process_data(s)
  PROVE  EobInv'
<1> DEFINE p == Peer(s)
           file == sess[s].current_receive_file
           data == Head(chan[s]).data
           len  == file.len + (IF MayWrite(s) THEN Len(data) ELSE 0)
           g == [cmd |-> "M_GOT", len |-> len]
<1>1. /\ TypeOK /\ sess[s] \in Members /\ sess \in [Sides -> Members]
      /\ p \in Sides /\ p # s /\ Peer(p) = s /\ Peer(s) = p /\ \A t \in Sides : t = s \/ t = p
      /\ chan \in [Sides -> Seq(Frame)] /\ chan[s] # <<>> /\ UNCHANGED <<pc, state>>
  BY Peers DEF TypeInv, TypeOK, Sides, Peer, process_data
<1>2. Receiving(sess[s])
  BY DEF process_data, Receiving
<1>3. /\ \A c : Has(Tail(chan[s]), c) => Has(chan[s], c)
      /\ OneFile(Tail(chan[s])) /\ EobOf(s) /\ EobOf(p)
  BY <1>1, TakenOff DEF EobInv, EobOf
<1>4. /\ ~Has(chan[s], "M_FILE") /\ Unfinished(s) /\ ~Before(p)
      /\ Transferring(p) => sess[p].to_send
  BY <1>1, <1>2, <1>3 DEF EobOf, Underway
<1>5. \A t \in Sides : /\ Before(t)' <=> Before(t)
                       /\ Transferring(t)' <=> Transferring(t)
  BY <1>1 DEF Before, Transferring
<1>6. CASE Complete(s, len)
  <2> DEFINE m == [sess[s] EXCEPT !.current_receive_file = NoFile, !.received = TRUE]
  <2>1. /\ sess' = [sess EXCEPT ![s] = m]
        /\ chan' = [chan EXCEPT ![s] = Tail(chan[s]),
                                ![p] = IF Connected(s) THEN Append(@, g) ELSE @]
    BY <1>6 DEF process_data
  <2>2. ~Receiving(m) /\ m.eob_received = sess[s].eob_received /\ m.to_send = sess[s].to_send
    BY <1>1 DEF Members, Receiving, NoFile
  <2>3. g \in Frame /\ g.cmd = "M_GOT"
    <3>1. data \in MailFile /\ file.len \in Nat
      <4>1. Head(chan[s]) \in Frame
        BY <1>1, HeadTailProperties
      <4> QED BY <1>1, <4>1, Carries, Fields DEF process_data
    <3>2. len \in Nat
      BY <3>1 DEF MailFile
    <3> QED BY <3>2, Frames
  <2> HIDE DEF m, g, len, data, file, p
  <2>4. /\ sess'[s] = m /\ sess'[p] = sess[p] /\ chan'[s] = Tail(chan[s])
        /\ chan'[p] = chan[p] \/ chan'[p] = chan[p] \o <<g>>
    <3>1. Append(chan[p], g) = chan[p] \o <<g>>
      BY <1>1, <2>3
    <3> QED BY <1>1, <2>1, <3>1
  <2>5. /\ \A c : Has(chan'[p], c) => Has(chan[p], c) \/ c = "M_GOT"
        /\ OneFile(chan'[p])
    <3>1. <<g>> \in Seq(Frame) /\ ~Has(<<g>>, "M_FILE") /\ \A c : Has(<<g>>, c) => c = "M_GOT"
      BY <2>3, OneFrame, ShortOnes
    <3> QED BY <1>1, <1>3, <2>4, <3>1, Added DEF EobOf
  <2>6. EobOf(s)'
    <3>1. ~Underway(s)'
      BY <1>3, <1>4, <2>2, <2>4 DEF Underway
    <3> QED BY <1>1, <1>3, <1>4, <1>5, <2>2, <2>4, <3>1 DEF EobOf
  <2>7. EobOf(p)'
    <3>1. (Underway(p)' <=> Underway(p)) /\ (Unfinished(p) => Unfinished(p)')
      <4>1. Has(chan'[p], "M_FILE") => Has(chan[p], "M_FILE")
        BY <2>5
      <4>2. Has(chan[p], "M_FILE") => Has(chan'[p], "M_FILE")
        BY <1>1, <2>3, <2>4, OneFrame, AddedKeeps
      <4>3. Has(chan'[p], "M_EOB") => Has(chan[p], "M_EOB")
        BY <2>5
      <4>4. Has(chan'[s], "M_GOT") => Has(chan[s], "M_GOT")
        BY <1>3, <2>4
      <4> QED BY <1>1, <2>4, <4>1, <4>2, <4>3, <4>4 DEF Underway, Unfinished
    <3>2. Receiving(sess'[p]) => ~Has(chan'[p], "M_FILE")
      BY <1>3, <2>4, <2>5 DEF EobOf
    <3> QED BY <1>1, <1>3, <1>5, <2>2, <2>4, <2>5, <3>1, <3>2 DEF EobOf
  <2> QED BY <1>1, <2>6, <2>7 DEF EobInv
<1>7. CASE ~Complete(s, len)
  <2> DEFINE m == [sess[s] EXCEPT !.current_receive_file =
                     [file EXCEPT !.len = len, !.open = MayWrite(s)]]
  <2>1. sess' = [sess EXCEPT ![s] = m] /\ chan' = [chan EXCEPT ![s] = Tail(chan[s])]
    BY <1>7 DEF process_data, Pop
  <2>2. m.eob_received = sess[s].eob_received /\ m.to_send = sess[s].to_send
    BY <1>1 DEF Members
  <2> HIDE DEF m, g, len, data, file
  <2>3. \A t \in Sides : NoMore(t)
    BY <1>1, <2>1, NoMoreIf
  <2>4. \A t \in Sides : /\ Receiving(sess'[t]) => Receiving(sess[t])
                         /\ sess'[t].eob_received => sess[t].eob_received
                         /\ sess[t].to_send => sess'[t].to_send
    BY <1>1, <1>2, <2>1, <2>2
  <2> QED BY <1>1, <1>5, <2>3, <2>4, EobKept
<1> QED BY <1>6, <1>7

\* The end of a process, and the environment.
LEMMA ExitEob ==
  ASSUME TypeOK, EobInv, NEW s \in Sides, Exit(s)
  PROVE  EobInv'
<1>1. \A t \in Sides : chan'[t] = chan[t] \/ chan'[t] = <<>>
  BY DEF Exit, Close, TypeOK
<1>2. \A t \in Sides : NoMore(t)
  BY <1>1, NoMoreIf
<1>3. \A t \in Sides : /\ Receiving(sess'[t]) => Receiving(sess[t])
                       /\ sess'[t].eob_received => sess[t].eob_received
                       /\ t # s => sess'[t] = sess[t]
  BY NewIsIdle DEF Exit, TypeOK
<1>4. \A t \in Sides : /\ Before(t)' => Before(t)
                       /\ Transferring(t)' => Transferring(t) /\ t # s
  BY DEF Exit, Before, Transferring, TypeOK
<1> QED BY <1>2, <1>3, <1>4, EobKept

LEMMA EnvironmentEob ==
  ASSUME TypeOK, EobInv, Environment
  PROVE  EobInv'
<1>1. CASE Call
  <2>1. \A t \in Sides : chan'[t] = <<>> /\ sess'[t] = NewBinkP(TRUE)
    BY <1>1 DEF Call
  <2>2. \A t \in Sides : ~Underway(t)' /\ Unfinished(t)'
    BY <2>1, ShortOnes, NewIsIdle, Peers DEF Underway, Unfinished
  <2> QED BY <2>1, <2>2, ShortOnes DEF EobInv, EobOf, Underway
<1>2. ASSUME NEW s \in Sides, Crash(s)
      PROVE  EobInv'
  BY <1>2, ExitEob DEF Crash
<1>3. CASE Reset \/ \E s \in Sides : ResetArrives(s) \/ network1_appends(s) \/ network1_tosses(s)
  <2>1. UNCHANGED <<pc, state, sess>>
    BY <1>3 DEF Reset, ResetArrives, network1_appends, network1_tosses
  <2>2. \A t \in Sides : chan'[t] = chan[t] \/ chan'[t] = <<>>
    BY <1>3 DEF Reset, ResetArrives, network1_appends, network1_tosses, TypeOK
  <2>3. \A t \in Sides : NoMore(t)
    BY <2>2, NoMoreIf
  <2>4. \A t \in Sides : (Before(t)' <=> Before(t)) /\ (Transferring(t)' <=> Transferring(t))
    BY <2>1 DEF Before, Transferring
  <2> QED BY <2>1, <2>3, <2>4, EobKept
<1> QED BY <1>1, <1>2, <1>3 DEF Environment

\* No step says that it is over too early.
LEMMA NextEob ==
  ASSUME TypeInv, EobInv, [Next]_vars
  PROVE  EobInv'
<1>1. TypeOK
  BY DEF TypeInv
<1>2. CASE UNCHANGED vars
  BY <1>2 DEF vars, EobInv, EobOf, Before, Underway, Unfinished, Transferring
<1>3. CASE Environment
  BY <1>1, <1>3, EnvironmentEob
<1>4. ASSUME NEW s \in Sides, DropData(s)
      PROVE  EobInv'
  <2>1. /\ UNCHANGED <<pc, state, sess>> /\ chan[s] # <<>>
        /\ \A t \in Sides : chan'[t] = chan[t] \/ (t = s /\ chan'[t] = Tail(chan[t]))
    BY <1>1, <1>4 DEF DropData, Pop, TypeOK
  <2>2. \A t \in Sides : NoMore(t)
    BY <1>1, <2>1, NoMoreIf
  <2>3. \A t \in Sides : (Before(t)' <=> Before(t)) /\ (Transferring(t)' <=> Transferring(t))
    BY <2>1 DEF Before, Transferring
  <2> QED BY <1>1, <2>1, <2>2, <2>3, EobKept
<1>5. ASSUME NEW s \in Sides, UpdateContact(s)
      PROVE  EobInv'
  BY <1>1, <1>5, ExitEob DEF UpdateContact
<1>6. ASSUME NEW s \in Sides, Step(s)
      PROVE  EobInv'
  BY <1>4, <1>5, <1>6, HandlersEob, InnerEob, OfferEob, SendEobEob, CommandEob, GotEob, DataEob
     DEF Step, Handler, ReceiveFrame
<1> QED BY <1>2, <1>3, <1>6 DEF Next

\* Whatever is lost, broken or late: a side that has received M_EOB is not in
\* the middle of a file, for every number of sessions and size of files.
THEOREM EobIsLast == Spec => []EobAfterFiles
<1>1. Init => TypeInv /\ EobInv
  <2>1. ASSUME Init PROVE EobInv
    BY <2>1, ShortOnes, NewIsIdle, Peers DEF Init, EobInv, EobOf, Underway, Unfinished
  <2> QED BY <2>1, InitType
<1>2. (TypeInv /\ EobInv) /\ [Next]_vars => (TypeInv /\ EobInv)'
  BY NextType, NextEob
<1>3. EobInv => EobAfterFiles
  BY DEF EobInv, EobOf, Unfinished, Underway, Receiving, EobAfterFiles
<1> QED BY <1>1, <1>2, <1>3, PTL DEF Spec

-----------------------------------------------------------------------------
(* Pending files.                                                          *)

\* On POSIX, where networkb always comes to run network1, there is no pending
\* file but between the rename and network1.
PendInv ==
  conf.Posix /\ ~MayReplace =>
    /\ budget.crashes = 0
    /\ \A s \in Sides : pc[s] # "network" => pend[s] = <<>>

\* What a step may do to the pending files of all sides.
PendStep == ~MayReplace =>
  \A s \in Sides : Packets(pend[s]) \subseteq Packets(pend'[s]) \cup delivered'[s]

\* A step that leaves them alone, and network1.
LEMMA PendKeptIf ==
  ASSUME TypeOK, PendInv, conf' = conf, budget'.crashes <= budget.crashes, budget'.crashes \in Nat,
         pend' = pend,
         \A s \in Sides : pc[s] = "network" => pc'[s] = "network" \/ MayReplace
  PROVE  PendInv' /\ PendStep
<1>1. MayReplace' = MayReplace
  BY DEF MayReplace
<1>2. PendInv'
  BY <1>1 DEF PendInv, TypeOK
<1> QED BY <1>2 DEF PendStep

LEMMA TossKeeps ==
  ASSUME TypeOK, PendInv, NEW s \in Sides, Network1(s), UNCHANGED env,
         \A t \in Sides \ {s} : pc'[t] = pc[t]
  PROVE  PendInv' /\ PendStep
<1>1. /\ MayReplace' = MayReplace /\ conf' = conf /\ budget' = budget
      /\ pend' = [pend EXCEPT ![s] = <<>>]
      /\ delivered' = [delivered EXCEPT ![s] = @ \cup Packets(pend[s])]
  BY DEF MayReplace, env, Network1
<1>2. PendInv'
  BY <1>1 DEF PendInv, TypeOK
<1>3. PendStep
  BY <1>1 DEF PendStep, TypeOK
<1> QED BY <1>2, <1>3

\* rename_pend puts a file behind those that are there, or, on POSIX, in the
\* place of none.
LEMMA RenameKeeps ==
  ASSUME TypeOK, PendInv, NEW s \in Sides, rename_pending_files(s)
  PROVE  PendInv' /\ PendStep
<1>1. /\ MayReplace' = MayReplace /\ conf' = conf /\ budget' = budget
      /\ pc[s] = "rename" /\ pc' = [pc EXCEPT ![s] = "network"]
      /\ pend' = pend \/ pend' = [pend EXCEPT ![s] = Renamed(s)]
  BY DEF MayReplace, env, rename_pending_files, GoTo
<1>2. PendInv'
  BY <1>1 DEF PendInv, TypeOK
<1>3. PendStep
  <2> SUFFICES ASSUME ~MayReplace, NEW t \in Sides
               PROVE  Packets(pend[t]) \subseteq Packets(pend'[t])
    BY DEF PendStep
  <2>1. CASE pend'[t] = pend[t]
    BY <2>1
  <2>2. CASE t = s /\ pend'[s] = Renamed(s) /\ conf.Posix
    <3>1. pend[s] = <<>>
      BY <1>1, <2>2 DEF PendInv
    <3> QED BY <2>2, <3>1 DEF Packets
  <2>3. CASE t = s /\ pend'[s] = Append(pend[s], inb[s])
    <3>1. pend[s] \in Seq(MailFile) /\ inb[s] \in MailFile
      BY DEF TypeOK
    <3>2. \A i \in DOMAIN pend[s] : i \in DOMAIN pend'[s] /\ pend'[s][i] = pend[s][i]
      BY <2>3, <3>1
    <3> QED BY <2>3, <3>2 DEF Packets
  <2> QED BY <1>1, <2>1, <2>2, <2>3 DEF Renamed, TypeOK
<1> QED BY <1>2, <1>3

\* The steps of the programs.
LEMMA StepKeepsPending ==
  ASSUME TypeOK, PendInv, NEW s \in Sides, Step(s)
  PROVE  PendInv' /\ PendStep
<1>1. budget.crashes \in Nat
  BY DEF TypeOK
<1>2. CASE rename_pending_files(s)
  BY <1>2, RenameKeeps
<1>3. CASE process_network_files(s)
  <2>1. CASE conf.SkipNet
    <3>1. /\ UNCHANGED <<env, pend>> /\ pc[s] = "network"
          /\ \A t \in Sides \ {s} : pc'[t] = pc[t]
      BY <1>3, <2>1 DEF process_network_files, GoTo, TypeOK
    <3>2. MayReplace' = MayReplace /\ (conf.Posix => MayReplace)
      BY <2>1, <3>1 DEF MayReplace, env
    <3> QED BY <3>1, <3>2 DEF PendInv, PendStep, env
  <2>2. CASE ~conf.SkipNet
    <3>1. Network1(s) /\ UNCHANGED env /\ \A t \in Sides \ {s} : pc'[t] = pc[t]
      BY <1>3, <2>2 DEF process_network_files, GoTo, TypeOK
    <3> QED BY <3>1, TossKeeps
  <2> QED BY <2>1, <2>2
<1>4. CASE ~rename_pending_files(s) /\ ~process_network_files(s)
  <2>1. UNCHANGED <<pend, env>> /\ pc[s] # "network" /\ \A t \in Sides \ {s} : pc'[t] = pc[t]
    <3>1. CASE Handler(s)
      BY <1>4, <3>1
         DEF Handler, ConnInit, WaitConn, WaitConnReturns, SendPasswd, WaitAddr, AuthRemote,
             IfSecure, WaitOk, WaitPwd, PasswordAck, SendFilePacket, NothingToSend, SendFileData,
             GetChunk, BadChunk, DanglingChunk, SendChunk, AfterChunk, SendEob,
             TransferFilesReturns, WaitEob, Unknown, Done, LoopEnd, UpdateContact, Exit,
             At, Return, GoTo, disk, TypeOK
    <3>2. CASE ReceiveFrame(s) \/ SocketClosed(s)
      BY <3>2 DEF ReceiveFrame, ReceiveCommand, HandleFileGotRequest, process_data, DropData,
                  SocketClosed, InWindow, WindowPcs, disk, TypeOK
    <3> QED BY <3>1, <3>2 DEF Step
  <2> QED BY <1>1, <2>1, PendKeptIf DEF env
<1> QED BY <1>2, <1>3, <1>4

\* Crashes, which there are none of where POSIX renames are safe, calls,
\* resets and network1.
LEMMA EnvironmentKeepsPending ==
  ASSUME TypeOK, PendInv, Environment
  PROVE  PendInv' /\ PendStep
<1>1. budget \in [sessions : Nat, crashes : Nat, resets : Nat]
  BY DEF TypeOK
<1>2. CASE Call \/ Reset
  <2>1. /\ UNCHANGED <<pend, conf>> /\ budget'.crashes = budget.crashes
        /\ \A t \in Sides : pc[t] = "network" => pc'[t] = "network"
    BY <1>1, <1>2 DEF Call, Reset, Spend, disk
  <2> QED BY <1>1, <2>1, PendKeptIf
<1>3. ASSUME NEW s \in Sides, Crash(s)
      PROVE  PendInv' /\ PendStep
  <2>1. UNCHANGED <<pend, conf>> /\ budget.crashes > 0
    BY <1>3 DEF Crash, Spend, disk
  <2>2. ~(conf.Posix /\ ~MayReplace) /\ MayReplace' = MayReplace
    BY <1>1, <2>1 DEF PendInv, MayReplace
  <2> QED BY <2>1, <2>2 DEF PendInv, PendStep
<1>4. ASSUME NEW s \in Sides, ResetArrives(s) \/ network1_appends(s)
      PROVE  PendInv' /\ PendStep
  <2>1. UNCHANGED <<pend, env, pc>>
    BY <1>4 DEF ResetArrives, network1_appends, disk
  <2> QED BY <1>1, <2>1, PendKeptIf DEF env
<1>5. ASSUME NEW s \in Sides, network1_tosses(s)
      PROVE  PendInv' /\ PendStep
  BY <1>5, TossKeeps DEF network1_tosses
<1> QED BY <1>2, <1>3, <1>4, <1>5 DEF Environment

\* A pending file that an earlier session left goes only when network1 has
\* taken it in, unless renames replace files and networkb may be kept from
\* running network1.
THEOREM PendingIsKept == Spec => PendingKept
<1>1. Init => TypeInv /\ PendInv
  <2>1. ASSUME Init PROVE PendInv
    <3>1. conf.Posix /\ ~MayReplace => budget.crashes = 0
      <4>1. conf.MaxCrashes \in Nat
        BY <2>1, ConfFields DEF Init
      <4> QED BY <2>1, <4>1 DEF Init, MayReplace
    <3> QED BY <2>1, <3>1 DEF Init, PendInv
  <2> QED BY <2>1, InitType
<1>2. TypeInv /\ PendInv /\ Next => PendInv' /\ PendStep
  BY StepKeepsPending, EnvironmentKeepsPending DEF TypeInv, Next
<1>3. PendInv /\ UNCHANGED vars => PendInv'
  BY DEF vars, PendInv, MayReplace, disk, env
<1>4. (TypeInv /\ PendInv) /\ [Next]_vars => (TypeInv /\ PendInv)' /\ [PendStep]_vars
  BY <1>2, <1>3, NextType
<1> QED BY <1>1, <1>4, PTL DEF Spec, PendingKept, PendStep

=============================================================================
