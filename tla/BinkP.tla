--------------------------------- MODULE BinkP ---------------------------------
(***************************************************************************)
(* networkb: two WWIV systems exchanging mail over the BinkP protocol      *)
(* (networkb/binkp.cpp), the one that calls (ORIGINATING) and the one that *)
(* answers (ANSWERING), both running the same code over one TCP            *)
(* connection, session after session.                                      *)
(*                                                                         *)
(* BinkP::Run is a loop over the handlers of BinkState.  Frames are only   *)
(* read inside process_frames, which a handler calls for a bounded time:   *)
(* these windows are the points where the two sides interleave.  pc says   *)
(* where in a handler a side is; a window is a value of pc at which        *)
(* ReceiveFrame is enabled, and the step that leaves it is its timeout or  *)
(* its predicate.  Loops that call process_frames with the same arguments  *)
(* (10 times 1s, 5 times 500ms...) are one window.  The latency of the     *)
(* link is arbitrary, so that a window may time out at any moment, unless  *)
(* Prompt says that the link is faster than every timeout.                 *)
(*                                                                         *)
(* A mail file is a sequence of packets, numbered in the order in which    *)
(* its system produced them.  What a system has on disk survives crashes.  *)
(***************************************************************************)
EXTENDS Integers, Sequences, FiniteSets, SequencesExt

CONSTANT Scenarios  \* the installations and environments considered

Sides == {"ORIGINATING", "ANSWERING"}
Peer(s) == IF s = "ORIGINATING" THEN "ANSWERING" ELSE "ORIGINATING"

(***************************************************************************)
(* A scenario:                                                             *)
(*   Password[s]    the password in the CALLOUT.NET of side s              *)
(*   AddressOk[s]   side s knows the address the other one presents        *)
(*   ChunkSize      packets in one data frame (16384 bytes)                *)
(*   PendSlots      names rename_pend tries (1000)                         *)
(*   Posix          rename(2) replaces an existing target                  *)
(*   SkipNet        --skip_net: networkb does not run network1             *)
(*   GetChunkFails  reading the outbound file may fail                     *)
(*   Prompt         every frame arrives before a timeout expires           *)
(*   MayAppend      network1 may append mail, also while a session is on   *)
(*   DeleteFails    the file that has been sent may resist its deletion    *)
(*   HasContact[s]  the CONTACT.NET of side s has a record of the other    *)
(* and the bounds: MaxPosted[s] packets produced by side s, MaxSessions    *)
(* calls, MaxCrashes crashes of a networkb process, MaxResets connections  *)
(* broken by the network.                                                  *)
(***************************************************************************)
Scenario ==
  [Password : [Sides -> STRING \ {""}], AddressOk : [Sides -> BOOLEAN],
   ChunkSize : Nat \ {0}, PendSlots : Nat, Posix : BOOLEAN, SkipNet : BOOLEAN,
   GetChunkFails : BOOLEAN, Prompt : BOOLEAN, MayAppend : BOOLEAN,
   DeleteFails : BOOLEAN, HasContact : [Sides -> BOOLEAN],
   MaxPosted : [Sides -> Nat], MaxSessions : Nat, MaxCrashes : Nat, MaxResets : Nat]

ASSUME ScenarioAssumption == \A c \in Scenarios : c \in Scenario

VARIABLES
  pc,         \* pc[s]: where in Run and its handlers side s is
  state,      \* state[s]: the local variable state of Run
  sess,       \* sess[s]: the members of the BinkP object of side s
  chan,       \* chan[s]: frames on their way to side s
  rst,        \* rst[s]: a TCP reset is on its way to side s
  out,        \* out[s]: the outbound mail file sN.net, <<>> when there is none
  inb,        \* inb[s]: the file being received, <<>> when there is none
  pend,       \* pend[s]: the pending files p1-0-i.net, in slot order
  delivered,  \* delivered[s]: the packets network1 has taken in on side s
  contact,    \* contact[s]: the CONTACT.NET record for the other side
  posted,     \* posted[s]: packets side s has produced
  late,       \* ghost: packets appended to sN.net after it was offered
  offers,     \* ghost: every content of sN.net side s has offered with M_FILE
  budget,     \* sessions, crashes and resets still allowed
  conf        \* the scenario, fixed from the start

disk == <<out, inb, pend, delivered>>
ghost == <<posted, late, offers>>
env == <<budget, conf>>
vars == <<pc, state, sess, chan, rst, disk, contact, ghost, env>>

-----------------------------------------------------------------------------
(* Members of a BinkP object.                                              *)

Garbage == 0        \* a byte range that was not read from the file
Challenge == "cafebabecafebabe"
NoFile == [size |-> 0, len |-> 0, open |-> FALSE, on |-> FALSE]

\* A password as it travels: in clear, or as the digest of challenge and
\* secret (CreateHashedSecret, taken to be free of collisions).
PlainText(secret) == [challenge |-> "", secret |-> secret]
CreateHashedSecret(challenge, secret) == [challenge |-> challenge, secret |-> secret]

NewBinkP(isOpen) ==
  [open |-> isOpen, done |-> FALSE, address_list |-> FALSE, challenge |-> "",
   auth_type |-> "PLAIN_TEXT", remote_password |-> PlainText(""),
   ok_received |-> FALSE, eob_received |-> FALSE, error_received |-> FALSE,
   to_send |-> FALSE, file_length |-> 0, start |-> 0,
   current_receive_file |-> NoFile, received |-> FALSE]

StartState(s) == IF s = "ORIGINATING" THEN "CONN_INIT" ELSE "WAIT_CONN"

Init ==
  /\ conf \in Scenarios
  /\ pc        = [s \in Sides |-> "idle"]
  /\ state     = [s \in Sides |-> StartState(s)]
  /\ sess      = [s \in Sides |-> NewBinkP(FALSE)]
  /\ chan      = [s \in Sides |-> <<>>]
  /\ rst       = [s \in Sides |-> FALSE]
  /\ posted    \in {f \in [Sides -> UNION {0 .. conf.MaxPosted[s] : s \in Sides}] :
                       \A s \in Sides : f[s] <= conf.MaxPosted[s]}
  /\ out       = [s \in Sides |-> [i \in 1 .. posted[s] |-> i]]
  /\ inb       = [s \in Sides |-> <<>>]
  /\ pend      = [s \in Sides |-> <<>>]
  /\ delivered = [s \in Sides |-> {}]
  /\ contact   = [s \in Sides |-> [numcontacts |-> 0, numfails |-> 0]]
  /\ late      = [s \in Sides |-> {}]
  /\ offers    = [s \in Sides |-> {}]
  /\ budget    = [sessions |-> conf.MaxSessions, crashes |-> conf.MaxCrashes,
                  resets |-> conf.MaxResets]

-----------------------------------------------------------------------------
(* The connection.                                                         *)

Cmd(c) == [cmd |-> c]

\* A frame sent on a live connection is queued; one sent to a side that has
\* closed is answered by a reset.
Connected(s) == sess[Peer(s)].open /\ ~rst[s]

Send(s, frames) ==
  /\ chan' = [chan EXCEPT ![Peer(s)] = IF Connected(s) THEN @ \o frames ELSE @]
  /\ rst' = [rst EXCEPT ![s] = @ \/ ~Connected(s)]

\* Closing the socket with unread input resets the connection.
Close(s) ==
  /\ chan' = [chan EXCEPT ![s] = <<>>]
  /\ rst' = [rst EXCEPT ![Peer(s)] = @ \/ (sess[Peer(s)].open /\ chan[s] # <<>>)]

Quiet == UNCHANGED <<chan, rst>>

-----------------------------------------------------------------------------
(* process_frames: the windows.                                            *)

WindowStates ==
  {"CONN_INIT", "WAIT_ADDR", "WAIT_PWD", "WAIT_OK", "TRANSFER_FILES", "WAIT_EOB", "UNKNOWN"}
WindowPcs == {"WaitConn", "afterFile", "afterData", "flush", "afterEob", "tail"}
InWindow(s) ==
  /\ sess[s].open
  /\ pc[s] \in WindowPcs \/ (pc[s] = "handler" /\ state[s] \in WindowStates)

\* The predicate process_frames is called with.
Predicate(s) ==
  /\ pc[s] = "handler"
  /\ \/ state[s] = "WAIT_ADDR" /\ sess[s].address_list
     \/ state[s] = "WAIT_PWD" /\ sess[s].remote_password # PlainText("")
     \/ state[s] = "WAIT_OK" /\ sess[s].ok_received
     \/ state[s] = "WAIT_EOB" /\ sess[s].eob_received

\* The waits of 10 to 60 seconds, against windows of at most 2.5.
LongWait(s) ==
  /\ pc[s] = "handler" /\ ~Predicate(s)
  /\ state[s] \in {"WAIT_ADDR", "WAIT_PWD", "WAIT_OK", "WAIT_EOB"}

\* On a prompt link a window ends when both sides have nothing to read, and
\* a long wait only when the other side waits as well.
TimesOut(s) ==
  conf.Prompt =>
    /\ chan[s] = <<>> /\ chan[Peer(s)] = <<>>
    /\ InWindow(Peer(s)) \/ ~sess[Peer(s)].open
    /\ LongWait(s) => LongWait(Peer(s))

Leaves(s) == Predicate(s) \/ TimesOut(s) \/ ~sess[s].open

At(s, st) == pc[s] = "handler" /\ state[s] = st

\* The end of a handler: the state it returns, with the members m it leaves
\* behind, and the test of error_received_ that follows in Run.
Return(s, next, m) ==
  /\ state' = [state EXCEPT ![s] = next]
  /\ sess' = [sess EXCEPT ![s] = [m EXCEPT !.done = @ \/ m.error_received]]
  /\ pc' = [pc EXCEPT ![s] = "tail"]

GoTo(s, label) == pc' = [pc EXCEPT ![s] = label] /\ UNCHANGED state

-----------------------------------------------------------------------------
(* process_command and process_data: the frames.                           *)

Pop(s) == chan' = [chan EXCEPT ![s] = Tail(@)] /\ UNCHANGED rst

\* What the commands that only set members do to them.
Handle(s, f) ==
  LET m == sess[s] IN
  CASE f.cmd = "M_NUL"  -> [m EXCEPT !.challenge = f.challenge, !.auth_type = "CRAM_MD5"]
    [] f.cmd = "M_ADR"  -> [m EXCEPT !.address_list = TRUE]
    [] f.cmd = "M_OK"   -> [m EXCEPT !.ok_received = TRUE]
    [] f.cmd = "M_EOB"  -> [m EXCEPT !.eob_received = TRUE]
    [] f.cmd = "M_ERR"  -> [m EXCEPT !.error_received = TRUE]
    [] f.cmd = "M_PWD"  -> [m EXCEPT !.auth_type = f.auth_type, !.remote_password = f.password]
    [] f.cmd = "M_FILE" -> [m EXCEPT !.current_receive_file =
                                [size |-> f.size, len |-> 0, open |-> FALSE, on |-> TRUE]]

ReceiveCommand(s) ==
  /\ InWindow(s) /\ ~Predicate(s) /\ chan[s] # <<>>
  /\ Head(chan[s]).cmd \notin {"M_GOT", "DATA"}
  /\ sess' = [sess EXCEPT ![s] = Handle(s, Head(chan[s]))]
  /\ Pop(s)
  /\ UNCHANGED <<pc, state, disk, contact, ghost, env>>

\* HandleFileGotRequest: the file is deleted, whatever length was acknowledged.
\* If that fails a line in the log says so, and it is there for the next call.
AfterGotKept(s) == out[s]  \* mutant: Delete is forgotten
AfterGot(s) == IF sess[s].to_send THEN <<>> ELSE out[s]

HandleFileGotRequest(s) ==
  /\ InWindow(s) /\ ~Predicate(s) /\ chan[s] # <<>>
  /\ Head(chan[s]).cmd = "M_GOT"
  /\ \/ out' = [out EXCEPT ![s] = AfterGot(s)]
     \/ conf.DeleteFails /\ out' = out
  /\ sess' = [sess EXCEPT ![s].to_send = FALSE]
  /\ Pop(s)
  /\ UNCHANGED <<pc, state, inb, pend, delivered, contact, ghost, env>>

\* WFileTransferFile::WriteChunk does not write to a file it finds on disk.
MayWriteAlways(s) == TRUE  \* mutant: the test for an existing file is dropped
MayWrite(s) == sess[s].current_receive_file.open \/ inb[s] = <<>>

CompleteEarly(s, len) == len + 1 >= sess[s].current_receive_file.size  \* mutant: off by one
Complete(s, len) == len >= sess[s].current_receive_file.size

process_data(s) ==
  LET file == sess[s].current_receive_file
      data == Head(chan[s]).data
      len  == file.len + (IF MayWrite(s) THEN Len(data) ELSE 0)
  IN
  /\ InWindow(s) /\ ~Predicate(s) /\ chan[s] # <<>>
  /\ Head(chan[s]).cmd = "DATA"
  /\ file.on
  /\ inb' = [inb EXCEPT ![s] = IF MayWrite(s) THEN @ \o data ELSE @]
  /\ IF Complete(s, len)
       THEN /\ sess' = [sess EXCEPT ![s] =
                          [@ EXCEPT !.current_receive_file = NoFile, !.received = TRUE]]
            /\ chan' = [chan EXCEPT
                 ![s] = Tail(@),
                 ![Peer(s)] = IF Connected(s) THEN Append(@, [cmd |-> "M_GOT", len |-> len])
                                              ELSE @]
            /\ rst' = [rst EXCEPT ![s] = @ \/ ~Connected(s)]
       ELSE /\ sess' = [sess EXCEPT ![s].current_receive_file =
                          [file EXCEPT !.len = len, !.open = MayWrite(s)]]
            /\ Pop(s)
  /\ UNCHANGED <<pc, state, out, pend, delivered, contact, ghost, env>>

\* "Received M_DATA with no current file": the frame is dropped.
DropData(s) ==
  /\ InWindow(s) /\ ~Predicate(s) /\ chan[s] # <<>>
  /\ Head(chan[s]).cmd = "DATA"
  /\ ~sess[s].current_receive_file.on
  /\ Pop(s)
  /\ UNCHANGED <<pc, state, sess, disk, contact, ghost, env>>

ReceiveFrame(s) ==
  ReceiveCommand(s) \/ HandleFileGotRequest(s) \/ process_data(s) \/ DropData(s)

\* socket_closed_error: the end of the stream is read, Run leaves its loop.
SocketClosed(s) ==
  /\ InWindow(s) /\ ~Predicate(s)
  /\ chan[s] = <<>>
  /\ ~sess[Peer(s)].open \/ rst[s]
  /\ pc' = [pc EXCEPT ![s] = "rename"]
  /\ UNCHANGED <<state, sess, chan, rst, disk, contact, ghost, env>>

\* The reset arrives: what was not read yet is lost.
ResetArrives(s) ==
  /\ rst[s] /\ chan[s] # <<>>
  /\ chan' = [chan EXCEPT ![s] = <<>>]
  /\ UNCHANGED <<pc, state, sess, rst, disk, contact, ghost, env>>

-----------------------------------------------------------------------------
(* The handlers of the session setup.                                      *)

ConnInit(s) ==
  /\ At(s, "CONN_INIT") /\ Leaves(s)
  /\ Return(s, "WAIT_CONN", sess[s]) /\ Quiet
  /\ UNCHANGED <<disk, contact, ghost, env>>

\* WaitConn sends the greeting, then opens a window.
Greeting(s) ==
  IF s = "ANSWERING" THEN <<[cmd |-> "M_NUL", challenge |-> Challenge], Cmd("M_ADR")>>
                     ELSE <<Cmd("M_ADR")>>
WaitConn(s) ==
  /\ At(s, "WAIT_CONN")
  /\ sess' = [sess EXCEPT ![s].challenge = IF s = "ANSWERING" THEN Challenge ELSE @]
  /\ Send(s, Greeting(s))
  /\ GoTo(s, "WaitConn")
  /\ UNCHANGED <<disk, contact, ghost, env>>

WaitConnReturns(s) ==
  /\ pc[s] = "WaitConn" /\ Leaves(s)
  /\ Return(s, IF s = "ORIGINATING" THEN "SEND_PASSWORD" ELSE "WAIT_ADDR", sess[s]) /\ Quiet
  /\ UNCHANGED <<disk, contact, ghost, env>>

SendPasswd(s) ==
  /\ At(s, "SEND_PASSWORD")
  /\ Send(s, <<[cmd |-> "M_PWD", auth_type |-> sess[s].auth_type, password |->
         IF sess[s].auth_type = "CRAM_MD5"
           THEN CreateHashedSecret(sess[s].challenge, conf.Password[s])
           ELSE PlainText(conf.Password[s])]>>)
  /\ Return(s, "WAIT_ADDR", sess[s])
  /\ UNCHANGED <<disk, contact, ghost, env>>

WaitAddr(s) ==
  /\ At(s, "WAIT_ADDR") /\ Leaves(s)
  /\ Return(s, "AUTH_REMOTE", sess[s]) /\ Quiet
  /\ UNCHANGED <<disk, contact, ghost, env>>

Knows(s) == sess[s].address_list /\ conf.AddressOk[s]

AuthRemote(s) ==
  /\ At(s, "AUTH_REMOTE")
  /\ IF Knows(s)
       THEN /\ Return(s, IF s = "ANSWERING" THEN "WAIT_PWD" ELSE "IF_SECURE", sess[s])
            /\ Quiet
       ELSE /\ Return(s, "UNKNOWN", sess[s])
            /\ Send(s, <<Cmd("M_ERR")>>)
  /\ UNCHANGED <<disk, contact, ghost, env>>

IfSecure(s) ==
  /\ At(s, "IF_SECURE")
  /\ Return(s, "WAIT_OK", sess[s]) /\ Quiet
  /\ UNCHANGED <<disk, contact, ghost, env>>

WaitOk(s) ==
  /\ At(s, "WAIT_OK") /\ Leaves(s)
  /\ IF sess[s].ok_received
       THEN Return(s, "TRANSFER_FILES", sess[s]) /\ Quiet
       ELSE Return(s, "DONE", sess[s]) /\ Send(s, <<Cmd("M_ERR")>>)
  /\ UNCHANGED <<disk, contact, ghost, env>>

WaitPwd(s) ==
  /\ At(s, "WAIT_PWD") /\ Leaves(s)
  /\ Return(s, "PASSWORD_ACK", sess[s]) /\ Quiet
  /\ UNCHANGED <<disk, contact, ghost, env>>

\* mutant: the empty password left by a timeout passes
PasswordsMatchEmpty(s) ==
  sess[s].remote_password \in {PlainText(""), PlainText(conf.Password[s]),
                              CreateHashedSecret(sess[s].challenge, conf.Password[s])}
PasswordsMatch(s) ==
  sess[s].remote_password =
    IF sess[s].auth_type = "PLAIN_TEXT"
      THEN PlainText(conf.Password[s])
      ELSE CreateHashedSecret(sess[s].challenge, conf.Password[s])

PasswordAck(s) ==
  /\ At(s, "PASSWORD_ACK")
  /\ IF PasswordsMatch(s)
       THEN Return(s, "TRANSFER_FILES", sess[s]) /\ Send(s, <<Cmd("M_OK")>>)
       ELSE Return(s, "DONE", sess[s]) /\ Send(s, <<Cmd("M_ERR")>>)
  /\ UNCHANGED <<disk, contact, ghost, env>>

-----------------------------------------------------------------------------
(* TransferFiles and its helpers.                                          *)

\* After the first window: the outbound file is offered, if there is one.
SendFilePacket(s) ==
  /\ At(s, "TRANSFER_FILES") /\ Leaves(s)
  /\ out[s] # <<>>
  /\ sess' = [sess EXCEPT ![s].to_send = TRUE]
  /\ Send(s, <<[cmd |-> "M_FILE", size |-> Len(out[s])]>>)
  /\ offers' = [offers EXCEPT ![s] = @ \cup {out[s]}]
  /\ late' = [late EXCEPT ![s] = @ \ Range(out[s])]
  /\ GoTo(s, "afterFile")
  /\ UNCHANGED <<disk, contact, posted, env>>

NothingToSend(s) ==
  /\ At(s, "TRANSFER_FILES") /\ Leaves(s)
  /\ out[s] = <<>>
  /\ GoTo(s, "flush") /\ Quiet
  /\ UNCHANGED <<sess, disk, contact, ghost, env>>

\* SendFileData reads the length of the file again: it may have grown.
FileSizeFails(s) == 0 - 1  \* mutant: GetLength fails, its -1 is not looked at
FileSize(s) == Len(out[s])

SendFileData(s) ==
  /\ pc[s] = "afterFile" /\ Leaves(s)
  /\ IF sess[s].to_send
       THEN /\ sess' = [sess EXCEPT ![s] = [@ EXCEPT !.file_length = FileSize(s), !.start = 0]]
            /\ GoTo(s, "chunk")
       ELSE UNCHANGED sess /\ GoTo(s, "flush")
  /\ Quiet
  /\ UNCHANGED <<disk, contact, ghost, env>>

ChunkEnd(s) ==
  IF sess[s].start + conf.ChunkSize < sess[s].file_length
    THEN sess[s].start + conf.ChunkSize ELSE sess[s].file_length
GarbageChunk(s) == [i \in 1 .. (ChunkEnd(s) - sess[s].start) |-> Garbage]

SendChunk(s, data) ==
  /\ Send(s, <<[cmd |-> "DATA", data |-> data]>>)
  /\ sess' = [sess EXCEPT ![s].start = @ + conf.ChunkSize]
  /\ GoTo(s, "afterData")
  /\ UNCHANGED <<disk, contact, ghost, env>>

GetChunk(s) ==
  /\ pc[s] = "chunk" /\ sess[s].to_send
  /\ SendChunk(s, SubSeq(out[s], sess[s].start + 1, ChunkEnd(s)))

\* GetChunk returns false: the frame goes out with what the buffer held.
BadChunk(s) ==
  /\ conf.GetChunkFails
  /\ pc[s] = "chunk" /\ sess[s].to_send
  /\ SendChunk(s, GarbageChunk(s))

\* M_GOT came while frames were still to be sent and the TransferFile is
\* gone: reading through the dangling pointer sends anything.
DanglingChunk(s) ==
  /\ pc[s] = "chunk" /\ ~sess[s].to_send
  /\ SendChunk(s, GarbageChunk(s))

AfterChunk(s) ==
  /\ pc[s] = "afterData" /\ Leaves(s)
  /\ GoTo(s, IF sess[s].start < sess[s].file_length THEN "chunk" ELSE "flush")
  /\ Quiet
  /\ UNCHANGED <<sess, disk, contact, ghost, env>>

\* mutant: the test of files_to_send_ is dropped
AllSentUnchecked(s) == TRUE
AllSent(s) == ~sess[s].to_send

SendEob(s) ==
  /\ pc[s] = "flush" /\ Leaves(s)
  /\ AllSent(s)
  /\ Send(s, <<Cmd("M_EOB")>>)
  /\ GoTo(s, "afterEob")
  /\ UNCHANGED <<sess, disk, contact, ghost, env>>

TransferFilesReturns(s) ==
  /\ pc[s] = "afterEob" \/ (pc[s] = "flush" /\ ~AllSent(s))
  /\ Leaves(s)
  /\ Return(s, "WAIT_EOB", sess[s]) /\ Quiet
  /\ UNCHANGED <<disk, contact, ghost, env>>

-----------------------------------------------------------------------------
(* The end of a session.                                                   *)

WaitEob(s) ==
  /\ At(s, "WAIT_EOB") /\ Leaves(s)
  /\ Return(s, "DONE", sess[s]) /\ Quiet
  /\ UNCHANGED <<disk, contact, ghost, env>>

Unknown(s) ==
  /\ At(s, "UNKNOWN") /\ Leaves(s)
  /\ Return(s, "DONE", sess[s]) /\ Quiet
  /\ UNCHANGED <<disk, contact, ghost, env>>

\* mutant: the loop of Run is never told to stop
DoneNotSet(s) ==
  /\ At(s, "DONE")
  /\ Return(s, "DONE", [sess[s] EXCEPT !.open = FALSE])
  /\ Close(s)
  /\ UNCHANGED <<disk, contact, ghost, env>>

Done(s) ==
  /\ At(s, "DONE")
  /\ Return(s, "DONE", [sess[s] EXCEPT !.open = FALSE, !.done = TRUE])
  /\ Close(s)
  /\ UNCHANGED <<disk, contact, ghost, env>>

\* The bottom of the loop of Run.
LoopEnd(s) ==
  /\ pc[s] = "tail" /\ Leaves(s)
  /\ GoTo(s, IF sess[s].done THEN "rename" ELSE "handler") /\ Quiet
  /\ UNCHANGED <<sess, disk, contact, ghost, env>>

\* rename_pend: the first name rename() accepts.  On POSIX that is always the
\* first one; elsewhere an existing file makes it fail.
Renamed(s) == IF conf.Posix THEN <<inb[s]>> ELSE Append(pend[s], inb[s])
CanRename(s) == conf.Posix \/ Len(pend[s]) < conf.PendSlots

Received(s) == sess[s].received

rename_pending_files(s) ==
  /\ pc[s] = "rename"
  /\ IF Received(s) /\ CanRename(s)
       THEN /\ pend' = [pend EXCEPT ![s] = Renamed(s)]
            /\ inb' = [inb EXCEPT ![s] = <<>>]
       ELSE UNCHANGED <<pend, inb>>
  /\ GoTo(s, "network") /\ Quiet
  /\ UNCHANGED <<sess, out, delivered, contact, ghost, env>>

\* network1 takes in every pending file and deletes it.
Packets(files) == UNION {Range(files[i]) : i \in DOMAIN files}
Network1(s) ==
  /\ delivered' = [delivered EXCEPT ![s] = @ \cup Packets(pend[s])]
  /\ pend' = [pend EXCEPT ![s] = <<>>]

\* mutant: network1 is not run after the rename
process_network_filesLater(s) ==
  /\ pc[s] = "network"
  /\ GoTo(s, "contact") /\ Quiet
  /\ UNCHANGED <<sess, disk, contact, ghost, env>>

process_network_files(s) ==
  /\ pc[s] = "network"
  /\ IF conf.SkipNet THEN UNCHANGED <<pend, delivered>> ELSE Network1(s)
  /\ GoTo(s, "contact") /\ Quiet
  /\ UNCHANGED <<sess, out, inb, contact, ghost, env>>

\* The process ends: the operating system closes its socket.
Exit(s) ==
  /\ pc' = [pc EXCEPT ![s] = "idle"]
  /\ state' = [state EXCEPT ![s] = StartState(s)]
  /\ sess' = [sess EXCEPT ![s] = NewBinkP(FALSE)]
  /\ Close(s)

\* The record of CONTACT.NET: add_connect is add_contact and byte counters.
add_contact(c) == [c EXCEPT !.numcontacts = c.numcontacts + 1]
add_failure(c) == [add_contact(c) EXCEPT !.numfails = c.numfails + 1]

\* The answering side can only find the record once it knows who called; a
\* system without one is not given one.
UpdateContact(s) ==
  /\ pc[s] = "contact"
  /\ contact' = IF (s = "ANSWERING" /\ ~sess[s].address_list) \/ ~conf.HasContact[s]
                 THEN contact
                 ELSE [contact EXCEPT ![s] =
                        IF sess[s].error_received THEN add_failure(@) ELSE add_contact(@)]
  /\ Exit(s)
  /\ UNCHANGED <<disk, ghost, env>>

-----------------------------------------------------------------------------
(* The environment: calls, crashes, resets, and the BBS's own network1.    *)

Spend(what) == budget[what] > 0 /\ budget' = [budget EXCEPT ![what] = @ - 1]

Call ==
  /\ \A s \in Sides : pc[s] = "idle"
  /\ Spend("sessions")
  /\ pc' = [s \in Sides |-> "handler"]
  /\ sess' = [s \in Sides |-> NewBinkP(TRUE)]
  /\ chan' = [s \in Sides |-> <<>>]
  /\ rst' = [s \in Sides |-> FALSE]
  /\ UNCHANGED <<state, disk, contact, ghost, conf>>

Crash(s) ==
  /\ pc[s] # "idle"
  /\ Spend("crashes")
  /\ Exit(s)
  /\ UNCHANGED <<disk, contact, ghost, conf>>

Reset ==
  /\ \A s \in Sides : sess[s].open /\ ~rst[s]
  /\ Spend("resets")
  /\ rst' = [s \in Sides |-> TRUE]
  /\ UNCHANGED <<pc, state, sess, chan, disk, contact, ghost, conf>>

\* network1, run by the BBS or by a session with a third system, appends a
\* packet to sN.net.  Windows keeps it out while the file is being read.
network1_appends(s) ==
  /\ conf.MayAppend /\ posted[s] < conf.MaxPosted[s]
  /\ conf.Posix \/ sess[s].start = 0
  /\ posted' = [posted EXCEPT ![s] = @ + 1]
  /\ out' = [out EXCEPT ![s] = Append(@, posted[s] + 1)]
  /\ late' = [late EXCEPT ![s] = IF sess[s].to_send THEN @ \cup {posted[s] + 1} ELSE @]
  /\ UNCHANGED <<pc, state, sess, chan, rst, inb, pend, delivered, contact, offers, env>>

network1_tosses(s) ==
  /\ pend[s] # <<>>
  /\ Network1(s)
  /\ UNCHANGED <<pc, state, sess, chan, rst, out, inb, contact, ghost, env>>

-----------------------------------------------------------------------------
Handler(s) ==
  \/ ConnInit(s) \/ WaitConn(s) \/ WaitConnReturns(s) \/ SendPasswd(s)
  \/ WaitAddr(s) \/ AuthRemote(s) \/ IfSecure(s) \/ WaitOk(s)
  \/ WaitPwd(s) \/ PasswordAck(s)
  \/ SendFilePacket(s) \/ NothingToSend(s) \/ SendFileData(s)
  \/ GetChunk(s) \/ BadChunk(s) \/ DanglingChunk(s) \/ AfterChunk(s)
  \/ SendEob(s) \/ TransferFilesReturns(s)
  \/ WaitEob(s) \/ Unknown(s) \/ Done(s) \/ LoopEnd(s)
  \/ rename_pending_files(s) \/ process_network_files(s) \/ UpdateContact(s)

\* What the networkb process of side s does by itself.
Step(s) == Handler(s) \/ ReceiveFrame(s) \/ SocketClosed(s)

Environment ==
  \/ Call \/ Reset
  \/ \E s \in Sides : Crash(s) \/ ResetArrives(s) \/ network1_appends(s) \/ network1_tosses(s)

Next == Environment \/ \E s \in Sides : Step(s)

Spec == Init /\ [][Next]_vars

\* A networkb process that can take a step takes one: its reads time out.
FairSpec == Spec /\ \A s \in Sides : WF_vars(Step(s))

-----------------------------------------------------------------------------
(* Properties.                                                             *)

PcLabels == {"idle", "handler", "chunk", "rename", "network", "contact"} \cup WindowPcs
BinkState ==
  {"CONN_INIT", "WAIT_CONN", "SEND_PASSWORD", "WAIT_ADDR", "AUTH_REMOTE", "IF_SECURE",
   "WAIT_OK", "WAIT_PWD", "PASSWORD_ACK", "TRANSFER_FILES", "WAIT_EOB", "UNKNOWN", "DONE"}
AuthType == {"PLAIN_TEXT", "CRAM_MD5"}
Challenges == {"", Challenge}
Secrets == {""} \cup UNION {{c.Password[s] : s \in Sides} : c \in Scenarios}
Passwords == [challenge : Challenges, secret : Secrets]
MailFile == Seq(Nat)
Frame ==
  [cmd : {"M_ADR", "M_OK", "M_EOB", "M_ERR"}] \cup [cmd : {"M_NUL"}, challenge : {Challenge}]
  \cup [cmd : {"M_PWD"}, auth_type : AuthType, password : Passwords]
  \cup [cmd : {"M_FILE"}, size : Nat] \cup [cmd : {"DATA"}, data : MailFile]
  \cup [cmd : {"M_GOT"}, len : Nat]
Members ==
  [open : BOOLEAN, done : BOOLEAN, address_list : BOOLEAN, challenge : Challenges,
   auth_type : AuthType, remote_password : Passwords, ok_received : BOOLEAN,
   eob_received : BOOLEAN, error_received : BOOLEAN, to_send : BOOLEAN,
   file_length : Nat, start : Nat, received : BOOLEAN,
   current_receive_file : [size : Nat, len : Nat, open : BOOLEAN, on : BOOLEAN]]

\* The values the members of the two BinkP objects, the connection and the
\* files range over.
TypeOK ==
  /\ pc \in [Sides -> PcLabels]
  /\ state \in [Sides -> BinkState]
  /\ sess \in [Sides -> Members]
  /\ chan \in [Sides -> Seq(Frame)]
  /\ rst \in [Sides -> BOOLEAN]
  /\ out \in [Sides -> MailFile]
  /\ inb \in [Sides -> MailFile]
  /\ pend \in [Sides -> Seq(MailFile)]
  /\ delivered \in [Sides -> SUBSET Nat]
  /\ contact \in [Sides -> [numcontacts : Nat, numfails : Nat]]
  /\ posted \in [Sides -> Nat]
  /\ late \in [Sides -> SUBSET Nat]
  /\ offers \in [Sides -> SUBSET MailFile]
  /\ budget \in [sessions : Nat, crashes : Nat, resets : Nat]
  /\ conf \in Scenarios

Held(s) == Range(inb[s]) \cup Packets(pend[s]) \cup delivered[s]

\* On POSIX rename_pend replaces a pending file that network1 has not taken
\* in: with --skip_net, or when networkb has crashed before running it.
MayReplace == conf.Posix /\ (conf.SkipNet \/ conf.MaxCrashes > 0)

\* Mail is never lost between two systems: a packet is in the sender's
\* outbound file until the receiver has it on disk.  M_GOT is only sent for
\* a whole file and only M_GOT deletes one.  The exceptions are MayReplace,
\* what network1 appends between the offer (M_FILE) and its M_GOT, which the
\* deletion of the file takes with it (HandleFileGotRequest ignores the length
\* it reads), and a file that cannot be read, of which SendFileData sends what
\* its buffer holds (BadChunkAborts).
NoLoss ==
  ~MayReplace /\ ~conf.GetChunkFails =>
    \A s \in Sides : 1 .. posted[s] \subseteq Range(out[s]) \cup Held(Peer(s)) \cup late[s]

\* network1 is never handed a file that was cut short: every pending file
\* starts with all of what the sender offered in one M_FILE, however often
\* sessions break and partial files stay behind, as long as the sender can
\* read its file (BadChunkAborts).
PendingIsWhole ==
  ~conf.GetChunkFails => \A s \in Sides : \A i \in DOMAIN pend[s] :
    \E o \in offers[Peer(s)] : IsPrefix(o, pend[s][i])

\* M_EOB is the last word: when it is received no file is half received.
EobAfterFiles ==
  \A s \in Sides : sess[s].eob_received => ~sess[s].current_receive_file.on

\* Mail only goes to a system that has proved itself.  No file is offered,
\* in either direction, when the passwords differ or the answering side does
\* not know the caller, whichever way the password travelled and whichever
\* wait timed out; and the caller offers nothing to a system that is not the
\* one it meant to call.
NoFilesToStrangers ==
  /\ conf.Password["ORIGINATING"] # conf.Password["ANSWERING"] \/ ~conf.AddressOk["ANSWERING"] =>
       \A s \in Sides : offers[s] = {}
  /\ ~conf.AddressOk["ORIGINATING"] => offers["ORIGINATING"] = {}

\* A pending file on disk is only removed by network1: rename_pend does not
\* replace a file that an earlier session left, but for MayReplace.
PendingKept ==
  [][~MayReplace =>
       \A s \in Sides : Packets(pend[s]) \subseteq Packets(pend'[s]) \cup delivered'[s]]_vars

\* Every session ends, whatever the other side does: no wait is for ever.
SessionEnds == \A s \in Sides : pc[s] # "idle" ~> pc[s] = "idle"

\* The link is faster than the timeouts, nothing crashes or breaks, each side
\* knows the other and its password and has a record of it, the files can be
\* read and deleted and do not change during a session, and network1 is run and
\* has a name to find them under.
Undisturbed ==
  /\ conf.Prompt /\ conf.MaxCrashes = 0 /\ conf.MaxResets = 0
  /\ conf.Password["ORIGINATING"] = conf.Password["ANSWERING"]
  /\ \A s \in Sides : conf.AddressOk[s] /\ conf.HasContact[s]
  /\ ~conf.GetChunkFails /\ ~conf.DeleteFails /\ ~conf.MayAppend
  /\ ~conf.SkipNet /\ (conf.Posix \/ conf.PendSlots > 0)

\* Undisturbed, one session moves all the mail, in both directions, and every
\* session counts as a contact without failure on both sides: no timeout is
\* reached but those that wait for nothing, and no side hangs up on the other.
PromptDelivers ==
  Undisturbed /\ budget.sessions < conf.MaxSessions /\ (\A s \in Sides : pc[s] = "idle") =>
    \A s \in Sides :
      /\ out[s] = <<>> /\ delivered[Peer(s)] = 1 .. posted[s]
      /\ contact[s] = [numcontacts |-> conf.MaxSessions - budget.sessions, numfails |-> 0]

-----------------------------------------------------------------------------
(* What comments in the code say that the code does not do.                *)

\* "Bad chunk. Abort" (binkp.cpp:655): a chunk that could not be read does
\* not end up on the other system as mail.
BadChunkAborts == \A s \in Sides : Garbage \notin Held(s)

\* "numfails tells how many times this system has tried to call this other
\* system but failed.  This is consecutive times, and is zeroed out when a
\* successful connection is made by calling out." (sdk/net.h:124-126)
NumFailsAsDocumented ==
  [][UpdateContact("ORIGINATING") =>
       contact'["ORIGINATING"].numfails =
         IF sess["ORIGINATING"].ok_received THEN 0
                                            ELSE contact["ORIGINATING"].numfails + 1]_vars
=============================================================================
