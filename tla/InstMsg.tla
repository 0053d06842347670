------------------------------- MODULE InstMsg -------------------------------
(***************************************************************************)
(* Messages between the instances of the BBS (bbs/instmsg.cpp) and what    *)
(* INSTANCE.DAT says about them.  Instance s appends a message for d to    *)
(* its file TMSGsss.ddd and renames that to MSG00000.ddd; d looks for      *)
(* MSG*.ddd between two lines of output, handles what is in the file and   *)
(* deletes it.                                                             *)
(*                                                                         *)
(* send_inst_msg has a loop over a thousand names, but leaves it after the *)
(* first: a rename that fails ends it, and so does one that succeeds.  On  *)
(* Windows rename fails while an unread MSG00000.ddd is there, and the     *)
(* message stays in TMSGsss.ddd until s has the next one for d; on POSIX   *)
(* it replaces the unread file.                                            *)
(*                                                                         *)
(* The actions here leave everything else an instance does unchanged; Chat *)
(* puts them together with the commands that send messages.                *)
(***************************************************************************)
EXTENDS Integers, Sequences, FiniteSetsExt, SequencesExt

CONSTANTS
  NumInstances,    \* num_instances()
  Channels         \* the channels of the chat room

ASSUME NumInstancesAssumption == NumInstances \in Nat \ {0}
ASSUME ChannelsAssumption ==
  Channels \cap {"down", "wfc", "main", "chatroom", "channel0"} = {}

Instances == 1..NumInstances
Locations == {"down", "wfc", "main", "chatroom", "channel0"} \cup Channels
Available == {"main", "chatroom"} \cup Channels      \* inst_available

VARIABLES
  platform,    \* whose rename it is: windows, posix
  loc,         \* INSTANCE.DAT: where each instance says it is
  tmsg,        \* tmsg[s][d]: the contents of TMSGsss.ddd; <<>> if none
  msg,         \* msg[d]: the contents of MSG00000.ddd; <<>> if none
  round,       \* the loop over the instances that i is in, if it is
  reading,     \* i is in process_inst_msgs
  file, at,    \* the file process_inst_msgs has open, and the next message
  iia,         \* i looks for messages (setiia)
  hangup,      \* the carrier is gone
  no,          \* rounds of i so far (ghost; with i it identifies a message)
  due,         \* ghost: on Windows, messages sent and not handled yet
  last,        \* ghost: last[d][s]: the last message of s that d has handled
  redo,        \* ghost: i died with a file half handled
  owed         \* ghost: who has been where i's round goes since it began, and
               \* has not been sent the message yet

imfiles == <<loc, tmsg, msg>>
imghosts == <<no, due, last, redo, owed>>
imvars == <<platform, imfiles, round, reading, file, at, iia, hangup, imghosts>>

NoFile == <<>>
\* A round goes over the rest of the instances in turn and sends to those that
\* are where it is for; busy: a message is in TMSG and not renamed yet.
Round(for, kind, rest, busy) == [for |-> for, kind |-> kind, rest |-> rest, busy |-> busy]
NoRound == Round({}, "none", {}, FALSE)
RoundOver(for, kind, rest) ==
  IF rest = {} THEN NoRound ELSE Round(for, kind, rest, FALSE)
Message(from, n, kind) == [from |-> from, no |-> n, kind |-> kind]
Due(d, m) == [to |-> d, m |-> m]
Kinds == {"STRING", "SHUTDOWN"}

Free(i) == round[i] = NoRound /\ ~reading[i]

InstMsgInit(where) ==
  /\ platform \in {"windows", "posix"}
  /\ loc = [i \in Instances |-> where]
  /\ tmsg = [s \in Instances |-> [d \in Instances |-> NoFile]]
  /\ msg = [d \in Instances |-> NoFile]
  /\ round = [i \in Instances |-> NoRound]
  /\ reading = [i \in Instances |-> FALSE]
  /\ file = [i \in Instances |-> NoFile]
  /\ at = [i \in Instances |-> 1]
  /\ iia = [i \in Instances |-> TRUE]
  /\ hangup = [i \in Instances |-> FALSE]
  /\ no = [i \in Instances |-> 0]
  /\ due = {}
  /\ last = [d \in Instances |-> [s \in Instances |-> 0]]
  /\ redo = [i \in Instances |-> FALSE]
  /\ owed = [i \in Instances |-> {}]

\* write_inst: whoever counts on i being where it was is told (ghost).
WriteInst(i, where) ==
  /\ loc' = [loc EXCEPT ![i] = where]
  /\ owed' = [j \in Instances |-> IF where = loc[i] THEN owed[j] ELSE owed[j] \ {i}]

\* mutant: the last instance is left out.
OthersBut(i, from, to) == (from..to - 1) \ {i}

Others(i, from, to) == (from..to) \ {i}

\* i begins to send to those of the other instances that are in one
\* of the places.
BeginsTo(i, places, kind, from, to) ==
  /\ round' = [round EXCEPT ![i] = RoundOver(places, kind, Others(i, from, to))]
  /\ no' = [no EXCEPT ![i] = @ + 1]
  /\ owed' = [owed EXCEPT ![i] = {d \in (from..to) \ {i} : loc[d] \in places}]
Begins(i, places, kind) == BeginsTo(i, places, kind, 1, NumInstances)

-----------------------------------------------------------------------------
(* Sending *)

\* The instance i comes to next in its loop.
Addressee(i) == Min(round[i].rest)
Sending(i) == ~round[i].busy /\ round[i].rest # {}

\* mutant: the loop does not come to the next instance.
PassedNot(i) == round

\* The loop goes on after the addressee.
Passed(i) ==
  [round EXCEPT ![i] = RoundOver(@.for, @.kind, @.rest \ {Addressee(i)})]

Appended(q, m) == Append(q, m)

\* get_inst_info, and the message is appended when the addressee is where it
\* should be.  INSTANCE.DAT and TMSG can be opened: the code passes over an
\* addressee in silence when one of them cannot.
SendTo(i) ==
  LET d == Addressee(i)
      m == Message(i, no[i], round[i].kind)
  IN  /\ Sending(i) /\ loc[d] \in round[i].for
      /\ tmsg' = [tmsg EXCEPT ![i][d] = Appended(@, m)]
      /\ due' = IF platform = "windows" THEN due \cup {Due(d, m)} ELSE due
      /\ owed' = [owed EXCEPT ![i] = @ \ {d}]
      /\ round' = [round EXCEPT ![i].busy = TRUE]
      /\ UNCHANGED <<platform, loc, msg, reading, file, at, iia, hangup, no, last,
                     redo>>

Skip(i) ==
  /\ Sending(i) /\ loc[Addressee(i)] \notin round[i].for
  /\ round' = Passed(i)
  /\ UNCHANGED <<platform, imfiles, reading, file, at, iia, hangup, imghosts>>

\* mutant: the name is taken whatever is there.
RenamesAlways(d) == d \in Instances

Renames(d) == msg[d] = NoFile \/ platform = "posix"

\* File::Rename.
RenameTmsg(i) ==
  LET d == Addressee(i)
  IN  /\ round[i].busy
      /\ IF Renames(d)
         THEN /\ msg' = [msg EXCEPT ![d] = tmsg[i][d]]
              /\ tmsg' = [tmsg EXCEPT ![i][d] = NoFile]
         ELSE UNCHANGED <<msg, tmsg>>
      /\ round' = Passed(i)
      /\ UNCHANGED <<platform, loc, reading, file, at, iia, hangup, imghosts>>

-----------------------------------------------------------------------------
(* process_inst_msgs *)

\* mutant: inst_msg_waiting does not look at iia, so that the output of a
\* message looks for messages again.
MayPollAlways(i) == msg[i] # NoFile

\* inst_msg_waiting
MayPoll(i) == iia[i] /\ msg[i] # NoFile

\* mutant: process_inst_msgs does not stop its own output from looking.
QuietNot(i) == iia' = iia

Quiet(i) == iia' = [iia EXCEPT ![i] = FALSE]

\* Called by nl, giveup_timeslice and the chat room's loop; the first two are
\* called for every line that is written, by process_inst_msgs too.  The file
\* is opened, unless nobody is there any more.
Poll(i) ==
  /\ round[i] = NoRound /\ MayPoll(i) /\ ~hangup[i]
  /\ Quiet(i)
  /\ file' = [file EXCEPT ![i] = msg[i]]
  /\ at' = [at EXCEPT ![i] = 1]
  /\ reading' = [reading EXCEPT ![i] = TRUE]
  /\ UNCHANGED <<platform, imfiles, round, hangup, imghosts>>

Handles(i) == reading[i] /\ at[i] <= Len(file[i])
Hears(i) ==
  LET m == file[i][at[i]] IN last' = [last EXCEPT ![i][m.from] = m.no]

\* handle_inst_msg; a string is shown only if somebody is there to see it.
HandleString(i) ==
  /\ Handles(i) /\ file[i][at[i]].kind = "STRING"
  /\ Hears(i)
  /\ due' = due \ {Due(i, file[i][at[i]])}
  /\ at' = [at EXCEPT ![i] = @ + 1]
  /\ UNCHANGED <<platform, imfiles, round, reading, file, iia, hangup, no, redo, owed>>

Closes(i) ==
  /\ reading' = [reading EXCEPT ![i] = FALSE]
  /\ file' = [file EXCEPT ![i] = NoFile]
  /\ at' = [at EXCEPT ![i] = 1]

\* The process of i ends; what it had open is closed.
Ends(i) ==
  /\ Closes(i)
  /\ round' = [round EXCEPT ![i] = NoRound]
  /\ hangup' = [hangup EXCEPT ![i] = FALSE]

\* A shutdown: the file is deleted with what comes after, and QuitBBS.
HandleShutdown(i) ==
  /\ Handles(i) /\ file[i][at[i]].kind = "SHUTDOWN"
  /\ Hears(i)
  /\ due' = due \ {Due(i, file[i][k]) : k \in at[i]..Len(file[i])}
  /\ msg' = [msg EXCEPT ![i] = NoFile]
  /\ Ends(i) /\ WriteInst(i, "down")
  /\ UNCHANGED <<platform, tmsg, iia, no, redo>>

\* mutant: process_inst_msgs returns without a setiia.
ListenNot(i) == iia' = iia

Listen(i) == iia' = [iia EXCEPT ![i] = TRUE]

\* The file is closed and deleted by its name.  (FindNextFile may find one
\* that has come since, which is what the next Poll does.)  The deletion
\* succeeds: the code does not look, and would handle the file once more.
DeleteFile(i) ==
  /\ reading[i] /\ at[i] > Len(file[i])
  /\ msg' = [msg EXCEPT ![i] = NoFile]
  /\ Closes(i) /\ Listen(i)
  /\ UNCHANGED <<platform, loc, tmsg, round, hangup, imghosts>>

-----------------------------------------------------------------------------
\* Somebody pulls the plug of i.
Dies(i) ==
  /\ Ends(i)
  /\ redo' = [redo EXCEPT ![i] = @ \/ (reading[i] /\ at[i] > 1)]
  /\ owed' = [owed EXCEPT ![i] = {}]
  /\ UNCHANGED <<platform, imfiles, iia, no, due, last>>

\* What i does by itself.
Service(i) ==
  SendTo(i) \/ Skip(i) \/ RenameTmsg(i) \/ HandleString(i) \/ DeleteFile(i)

InstMsgTypeOK ==
  LET Messages == [from : Instances, no : Nat \ {0}, kind : Kinds]
  IN  /\ platform \in {"windows", "posix"}
      /\ loc \in [Instances -> Locations]
      /\ \A s \in Instances : tmsg[s] \in [Instances -> Seq(Messages)]
      /\ {msg, file} \subseteq [Instances -> Seq(Messages)]
      /\ \A i \in Instances :
           /\ round[i].for \subseteq Locations
           /\ round[i].rest \subseteq Instances \ {i}
           /\ round[i].rest = {} <=> round[i] = NoRound
           /\ at[i] \in 1..Len(file[i]) + 1
           /\ owed[i] \subseteq Instances \ {i}
      /\ {reading, iia, hangup, redo} \subseteq [Instances -> BOOLEAN]
=============================================================================
