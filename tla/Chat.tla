-------------------------------- MODULE Chat --------------------------------
(***************************************************************************)
(* The instances of the BBS as their users see them: logging on and off,   *)
(* the chat room (bbs/chat.cpp) and the sysop's shutdown of another        *)
(* instance (instance_edit), over the messages of InstMsg.                 *)
(*                                                                         *)
(* Who is in a channel is what INSTANCE.DAT says, and a channel is secured *)
(* by a file CHANNEL.n; both are looked at, and acted upon, in steps.      *)
(***************************************************************************)
EXTENDS InstMsg, FiniteSets

CONSTANTS
  CH1,             \* the channel one enters first; it cannot be secured
  Sysops,          \* so() or a chatop: they enter secured channels too
  Invisible,       \* the sysops who are (chat_invis)
  MaxCommands,     \* bound: commands of all the users together
  MaxFaults        \* bound: crashes and lost carriers

ASSUME CH1Assumption == CH1 \in Channels
ASSUME SysopsAssumption == Sysops \subseteq Instances /\ Invisible \subseteq Sysops
ASSUME BoundAssumption == MaxCommands \in Nat /\ MaxFaults \in Nat

VARIABLES
  pc,              \* where i is: down, wfc, menu, room, or between two of them
  lock,            \* the channels secured: the files CHANNEL.n
  clean,           \* cleanup_chat: the channels i still has to look at
  found,           \* a channel found empty and not unlocked yet; CH1 if none
  then,            \* where i goes when it has cleaned up
  target,          \* the channel i is changing to
  commands, faults,    \* how many there were: bounded
  insiders         \* ghost: who was in a channel, or past the check and on
                   \* the way to it, when it was secured, and has not left

chatvars == <<clean, found, then, target>>
vars == <<imvars, pc, chatvars, lock, commands, faults, insiders>>

\* Everybody is waiting for a call, or everybody is in the chat room and all
\* messages have been read.
Init ==
  /\ \/ InstMsgInit("wfc") /\ pc = [i \in Instances |-> "wfc"]
     \/ InstMsgInit(CH1) /\ pc = [i \in Instances |-> "room"]
  /\ lock = {}
  /\ clean = [i \in Instances |-> {}]
  /\ found = [i \in Instances |-> CH1]
  /\ then = [i \in Instances |-> "menu"]
  /\ target = [i \in Instances |-> CH1]
  /\ commands = 0 /\ faults = 0
  /\ insiders = [c \in Channels |-> {}]

Goes(i, where) == pc' = [pc EXCEPT ![i] = where]
Moves(i, where) ==
  /\ WriteInst(i, where)
  /\ insiders' = [c \in Channels |-> IF where = c THEN insiders[c] ELSE insiders[c] \ {i}]
At(i, where) == pc[i] = where /\ Free(i)
Command == commands < MaxCommands /\ commands' = commands + 1
transport == <<platform, tmsg, msg, reading, file, at, due, last, redo>>

-----------------------------------------------------------------------------
(* Logging on and off *)

\* INSTANCE.DAT says main, and the others are told.
LogOn(i) ==
  /\ At(i, "wfc") /\ Command
  /\ Moves(i, "main") /\ Goes(i, "greet")
  /\ iia' = [iia EXCEPT ![i] = TRUE]
  /\ UNCHANGED <<transport, round, hangup, no, chatvars, lock, faults>>

Greet(i) ==
  /\ At(i, "greet")
  /\ Begins(i, Available, "STRING") /\ Goes(i, "menu")
  /\ UNCHANGED <<transport, loc, iia, hangup, chatvars, lock, commands, faults, insiders>>

\* The carrier is lost, or the user says goodbye: hangup is set either way.
Hangup(i) ==
  /\ pc[i] \notin {"down", "wfc", "bye", "off"} /\ ~hangup[i]
  /\ faults < MaxFaults /\ faults' = faults + 1
  /\ hangup' = [hangup EXCEPT ![i] = TRUE]
  /\ UNCHANGED <<transport, loc, round, iia, no, owed, pc, chatvars, lock, commands, insiders>>

LogOff(i) ==
  /\ At(i, "menu") /\ hangup[i]
  /\ Begins(i, Available, "STRING") /\ Goes(i, "off")
  /\ UNCHANGED <<transport, loc, iia, hangup, chatvars, lock, commands, faults, insiders>>

LoggedOff(i) ==
  /\ At(i, "off")
  /\ Moves(i, "wfc") /\ Goes(i, "wfc")
  /\ iia' = [iia EXCEPT ![i] = TRUE]
  /\ hangup' = [hangup EXCEPT ![i] = FALSE]
  /\ UNCHANGED <<transport, round, no, chatvars, lock, commands, faults>>

-----------------------------------------------------------------------------
(* The chat room *)

Rooms == Channels \ {CH1}

\* The menu's command; chat_room cleans up first.
EnterChat(i) ==
  /\ At(i, "menu") /\ ~hangup[i] /\ Command
  /\ Moves(i, "chatroom") /\ Goes(i, "clean")
  /\ clean' = [clean EXCEPT ![i] = Rooms]
  /\ then' = [then EXCEPT ![i] = "first"]
  /\ UNCHANGED <<transport, round, iia, hangup, no, found, target, lock, faults>>

\* who_online: not the one who asks, nor who is invisible to him.
WhoOnline(i, c) == {d \in Instances \ {i} : loc[d] = c /\ (d \notin Invisible \/ i \in Sysops)}

\* cleanup_chat: is the channel secured, and nobody in it?
CleanLook(i) ==
  /\ At(i, "clean") /\ found[i] = CH1
  /\ \E c \in clean[i] :
       /\ clean' = [clean EXCEPT ![i] = @ \ {c}]
       /\ found' = [found EXCEPT ![i] =
                      IF c \in lock /\ WhoOnline(i, c) = {} THEN c ELSE CH1]
  /\ UNCHANGED <<imvars, pc, then, target, lock, commands, faults, insiders>>

\* Then it is not any more.
CleanRemove(i) ==
  /\ At(i, "clean") /\ found[i] # CH1
  /\ lock' = lock \ {found[i]}
  /\ found' = [found EXCEPT ![i] = CH1]
  /\ UNCHANGED <<imvars, pc, clean, then, target, commands, faults, insiders>>

CleanDone(i) ==
  /\ At(i, "clean") /\ found[i] = CH1 /\ clean[i] = {}
  /\ Goes(i, then[i])
  /\ then' = [then EXCEPT ![i] = "menu"]
  /\ UNCHANGED <<imvars, clean, found, target, lock, commands, faults, insiders>>

\* moving: those in the channel are told, but not about somebody invisible.
Moving(i) ==
  IF i \in Invisible THEN UNCHANGED <<round, no, owed>> ELSE Begins(i, {loc[i]}, "STRING")

\* i enters channel c ...
Enter(i) ==
  /\ At(i, "first") \/ At(i, "enter")
  /\ Moves(i, IF pc[i] = "first" THEN CH1 ELSE target[i]) /\ Goes(i, "entered")
  /\ target' = [target EXCEPT ![i] = CH1]
  /\ UNCHANGED <<transport, round, iia, hangup, no, clean, found, then, lock,
                 commands, faults>>

\* ... and says so.
Entered(i) ==
  /\ At(i, "entered")
  /\ Moving(i) /\ Goes(i, "room")
  /\ UNCHANGED <<transport, loc, iia, hangup, chatvars, lock, commands, faults, insiders>>

\* A line, an action, or one directed to somebody: everybody in the channel
\* gets it.
Say(i) ==
  /\ At(i, "room") /\ ~hangup[i] /\ Command
  /\ Begins(i, {loc[i]}, "STRING")
  /\ UNCHANGED <<transport, loc, iia, hangup, pc, chatvars, lock, faults, insiders>>

\* A whisper goes to one instance, wherever it is.
Whisper(i, d) ==
  /\ At(i, "room") /\ ~hangup[i] /\ Command
  /\ d # i /\ loc[d] \notin {"down", "wfc"} /\ (d \notin Invisible \/ i \in Sysops)
  /\ BeginsTo(i, Locations, "STRING", d, d)
  /\ UNCHANGED <<transport, loc, iia, hangup, pc, chatvars, lock, faults, insiders>>

OnTheWay(c) == {j \in Instances : target[j] = c /\ pc[j] \in {"leaving", "enter"}}

\* /s and /u
Secure(i) ==
  /\ At(i, "room") /\ ~hangup[i] /\ Command
  /\ loc[i] # CH1 /\ loc[i] \notin lock
  /\ lock' = lock \cup {loc[i]}
  /\ insiders' = [insiders EXCEPT ![loc[i]] =
                    {j \in Instances : loc[j] = loc[i]} \cup OnTheWay(loc[i])]
  /\ Begins(i, {loc[i]}, "STRING")
  /\ UNCHANGED <<transport, loc, iia, hangup, pc, chatvars, faults>>

Unsecure(i) ==
  /\ At(i, "room") /\ ~hangup[i] /\ Command
  /\ loc[i] \in lock /\ lock' = lock \ {loc[i]}
  /\ Begins(i, {loc[i]}, "STRING")
  /\ UNCHANGED <<transport, loc, iia, hangup, pc, chatvars, faults, insiders>>

\* /c: change_channels cleans up, and asks where to.
ChangeChannels(i) ==
  /\ At(i, "room") /\ ~hangup[i] /\ Command
  /\ Goes(i, "clean")
  /\ clean' = [clean EXCEPT ![i] = Rooms]
  /\ then' = [then EXCEPT ![i] = "choose"]
  /\ UNCHANGED <<imvars, found, target, lock, faults, insiders>>

\* mutant: a secured channel is for everybody.
MayEnterAny(i, c) == c \in Channels

MayEnter(i, c) == c \notin lock \/ i \in Sysops

\* An open channel, or a secured one for a sysop: it is left and entered.
Choose(i, c) ==
  /\ At(i, "choose") /\ ~hangup[i] /\ MayEnter(i, c)
  /\ target' = [target EXCEPT ![i] = c]
  /\ Goes(i, "leaving")
  /\ UNCHANGED <<imvars, clean, found, then, lock, commands, faults, insiders>>

\* Q, or a secured channel; or no user any more, and he was no chatop.
ChooseNot(i) ==
  /\ At(i, "choose") /\ (hangup[i] => i \notin Sysops)
  /\ Goes(i, "room")
  /\ UNCHANGED <<imvars, chatvars, lock, commands, faults, insiders>>

\* When the carrier is lost at the question the number is 0, and nothing keeps
\* a chatop from entering channel 0.
ChooseZero(i) ==
  /\ At(i, "choose") /\ hangup[i] /\ i \in Sysops
  /\ target' = [target EXCEPT ![i] = "channel0"]
  /\ Goes(i, "leaving")
  /\ UNCHANGED <<imvars, clean, found, then, lock, commands, faults, insiders>>

Leaving(i) ==
  /\ At(i, "leaving")
  /\ Moving(i) /\ Goes(i, "enter")
  /\ UNCHANGED <<transport, loc, iia, hangup, chatvars, lock, commands, faults, insiders>>

\* x, or the carrier is lost; INSTANCE.DAT still has i in the channel.
Exit(i) ==
  /\ At(i, "room")
  /\ IF hangup[i] THEN UNCHANGED commands ELSE Command
  /\ Moving(i) /\ Goes(i, "exited")
  /\ UNCHANGED <<transport, loc, iia, hangup, chatvars, lock, faults, insiders>>

\* The menu writes where the user is now.
BackToMenu(i) ==
  /\ At(i, "exited")
  /\ Moves(i, "main") /\ Goes(i, "menu")
  /\ UNCHANGED <<transport, round, iia, hangup, no, chatvars, lock, commands, faults>>

-----------------------------------------------------------------------------
(* Shutting down, crashing and starting *)

Up == Locations \ {"down"}

\* instance_edit: another instance is shut down, or this one, or all of them.
ShutDownOne(i, d) ==
  /\ i \in Sysops /\ At(i, "menu") /\ ~hangup[i] /\ Command
  /\ d # i /\ loc[d] # "down"
  /\ BeginsTo(i, Locations, "SHUTDOWN", d, d)
  /\ UNCHANGED <<transport, loc, iia, hangup, pc, chatvars, lock, faults, insiders>>

ShutDownSelf(i) ==
  /\ i \in Sysops /\ At(i, "menu") /\ ~hangup[i] /\ Command
  /\ Goes(i, "quit")
  /\ UNCHANGED <<imvars, chatvars, lock, faults, insiders>>

ShutDownAll(i) ==
  /\ i \in Sysops /\ At(i, "menu") /\ ~hangup[i] /\ Command
  /\ Begins(i, Up, "SHUTDOWN") /\ Goes(i, "quit")
  /\ UNCHANGED <<transport, loc, iia, hangup, chatvars, lock, faults, insiders>>

Down(i) ==
  /\ Goes(i, "down")
  /\ clean' = [clean EXCEPT ![i] = {}]
  /\ found' = [found EXCEPT ![i] = CH1]
  /\ target' = [target EXCEPT ![i] = CH1]
  /\ then' = [then EXCEPT ![i] = "menu"]
  /\ UNCHANGED <<lock, commands>>

QuitBBS(i) ==
  /\ At(i, "quit") /\ Down(i)
  /\ Ends(i) /\ Moves(i, "down")
  /\ UNCHANGED <<platform, tmsg, msg, iia, no, due, last, redo, faults>>

ShutDown(i) ==
  /\ HandleShutdown(i) /\ Down(i)
  /\ insiders' = [c \in Channels |-> insiders[c] \ {i}]
  /\ UNCHANGED faults

Crash(i) ==
  /\ pc[i] # "down" /\ faults < MaxFaults /\ faults' = faults + 1
  /\ Dies(i) /\ Down(i)
  /\ UNCHANGED insiders

Start(i) ==
  /\ pc[i] = "down" /\ Command
  /\ Moves(i, "wfc") /\ Goes(i, "wfc")
  /\ iia' = [iia EXCEPT ![i] = TRUE]
  /\ UNCHANGED <<transport, round, hangup, no, chatvars, lock, faults>>

-----------------------------------------------------------------------------
\* Lines are written, and messages looked for, while i waits for a call or
\* for its user, and while it shows a message.
Polls(i) ==
  /\ pc[i] \in {"wfc", "menu", "room", "choose"}
  /\ Poll(i)
  /\ UNCHANGED <<pc, chatvars, lock, commands, faults, insiders>>

Serves(i) == Service(i) /\ UNCHANGED <<pc, chatvars, lock, commands, faults, insiders>>

\* What i does without its user.
Process(i) ==
  \/ Serves(i) \/ Polls(i) \/ ShutDown(i)
  \/ Greet(i) \/ LogOff(i) \/ LoggedOff(i)
  \/ CleanLook(i) \/ CleanRemove(i) \/ CleanDone(i)
  \/ Enter(i) \/ Entered(i) \/ Leaving(i) \/ BackToMenu(i) \/ QuitBBS(i)
  \/ hangup[i] /\ (Exit(i) \/ ChooseNot(i) \/ ChooseZero(i))

User(i) ==
  \/ LogOn(i) \/ EnterChat(i) \/ Say(i) \/ Secure(i) \/ Unsecure(i)
  \/ ChangeChannels(i) \/ Exit(i) \/ ChooseNot(i) \/ ShutDownAll(i)
  \/ ShutDownSelf(i) \/ Start(i)
  \/ \E c \in Channels : Choose(i, c)
  \/ \E d \in Instances : Whisper(i, d) \/ ShutDownOne(i, d)

Next == \E i \in Instances : Process(i) \/ User(i) \/ Hangup(i) \/ Crash(i)

Spec == Init /\ [][Next]_vars

\* An instance that is up runs; nobody has to type anything.
FairSpec == Spec /\ \A i \in Instances : WF_vars(Process(i))

-----------------------------------------------------------------------------
(* Properties *)

Places == {"down", "wfc", "greet", "menu", "off", "clean", "first", "entered", "room",
           "choose", "leaving", "enter", "exited", "quit"}

\* Types, and: an instance is never in two messages' worth of output at once
\* (setiia(0) keeps process_inst_msgs from being called by its own output).
TypeOK ==
  /\ InstMsgTypeOK
  /\ pc \in [Instances -> Places]
  /\ lock \subseteq Rooms
  /\ \A i \in Instances :
       /\ clean[i] \subseteq Rooms
       /\ found[i] \in Channels /\ target[i] \in Channels \cup {"channel0"}
       /\ reading[i] => pc[i] # "down" /\ ~iia[i] /\ round[i] = NoRound

\* On Windows a message is never lost: it is in one of the two files, it was
\* handled, or it was behind a shutdown in the same file.  (On POSIX the
\* rename replaces a file nobody has read.)
NothingLost ==
  \A x \in due : x.m \in Range(msg[x.to]) \cup Range(tmsg[x.m.from][x.to])

\* What one instance sends another is handled in the order it was sent, and
\* nothing twice, unless the addressee died with a file half handled (and as
\* long as the file that has been read can be deleted).
InOrder ==
  [][\A d \in Instances : (at'[d] = at[d] + 1 /\ ~redo[d])
       => LET m == file[d][at[d]] IN m.no > last[d][m.from]]_vars

\* out_msg and broadcast reach everybody who was where they go when they
\* began, and still is when they are through, as long as TMSG and INSTANCE.DAT
\* can be opened.
EveryoneTold == \A i \in Instances : round[i] = NoRound => owed[i] = {}

\* In a secured channel are sysops, those who were there when it was secured,
\* and those who had been let in by then and were on the way.
SecuredKeepsOut ==
  \A c \in lock : \A i \in Instances \ Sysops : loc[i] = c => i \in insiders[c]

\* A file of messages is taken by an instance that stays up: what has come
\* is read and deleted.
FileIsTaken ==
  \A d \in Instances : msg[d] # NoFile ~> (msg[d] = NoFile \/ pc[d] = "down")

\* Wherever its user is when the carrier is lost, the instance gets back to
\* waiting for a call.
HangupEnds ==
  \A i \in Instances : hangup[i] ~> (pc[i] \in {"wfc", "down"})
=============================================================================
