---------------------------- MODULE Chat_proofs ----------------------------
(***************************************************************************)
(* Proofs about Chat (and the part of InstMsg in it), for any number of    *)
(* instances, channels, sysops, commands and faults.                       *)
(***************************************************************************)
EXTENDS Chat, SequenceTheorems, WellFoundedInduction, TLAPS

Msgs == [from : Instances, no : Nat \ {0}, kind : Kinds]
Rounds == [for : SUBSET Locations, kind : Kinds \cup {"none"},
           rest : SUBSET Instances, busy : BOOLEAN]

\* The files, and how far each instance has read its own.
FilesOK ==
  /\ platform \in {"windows", "posix"}
  /\ loc \in [Instances -> Locations]
  /\ tmsg \in [Instances -> [Instances -> Seq(Msgs)]]
  /\ msg \in [Instances -> Seq(Msgs)]
  /\ file \in [Instances -> Seq(Msgs)]
  /\ at \in [Instances -> Nat]
  /\ \A i \in Instances : at[i] \in 1..Len(file[i]) + 1
FlagsOK ==
  /\ reading \in [Instances -> BOOLEAN] /\ iia \in [Instances -> BOOLEAN]
  /\ hangup \in [Instances -> BOOLEAN] /\ redo \in [Instances -> BOOLEAN]

\* A round has a kind and a number as long as it has somebody to go to.
RoundsOK ==
  /\ round \in [Instances -> Rounds]
  /\ no \in [Instances -> Nat]
  /\ \A i \in Instances :
       /\ i \notin round[i].rest
       /\ round[i].rest = {} <=> round[i] = NoRound
       /\ round[i] # NoRound => round[i].kind \in Kinds /\ no[i] # 0

\* Whoever is owed a message is still to come in the round, and is where the
\* round goes; the one it has just been sent to is not owed it any more.
OwedOK ==
  /\ owed \in [Instances -> SUBSET Instances]
  /\ \A i \in Instances :
       /\ owed[i] \subseteq round[i].rest
       /\ round[i].busy => Addressee(i) \notin owed[i]
       /\ \A d \in owed[i] : loc[d] \in round[i].for

Thens == {"menu", "first", "choose"}
PlacesOK ==
  /\ pc \in [Instances -> Places]
  /\ lock \subseteq Rooms
  /\ clean \in [Instances -> SUBSET Rooms]
  /\ found \in [Instances -> Channels]
  /\ then \in [Instances -> Thens]
  /\ target \in [Instances -> Channels \cup {"channel0"}]
  /\ insiders \in [Channels -> SUBSET Instances]

\* While i reads its messages it does nothing else and does not look for more.
ReadingOK ==
  \A i \in Instances : reading[i] => pc[i] # "down" /\ ~iia[i] /\ round[i] = NoRound

\* Who is in a secured channel, or has been let in, is an insider.
SecuredOK ==
  \A c \in lock : \A i \in Instances \ Sysops :
    loc[i] = c \/ (target[i] = c /\ pc[i] \in {"leaving", "enter"}) => i \in insiders[c]

\* Whoever has a line and is in the chat room is in a channel with a number.
InRoom(i) ==
  \/ pc[i] \in {"entered", "room", "choose", "leaving", "enter"}
  \/ pc[i] = "clean" /\ then[i] = "choose"
ChannelOK ==
  \A i \in Instances :
    /\ ~hangup[i] /\ InRoom(i) => loc[i] \in Channels
    /\ target[i] \in Channels \/ (hangup[i] /\ pc[i] \in {"leaving", "enter"})

IInv == /\ FilesOK /\ FlagsOK /\ RoundsOK /\ OwedOK /\ PlacesOK /\ ReadingOK
        /\ SecuredOK /\ ChannelOK

-----------------------------------------------------------------------------
(* The names of the places.                                                *)

\* The names INSTANCE.DAT has for what is no channel are not channels.
LEMMA PlaceNames ==
  /\ {"down", "wfc", "main", "chatroom", "channel0"} \subseteq Locations
  /\ Channels \subseteq Locations
  /\ Available \subseteq Locations /\ Up \subseteq Locations
  /\ CH1 \in Channels /\ CH1 \notin Rooms /\ Rooms \subseteq Channels
  /\ \A x \in {"down", "wfc", "main", "chatroom", "channel0"} : x \notin Channels
BY ChannelsAssumption, CH1Assumption DEF Locations, Available, Up, Rooms

\* instance numbers are numbers
LEMMA InstanceNumbers == Instances \subseteq Nat /\ NumInstances \in Nat
BY NumInstancesAssumption DEF Instances

-----------------------------------------------------------------------------
(* Rounds.                                                                 *)

\* What the end and the continuation of a round look like.
LEMMA RoundOverIs ==
  ASSUME NEW for, NEW kind, NEW rest
  PROVE  /\ RoundOver(for, kind, rest).rest = rest
         /\ rest = {} <=> RoundOver(for, kind, rest) = NoRound
         /\ RoundOver(for, kind, rest) # NoRound =>
              /\ RoundOver(for, kind, rest).kind = kind
              /\ RoundOver(for, kind, rest).for = for
         /\ ~RoundOver(for, kind, rest).busy
<1>1. CASE rest = {}
  BY <1>1 DEF RoundOver, NoRound, Round
<1>2. CASE rest # {}
  BY <1>2 DEF RoundOver, NoRound, Round
<1> QED BY <1>1, <1>2

\* A round that begins: all it is for are still to come.
LEMMA BeginsOK ==
  ASSUME RoundsOK, OwedOK, loc' = loc,
         NEW i \in Instances, NEW places \in SUBSET Locations, NEW kind \in Kinds,
         NEW from \in Nat, NEW to \in Nat, from..to \subseteq Instances,
         BeginsTo(i, places, kind, from, to)
  PROVE  /\ RoundsOK' /\ OwedOK'
         /\ \A j \in Instances \ {i} : round'[j] = round[j]
<1> DEFINE rest == Others(i, from, to)
           r == RoundOver(places, kind, rest)
<1>1. rest \in SUBSET Instances /\ i \notin rest
  BY DEF Others
<1>3. /\ round' = [round EXCEPT ![i] = r] /\ no' = [no EXCEPT ![i] = no[i] + 1]
      /\ owed' = [owed EXCEPT ![i] = {d \in rest : loc[d] \in places}]
  BY DEF BeginsTo, Others
<1> HIDE DEF rest
<1>2. /\ r \in Rounds /\ r.rest = rest /\ (rest = {} <=> r = NoRound)
      /\ r # NoRound => r.kind \in Kinds /\ r.for = places
      /\ ~r.busy
  <2>1. r \in Rounds
    BY <1>1 DEF RoundOver, NoRound, Round, Rounds
  <2>2. /\ r.rest = rest /\ (rest = {} <=> r = NoRound)
        /\ r # NoRound => r.kind \in Kinds /\ r.for = places
        /\ ~r.busy
    BY <1>1, RoundOverIs
  <2> QED BY <2>1, <2>2
<1> HIDE DEF r
<1>4. RoundsOK'
  <2>1. round' \in [Instances -> Rounds] /\ no' \in [Instances -> Nat]
    BY <1>2, <1>3 DEF RoundsOK
  <2>2. ASSUME NEW j \in Instances
        PROVE  /\ j \notin round'[j].rest
               /\ round'[j].rest = {} <=> round'[j] = NoRound
               /\ round'[j] # NoRound => round'[j].kind \in Kinds /\ no'[j] # 0
    <3>1. CASE j = i
      <4>1. round'[i] = r /\ no'[i] = no[i] + 1
        BY <1>3 DEF RoundsOK
      <4>2. no[i] + 1 # 0
        BY DEF RoundsOK
      <4> QED BY <3>1, <4>1, <4>2, <1>1, <1>2
    <3>2. CASE j # i
      BY <3>2, <1>3 DEF RoundsOK
    <3> QED BY <3>1, <3>2
  <2> QED BY <2>1, <2>2 DEF RoundsOK
<1>5. OwedOK'
  <2>1. owed' \in [Instances -> SUBSET Instances]
    BY <1>1, <1>3 DEF OwedOK
  <2>2. ASSUME NEW j \in Instances
        PROVE  /\ owed'[j] \subseteq round'[j].rest
               /\ round'[j].busy => Addressee(j)' \notin owed'[j]
               /\ \A d \in owed'[j] : loc'[d] \in round'[j].for
    <3>1. CASE j = i
      <4>1. round'[i] = r /\ owed'[i] = {d \in rest : loc[d] \in places}
        BY <1>3 DEF RoundsOK, OwedOK
      <4>2. owed'[i] # {} => r.for = places
        BY <4>1, <1>2
      <4> QED BY <3>1, <4>1, <4>2, <1>2
    <3>2. CASE j # i
      BY <3>2, <1>3 DEF RoundsOK, OwedOK, Addressee
    <3> QED BY <3>1, <3>2
  <2> QED BY <2>1, <2>2 DEF OwedOK
<1>6. \A j \in Instances \ {i} : round'[j] = round[j]
  BY <1>3 DEF RoundsOK
<1> QED BY <1>4, <1>5, <1>6

\* out_msg and broadcast go to all instances.
LEMMA BeginsAllOK ==
  ASSUME RoundsOK, OwedOK, loc' = loc,
         NEW i \in Instances, NEW places \in SUBSET Locations, NEW kind \in Kinds,
         Begins(i, places, kind)
  PROVE  /\ RoundsOK' /\ OwedOK'
         /\ \A j \in Instances \ {i} : round'[j] = round[j]
BY BeginsOK, InstanceNumbers DEF Begins, Instances

\* The round goes on after an addressee that is not owed anything.
LEMMA PassedOK ==
  ASSUME RoundsOK, OwedOK, loc' = loc, no' = no, owed' = owed,
         NEW i \in Instances, round[i].rest # {},
         Addressee(i) \notin owed[i],
         round' = Passed(i)
  PROVE  /\ RoundsOK' /\ OwedOK'
         /\ \A j \in Instances \ {i} : round'[j] = round[j]
<1> DEFINE rest == round[i].rest \ {Addressee(i)}
           r == RoundOver(round[i].for, round[i].kind, rest)
<1>1. /\ round[i] \in Rounds /\ round[i] # NoRound /\ round[i].kind \in Kinds
      /\ i \notin round[i].rest /\ no[i] # 0
  BY DEF RoundsOK
<1>2. rest \in SUBSET Instances /\ round[i].for \in SUBSET Locations /\ i \notin rest
  BY <1>1 DEF Rounds
<1>4. round' = [round EXCEPT ![i] = r]
  BY DEF Passed
<1>5. owed[i] \subseteq rest
  BY DEF OwedOK
<1> HIDE DEF rest
<1>3. /\ r \in Rounds /\ r.rest = rest /\ (rest = {} <=> r = NoRound)
      /\ r # NoRound => r.kind \in Kinds /\ r.for = round[i].for
      /\ ~r.busy
  <2>1. r \in Rounds
    BY <1>1, <1>2 DEF RoundOver, NoRound, Round, Rounds
  <2>2. /\ r.rest = rest /\ (rest = {} <=> r = NoRound)
        /\ r # NoRound => r.kind \in Kinds /\ r.for = round[i].for
        /\ ~r.busy
    BY <1>1, <1>2, RoundOverIs
  <2> QED BY <2>1, <2>2
<1> HIDE DEF r
<1>6. round'[i] = r /\ \A j \in Instances \ {i} : round'[j] = round[j]
  BY <1>4 DEF RoundsOK
<1>7. RoundsOK'
  <2>1. round' \in [Instances -> Rounds] /\ no' \in [Instances -> Nat]
    BY <1>3, <1>4 DEF RoundsOK
  <2>2. ASSUME NEW j \in Instances
        PROVE  /\ j \notin round'[j].rest
               /\ round'[j].rest = {} <=> round'[j] = NoRound
               /\ round'[j] # NoRound => round'[j].kind \in Kinds /\ no'[j] # 0
    BY <1>1, <1>2, <1>3, <1>6 DEF RoundsOK
  <2> QED BY <2>1, <2>2 DEF RoundsOK
<1>8. OwedOK'
  <2>2. ASSUME NEW j \in Instances
        PROVE  /\ owed'[j] \subseteq round'[j].rest
               /\ round'[j].busy => Addressee(j)' \notin owed'[j]
               /\ \A d \in owed'[j] : loc'[d] \in round'[j].for
    <3>1. CASE j = i
      <4>1. owed[i] # {} => r.for = round[i].for
        BY <1>3, <1>5
      <4> QED BY <3>1, <4>1, <1>3, <1>5, <1>6 DEF OwedOK
    <3>2. CASE j # i
      BY <3>2, <1>6 DEF OwedOK, Addressee
    <3> QED BY <3>1, <3>2
  <2> QED BY <2>2 DEF OwedOK
<1> QED BY <1>6, <1>7, <1>8

\* Somebody moves, and rounds of others do not count on him any more.
LEMMA WriteInstOK ==
  ASSUME OwedOK, FilesOK, round' = round,
         NEW i \in Instances, NEW where \in Locations, WriteInst(i, where)
  PROVE  OwedOK' /\ loc' \in [Instances -> Locations]
<1>1. loc' \in [Instances -> Locations] /\ owed' \in [Instances -> SUBSET Instances]
  BY DEF WriteInst, OwedOK, FilesOK
<1>2. ASSUME NEW j \in Instances
      PROVE  /\ owed'[j] \subseteq round'[j].rest
             /\ round'[j].busy => Addressee(j)' \notin owed'[j]
             /\ \A d \in owed'[j] : loc'[d] \in round'[j].for
  <2>1. owed'[j] \subseteq owed[j] /\ (where # loc[i] => i \notin owed'[j])
    BY DEF WriteInst, OwedOK
  <2>2. ASSUME NEW d \in owed'[j] PROVE loc'[d] = loc[d]
    BY <2>1 DEF WriteInst, FilesOK, OwedOK
  <2> QED BY <2>1, <2>2 DEF OwedOK, Addressee
<1> QED BY <1>1, <1>2 DEF OwedOK

\* The process of i has ended: its round is over, and nobody is owed anything.
LEMMA EndsOK ==
  ASSUME RoundsOK, FilesOK, FlagsOK, NEW i \in Instances, Ends(i), no' = no
  PROVE  /\ RoundsOK'
         /\ round'[i] = NoRound /\ \A j \in Instances \ {i} : round'[j] = round[j]
         /\ reading' \in [Instances -> BOOLEAN] /\ ~reading'[i]
         /\ \A j \in Instances \ {i} : reading'[j] = reading[j]
         /\ hangup' \in [Instances -> BOOLEAN]
         /\ file' \in [Instances -> Seq(Msgs)] /\ at' \in [Instances -> Nat]
         /\ \A j \in Instances : at'[j] \in 1..Len(file'[j]) + 1
<1>1. <<>> \in Seq(Msgs) /\ Len(<<>>) = 0
  OBVIOUS
<1>2. NoRound \in Rounds /\ NoRound.rest = {}
  BY DEF NoRound, Round, Rounds
<1>3. /\ round' = [round EXCEPT ![i] = NoRound]
      /\ reading' = [reading EXCEPT ![i] = FALSE]
      /\ hangup' = [hangup EXCEPT ![i] = FALSE]
      /\ file' = [file EXCEPT ![i] = <<>>] /\ at' = [at EXCEPT ![i] = 1]
  BY DEF Ends, Closes, NoFile
<1>4. RoundsOK'
  BY <1>2, <1>3 DEF RoundsOK
<1>5. /\ reading' \in [Instances -> BOOLEAN] /\ ~reading'[i]
      /\ hangup' \in [Instances -> BOOLEAN]
      /\ \A j \in Instances \ {i} : reading'[j] = reading[j]
  BY <1>3 DEF FlagsOK
<1>6. file' \in [Instances -> Seq(Msgs)] /\ at' \in [Instances -> Nat]
  BY <1>1, <1>3 DEF FilesOK
<1>7. \A j \in Instances : at'[j] \in 1..Len(file'[j]) + 1
  <2>1. at'[i] = 1 /\ Len(file'[i]) = 0
    BY <1>1, <1>3 DEF FilesOK
  <2>2. ASSUME NEW j \in Instances, j # i
        PROVE  at'[j] = at[j] /\ file'[j] = file[j]
    BY <2>2, <1>3 DEF FilesOK
  <2>3. 1 \in 1..0 + 1
    OBVIOUS
  <2> QED BY <2>1, <2>2, <2>3 DEF FilesOK
<1> QED BY <1>3, <1>4, <1>5, <1>6, <1>7 DEF RoundsOK
-----------------------------------------------------------------------------
(* The places of the users.                                                *)

\* The messages do not move anybody: what the user interface keeps is as it was.
LEMMA ServiceKeepsPlaces ==
  ASSUME NEW i \in Instances, Serves(i) \/ Polls(i)
  PROVE  UNCHANGED <<loc, hangup, pc, chatvars, lock, insiders>>
BY DEF Serves, Polls, Service, SendTo, Skip, RenameTmsg, HandleString, DeleteFile, Poll,
       imfiles, imghosts, chatvars

\* The steps of an instance, one by one.
Does(i) ==
  \/ LogOn(i)
  \/ Greet(i)
  \/ LogOff(i)
  \/ LoggedOff(i)
  \/ CleanLook(i)
  \/ CleanRemove(i)
  \/ CleanDone(i)
  \/ Enter(i)
  \/ Entered(i)
  \/ Leaving(i)
  \/ BackToMenu(i)
  \/ QuitBBS(i)
  \/ Exit(i)
  \/ ChooseNot(i)
  \/ ChooseZero(i)
  \/ ShutDown(i)
  \/ EnterChat(i)
  \/ Say(i)
  \/ Secure(i)
  \/ Unsecure(i)
  \/ ChangeChannels(i)
  \/ ShutDownAll(i)
  \/ ShutDownSelf(i)
  \/ Start(i)
  \/ \E c \in Channels : Choose(i, c)
  \/ \E d \in Instances : Whisper(i, d)
  \/ \E d \in Instances : ShutDownOne(i, d)
  \/ Hangup(i)
  \/ Crash(i)
  \/ Serves(i)
  \/ Polls(i)

LEMMA NextCases ==
  ASSUME Next
  PROVE  \E i \in Instances : Does(i)
BY DEF Next, Process, User, Does

\* Types of the places.
LEMMA PlacesOKStep ==
  ASSUME IInv, Next
  PROVE  PlacesOK'
<1> USE DEF IInv
<1> PICK i \in Instances : Does(i)
  BY NextCases
<1>1. CASE LogOn(i)
  BY <1>1, PlaceNames DEF LogOn, At, Free, Moves, WriteInst, Goes, PlacesOK, FilesOK,
       FlagsOK, ChannelOK, InRoom, Places, Thens, chatvars, Rooms, transport, imvars,
       imfiles, imghosts
<1>2. CASE Greet(i)
  BY <1>2, PlaceNames DEF Greet, At, Free, Goes, Begins, BeginsTo, PlacesOK, FilesOK,
       FlagsOK, ChannelOK, InRoom, Places, Thens, chatvars, Rooms, transport, imvars,
       imfiles, imghosts
<1>3. CASE LogOff(i)
  BY <1>3, PlaceNames DEF LogOff, At, Free, Goes, Begins, BeginsTo, PlacesOK, FilesOK,
       FlagsOK, ChannelOK, InRoom, Places, Thens, chatvars, Rooms, transport, imvars,
       imfiles, imghosts
<1>4. CASE LoggedOff(i)
  BY <1>4, PlaceNames DEF LoggedOff, At, Free, Moves, WriteInst, Goes, PlacesOK,
       FilesOK, FlagsOK, ChannelOK, InRoom, Places, Thens, chatvars, Rooms, transport,
       imvars, imfiles, imghosts
<1>5. CASE CleanLook(i)
  <2>1. PICK c \in clean[i], d \in Channels :
              /\ clean' = [clean EXCEPT ![i] = clean[i] \ {c}]
              /\ found' = [found EXCEPT ![i] = d]
    BY <1>5, PlaceNames DEF CleanLook, PlacesOK
  <2> QED BY <1>5, <2>1 DEF CleanLook, PlacesOK, imvars, imfiles, imghosts
<1>6. CASE CleanRemove(i)
  BY <1>6, PlaceNames DEF CleanRemove, At, Free, PlacesOK, FilesOK, FlagsOK, ChannelOK,
       InRoom, Places, Thens, chatvars, Rooms, transport, imvars, imfiles, imghosts
<1>7. CASE CleanDone(i)
  BY <1>7, PlaceNames DEF CleanDone, At, Free, Goes, Thens, PlacesOK, FilesOK, FlagsOK,
       ChannelOK, InRoom, Places, chatvars, Rooms, transport, imvars, imfiles, imghosts
<1>8. CASE Enter(i)
  BY <1>8, PlaceNames DEF Enter, At, Free, Moves, WriteInst, Goes, PlacesOK, FilesOK,
       FlagsOK, ChannelOK, InRoom, Places, Thens, chatvars, Rooms, transport, imvars,
       imfiles, imghosts
<1>9. CASE Entered(i)
  BY <1>9, PlaceNames DEF Entered, At, Free, Moving, Goes, Begins, BeginsTo, PlacesOK,
       FilesOK, FlagsOK, ChannelOK, InRoom, Places, Thens, chatvars, Rooms, transport,
       imvars, imfiles, imghosts
<1>10. CASE Leaving(i)
  BY <1>10, PlaceNames DEF Leaving, At, Free, Moving, Goes, Begins, BeginsTo, PlacesOK,
       FilesOK, FlagsOK, ChannelOK, InRoom, Places, Thens, chatvars, Rooms, transport,
       imvars, imfiles, imghosts
<1>11. CASE BackToMenu(i)
  BY <1>11, PlaceNames DEF BackToMenu, At, Free, Moves, WriteInst, Goes, PlacesOK,
       FilesOK, FlagsOK, ChannelOK, InRoom, Places, Thens, chatvars, Rooms, transport,
       imvars, imfiles, imghosts
<1>12. CASE QuitBBS(i)
  BY <1>12, PlaceNames DEF QuitBBS, At, Free, Down, Goes, Ends, Closes, Moves,
       WriteInst, PlacesOK, FilesOK, FlagsOK, ChannelOK, InRoom, Places, Thens,
       chatvars, Rooms, transport, imvars, imfiles, imghosts
<1>13. CASE Exit(i)
  BY <1>13, PlaceNames DEF Exit, At, Free, Moving, Goes, Begins, BeginsTo, PlacesOK,
       FilesOK, FlagsOK, ChannelOK, InRoom, Places, Thens, chatvars, Rooms, transport,
       imvars, imfiles, imghosts
<1>14. CASE ChooseNot(i)
  BY <1>14, PlaceNames DEF ChooseNot, At, Free, Goes, PlacesOK, FilesOK, FlagsOK,
       ChannelOK, InRoom, Places, Thens, chatvars, Rooms, transport, imvars, imfiles,
       imghosts
<1>15. CASE ChooseZero(i)
  BY <1>15, PlaceNames DEF ChooseZero, At, Free, Goes, PlacesOK, FilesOK, FlagsOK,
       ChannelOK, InRoom, Places, Thens, chatvars, Rooms, transport, imvars, imfiles,
       imghosts
<1>16. CASE ShutDown(i)
  BY <1>16, PlaceNames DEF ShutDown, HandleShutdown, Handles, Down, Goes, Ends, Closes,
       WriteInst, PlacesOK, FilesOK, FlagsOK, ChannelOK, InRoom, Places, Thens,
       chatvars, Rooms, transport, imvars, imfiles, imghosts
<1>17. CASE EnterChat(i)
  BY <1>17, PlaceNames DEF EnterChat, At, Free, Moves, WriteInst, Goes, Thens, PlacesOK,
       FilesOK, FlagsOK, ChannelOK, InRoom, Places, chatvars, Rooms, transport, imvars,
       imfiles, imghosts
<1>18. CASE Say(i)
  BY <1>18, PlaceNames DEF Say, At, Free, Begins, BeginsTo, PlacesOK, FilesOK, FlagsOK,
       ChannelOK, InRoom, Places, Thens, chatvars, Rooms, transport, imvars, imfiles,
       imghosts
<1>19. CASE Secure(i)
  BY <1>19, PlaceNames DEF Secure, At, Free, Begins, BeginsTo, OnTheWay, PlacesOK,
       FilesOK, FlagsOK, ChannelOK, InRoom, Places, Thens, chatvars, Rooms, transport,
       imvars, imfiles, imghosts
<1>20. CASE Unsecure(i)
  BY <1>20, PlaceNames DEF Unsecure, At, Free, Begins, BeginsTo, PlacesOK, FilesOK,
       FlagsOK, ChannelOK, InRoom, Places, Thens, chatvars, Rooms, transport, imvars,
       imfiles, imghosts
<1>21. CASE ChangeChannels(i)
  BY <1>21, PlaceNames DEF ChangeChannels, At, Free, Goes, Thens, PlacesOK, FilesOK,
       FlagsOK, ChannelOK, InRoom, Places, chatvars, Rooms, transport, imvars, imfiles,
       imghosts
<1>22. CASE ShutDownAll(i)
  BY <1>22, PlaceNames DEF ShutDownAll, At, Free, Goes, Begins, BeginsTo, PlacesOK,
       FilesOK, FlagsOK, ChannelOK, InRoom, Places, Thens, chatvars, Rooms, transport,
       imvars, imfiles, imghosts
<1>23. CASE ShutDownSelf(i)
  BY <1>23, PlaceNames DEF ShutDownSelf, At, Free, Goes, PlacesOK, FilesOK, FlagsOK,
       ChannelOK, InRoom, Places, Thens, chatvars, Rooms, transport, imvars, imfiles,
       imghosts
<1>24. CASE Start(i)
  BY <1>24, PlaceNames DEF Start, Moves, WriteInst, Goes, PlacesOK, FilesOK, FlagsOK,
       ChannelOK, InRoom, Places, Thens, chatvars, Rooms, transport, imvars, imfiles,
       imghosts
<1>25. CASE \E c \in Channels : Choose(i, c)
  BY <1>25, PlaceNames DEF Choose, At, Free, Goes, MayEnter, PlacesOK, FilesOK, FlagsOK,
       ChannelOK, InRoom, Places, Thens, chatvars, Rooms, transport, imvars, imfiles,
       imghosts
<1>26. CASE \E d \in Instances : Whisper(i, d)
  BY <1>26, PlaceNames DEF Whisper, At, Free, BeginsTo, PlacesOK, FilesOK, FlagsOK,
       ChannelOK, InRoom, Places, Thens, chatvars, Rooms, transport, imvars, imfiles,
       imghosts
<1>27. CASE \E d \in Instances : ShutDownOne(i, d)
  BY <1>27, PlaceNames DEF ShutDownOne, At, Free, BeginsTo, PlacesOK, FilesOK, FlagsOK,
       ChannelOK, InRoom, Places, Thens, chatvars, Rooms, transport, imvars, imfiles,
       imghosts
<1>28. CASE Hangup(i)
  BY <1>28, PlaceNames DEF Hangup, PlacesOK, FilesOK, FlagsOK, ChannelOK, InRoom,
       Places, Thens, chatvars, Rooms, transport, imvars, imfiles, imghosts
<1>29. CASE Crash(i)
  BY <1>29, PlaceNames DEF Crash, Dies, Down, Goes, Ends, Closes, PlacesOK, FilesOK,
       FlagsOK, ChannelOK, InRoom, Places, Thens, chatvars, Rooms, transport, imvars,
       imfiles, imghosts
<1>30. CASE Serves(i) \/ Polls(i)
  BY <1>30, ServiceKeepsPlaces DEF PlacesOK, InRoom, Rooms, chatvars
<1> QED BY <1>1, <1>2, <1>3, <1>4, <1>5, <1>6, <1>7, <1>8, <1>9, <1>10, <1>11, <1>12,
     <1>13, <1>14, <1>15, <1>16, <1>17, <1>18, <1>19, <1>20, <1>21, <1>22, <1>23, <1>24,
     <1>25, <1>26, <1>27, <1>28, <1>29, <1>30 DEF Does

\* A user with a line is in a channel that has a number.
LEMMA ChannelOKStep ==
  ASSUME IInv, Next
  PROVE  ChannelOK'
<1> USE DEF IInv
<1> PICK i \in Instances : Does(i)
  BY NextCases
<1>1. CASE LogOn(i)
  BY <1>1, PlaceNames DEF LogOn, At, Free, Moves, WriteInst, Goes, PlacesOK, FilesOK,
       FlagsOK, ChannelOK, InRoom, Places, Thens, chatvars, transport, imvars, imfiles,
       imghosts
<1>2. CASE Greet(i)
  BY <1>2, PlaceNames DEF Greet, At, Free, Goes, Begins, BeginsTo, PlacesOK, FilesOK,
       FlagsOK, ChannelOK, InRoom, Places, Thens, chatvars, transport, imvars, imfiles,
       imghosts
<1>3. CASE LogOff(i)
  BY <1>3, PlaceNames DEF LogOff, At, Free, Goes, Begins, BeginsTo, PlacesOK, FilesOK,
       FlagsOK, ChannelOK, InRoom, Places, Thens, chatvars, transport, imvars, imfiles,
       imghosts
<1>4. CASE LoggedOff(i)
  BY <1>4, PlaceNames DEF LoggedOff, At, Free, Moves, WriteInst, Goes, PlacesOK,
       FilesOK, FlagsOK, ChannelOK, InRoom, Places, Thens, chatvars, transport, imvars,
       imfiles, imghosts
<1>5. CASE CleanLook(i)
  BY <1>5, PlaceNames DEF CleanLook, At, Free, PlacesOK, FilesOK, FlagsOK, ChannelOK,
       InRoom, Places, Thens, chatvars, transport, imvars, imfiles, imghosts
<1>6. CASE CleanRemove(i)
  BY <1>6, PlaceNames DEF CleanRemove, At, Free, PlacesOK, FilesOK, FlagsOK, ChannelOK,
       InRoom, Places, Thens, chatvars, transport, imvars, imfiles, imghosts
<1>7. CASE CleanDone(i)
  BY <1>7, PlaceNames DEF CleanDone, At, Free, Goes, Thens, PlacesOK, FilesOK, FlagsOK,
       ChannelOK, InRoom, Places, chatvars, transport, imvars, imfiles, imghosts
<1>8. CASE Enter(i)
  BY <1>8, PlaceNames DEF Enter, At, Free, Moves, WriteInst, Goes, PlacesOK, FilesOK,
       FlagsOK, ChannelOK, InRoom, Places, Thens, chatvars, transport, imvars, imfiles,
       imghosts
<1>9. CASE Entered(i)
  BY <1>9, PlaceNames DEF Entered, At, Free, Moving, Goes, Begins, BeginsTo, PlacesOK,
       FilesOK, FlagsOK, ChannelOK, InRoom, Places, Thens, chatvars, transport, imvars,
       imfiles, imghosts
<1>10. CASE Leaving(i)
  BY <1>10, PlaceNames DEF Leaving, At, Free, Moving, Goes, Begins, BeginsTo, PlacesOK,
       FilesOK, FlagsOK, ChannelOK, InRoom, Places, Thens, chatvars, transport, imvars,
       imfiles, imghosts
<1>11. CASE BackToMenu(i)
  BY <1>11, PlaceNames DEF BackToMenu, At, Free, Moves, WriteInst, Goes, PlacesOK,
       FilesOK, FlagsOK, ChannelOK, InRoom, Places, Thens, chatvars, transport, imvars,
       imfiles, imghosts
<1>12. CASE QuitBBS(i)
  BY <1>12, PlaceNames DEF QuitBBS, At, Free, Down, Goes, Ends, Closes, Moves,
       WriteInst, PlacesOK, FilesOK, FlagsOK, ChannelOK, InRoom, Places, Thens,
       chatvars, transport, imvars, imfiles, imghosts
<1>13. CASE Exit(i)
  BY <1>13, PlaceNames DEF Exit, At, Free, Moving, Goes, Begins, BeginsTo, PlacesOK,
       FilesOK, FlagsOK, ChannelOK, InRoom, Places, Thens, chatvars, transport, imvars,
       imfiles, imghosts
<1>14. CASE ChooseNot(i)
  BY <1>14, PlaceNames DEF ChooseNot, At, Free, Goes, PlacesOK, FilesOK, FlagsOK,
       ChannelOK, InRoom, Places, Thens, chatvars, transport, imvars, imfiles, imghosts
<1>15. CASE ChooseZero(i)
  BY <1>15, PlaceNames DEF ChooseZero, At, Free, Goes, PlacesOK, FilesOK, FlagsOK,
       ChannelOK, InRoom, Places, Thens, chatvars, transport, imvars, imfiles, imghosts
<1>16. CASE ShutDown(i)
  BY <1>16, PlaceNames DEF ShutDown, HandleShutdown, Handles, Down, Goes, Ends, Closes,
       WriteInst, PlacesOK, FilesOK, FlagsOK, ChannelOK, InRoom, Places, Thens,
       chatvars, transport, imvars, imfiles, imghosts
<1>17. CASE EnterChat(i)
  BY <1>17, PlaceNames DEF EnterChat, At, Free, Moves, WriteInst, Goes, Thens, PlacesOK,
       FilesOK, FlagsOK, ChannelOK, InRoom, Places, chatvars, transport, imvars,
       imfiles, imghosts
<1>18. CASE Say(i)
  BY <1>18, PlaceNames DEF Say, At, Free, Begins, BeginsTo, PlacesOK, FilesOK, FlagsOK,
       ChannelOK, InRoom, Places, Thens, chatvars, transport, imvars, imfiles, imghosts
<1>19. CASE Secure(i)
  BY <1>19, PlaceNames DEF Secure, At, Free, Begins, BeginsTo, OnTheWay, PlacesOK,
       FilesOK, FlagsOK, ChannelOK, InRoom, Places, Thens, chatvars, transport, imvars,
       imfiles, imghosts
<1>20. CASE Unsecure(i)
  BY <1>20, PlaceNames DEF Unsecure, At, Free, Begins, BeginsTo, PlacesOK, FilesOK,
       FlagsOK, ChannelOK, InRoom, Places, Thens, chatvars, transport, imvars, imfiles,
       imghosts
<1>21. CASE ChangeChannels(i)
  BY <1>21, PlaceNames DEF ChangeChannels, At, Free, Goes, Thens, PlacesOK, FilesOK,
       FlagsOK, ChannelOK, InRoom, Places, chatvars, transport, imvars, imfiles,
       imghosts
<1>22. CASE ShutDownAll(i)
  BY <1>22, PlaceNames DEF ShutDownAll, At, Free, Goes, Begins, BeginsTo, PlacesOK,
       FilesOK, FlagsOK, ChannelOK, InRoom, Places, Thens, chatvars, transport, imvars,
       imfiles, imghosts
<1>23. CASE ShutDownSelf(i)
  BY <1>23, PlaceNames DEF ShutDownSelf, At, Free, Goes, PlacesOK, FilesOK, FlagsOK,
       ChannelOK, InRoom, Places, Thens, chatvars, transport, imvars, imfiles, imghosts
<1>24. CASE Start(i)
  BY <1>24, PlaceNames DEF Start, Moves, WriteInst, Goes, PlacesOK, FilesOK, FlagsOK,
       ChannelOK, InRoom, Places, Thens, chatvars, transport, imvars, imfiles, imghosts
<1>25. CASE \E c \in Channels : Choose(i, c)
  BY <1>25, PlaceNames DEF Choose, At, Free, Goes, MayEnter, PlacesOK, FilesOK, FlagsOK,
       ChannelOK, InRoom, Places, Thens, chatvars, transport, imvars, imfiles, imghosts
<1>26. CASE \E d \in Instances : Whisper(i, d)
  BY <1>26, PlaceNames DEF Whisper, At, Free, BeginsTo, PlacesOK, FilesOK, FlagsOK,
       ChannelOK, InRoom, Places, Thens, chatvars, transport, imvars, imfiles, imghosts
<1>27. CASE \E d \in Instances : ShutDownOne(i, d)
  BY <1>27, PlaceNames DEF ShutDownOne, At, Free, BeginsTo, PlacesOK, FilesOK, FlagsOK,
       ChannelOK, InRoom, Places, Thens, chatvars, transport, imvars, imfiles, imghosts
<1>28. CASE Hangup(i)
  BY <1>28, PlaceNames DEF Hangup, PlacesOK, FilesOK, FlagsOK, ChannelOK, InRoom,
       Places, Thens, chatvars, transport, imvars, imfiles, imghosts
<1>29. CASE Crash(i)
  BY <1>29, PlaceNames DEF Crash, Dies, Down, Goes, Ends, Closes, PlacesOK, FilesOK,
       FlagsOK, ChannelOK, InRoom, Places, Thens, chatvars, transport, imvars, imfiles,
       imghosts
<1>30. CASE Serves(i) \/ Polls(i)
  BY <1>30, ServiceKeepsPlaces DEF ChannelOK, InRoom, Rooms, chatvars
<1> QED BY <1>1, <1>2, <1>3, <1>4, <1>5, <1>6, <1>7, <1>8, <1>9, <1>10, <1>11, <1>12,
     <1>13, <1>14, <1>15, <1>16, <1>17, <1>18, <1>19, <1>20, <1>21, <1>22, <1>23, <1>24,
     <1>25, <1>26, <1>27, <1>28, <1>29, <1>30 DEF Does

\* A channel is entered by those who were let in.
LEMMA SecuredOKStep ==
  ASSUME IInv, Next
  PROVE  SecuredOK'
<1> USE DEF IInv
<1> PICK i \in Instances : Does(i)
  BY NextCases
<1>1. CASE LogOn(i)
  BY <1>1, PlaceNames DEF LogOn, At, Free, Moves, WriteInst, Goes, PlacesOK, FilesOK,
       SecuredOK, Rooms, chatvars, transport, imvars, imfiles, imghosts
<1>2. CASE Greet(i)
  BY <1>2, PlaceNames DEF Greet, At, Free, Goes, Begins, BeginsTo, PlacesOK, FilesOK,
       SecuredOK, Rooms, chatvars, transport, imvars, imfiles, imghosts
<1>3. CASE LogOff(i)
  BY <1>3, PlaceNames DEF LogOff, At, Free, Goes, Begins, BeginsTo, PlacesOK, FilesOK,
       SecuredOK, Rooms, chatvars, transport, imvars, imfiles, imghosts
<1>4. CASE LoggedOff(i)
  BY <1>4, PlaceNames DEF LoggedOff, At, Free, Moves, WriteInst, Goes, PlacesOK,
       FilesOK, SecuredOK, Rooms, chatvars, transport, imvars, imfiles, imghosts
<1>5. CASE CleanLook(i)
  BY <1>5, PlaceNames DEF CleanLook, At, Free, PlacesOK, FilesOK, SecuredOK, Rooms,
       chatvars, transport, imvars, imfiles, imghosts
<1>6. CASE CleanRemove(i)
  BY <1>6, PlaceNames DEF CleanRemove, At, Free, PlacesOK, FilesOK, SecuredOK, Rooms,
       chatvars, transport, imvars, imfiles, imghosts
<1>7. CASE CleanDone(i)
  BY <1>7, PlaceNames DEF CleanDone, At, Free, Goes, Thens, PlacesOK, FilesOK,
       SecuredOK, Rooms, chatvars, transport, imvars, imfiles, imghosts
<1>8. CASE Enter(i)
  BY <1>8, PlaceNames DEF Enter, At, Free, Moves, WriteInst, Goes, PlacesOK, FilesOK,
       SecuredOK, Rooms, chatvars, transport, imvars, imfiles, imghosts
<1>9. CASE Entered(i)
  BY <1>9, PlaceNames DEF Entered, At, Free, Moving, Goes, Begins, BeginsTo, PlacesOK,
       FilesOK, SecuredOK, Rooms, chatvars, transport, imvars, imfiles, imghosts
<1>10. CASE Leaving(i)
  BY <1>10, PlaceNames DEF Leaving, At, Free, Moving, Goes, Begins, BeginsTo, PlacesOK,
       FilesOK, SecuredOK, Rooms, chatvars, transport, imvars, imfiles, imghosts
<1>11. CASE BackToMenu(i)
  BY <1>11, PlaceNames DEF BackToMenu, At, Free, Moves, WriteInst, Goes, PlacesOK,
       FilesOK, SecuredOK, Rooms, chatvars, transport, imvars, imfiles, imghosts
<1>12. CASE QuitBBS(i)
  BY <1>12, PlaceNames DEF QuitBBS, At, Free, Down, Goes, Ends, Closes, Moves,
       WriteInst, PlacesOK, FilesOK, SecuredOK, Rooms, chatvars, transport, imvars,
       imfiles, imghosts
<1>13. CASE Exit(i)
  BY <1>13, PlaceNames DEF Exit, At, Free, Moving, Goes, Begins, BeginsTo, PlacesOK,
       FilesOK, SecuredOK, Rooms, chatvars, transport, imvars, imfiles, imghosts
<1>14. CASE ChooseNot(i)
  BY <1>14, PlaceNames DEF ChooseNot, At, Free, Goes, PlacesOK, FilesOK, SecuredOK,
       Rooms, chatvars, transport, imvars, imfiles, imghosts
<1>15. CASE ChooseZero(i)
  BY <1>15, PlaceNames DEF ChooseZero, At, Free, Goes, PlacesOK, FilesOK, SecuredOK,
       Rooms, chatvars, transport, imvars, imfiles, imghosts
<1>16. CASE ShutDown(i)
  BY <1>16, PlaceNames DEF ShutDown, HandleShutdown, Handles, Down, Goes, Ends, Closes,
       WriteInst, PlacesOK, FilesOK, SecuredOK, Rooms, chatvars, transport, imvars,
       imfiles, imghosts
<1>17. CASE EnterChat(i)
  BY <1>17, PlaceNames DEF EnterChat, At, Free, Moves, WriteInst, Goes, Thens, PlacesOK,
       FilesOK, SecuredOK, Rooms, chatvars, transport, imvars, imfiles, imghosts
<1>18. CASE Say(i)
  BY <1>18, PlaceNames DEF Say, At, Free, Begins, BeginsTo, PlacesOK, FilesOK,
       SecuredOK, Rooms, chatvars, transport, imvars, imfiles, imghosts
<1>19. CASE Secure(i)
  <2>1. lock' = lock \cup {loc[i]} /\ loc' = loc /\ target' = target /\ pc' = pc
    BY <1>19 DEF Secure, chatvars
  <2>2. /\ insiders' = [insiders EXCEPT ![loc[i]] = insiders'[loc[i]]]
        /\ loc[i] \in Channels =>
             /\ {j \in Instances : loc[j] = loc[i]} \subseteq insiders'[loc[i]]
             /\ OnTheWay(loc[i]) \subseteq insiders'[loc[i]]
    BY <1>19 DEF Secure, PlacesOK
  <2>3. loc[i] \in Channels
    BY <1>19 DEF Secure, At, ChannelOK, InRoom
  <2>4. ASSUME NEW c \in lock', NEW j \in Instances \ Sysops,
               loc'[j] = c \/ (target'[j] = c /\ pc'[j] \in {"leaving", "enter"})
        PROVE  j \in insiders'[c]
    <3>1. CASE c = loc[i]
      BY <2>1, <2>2, <2>3, <2>4, <3>1 DEF OnTheWay
    <3>2. CASE c # loc[i]
      BY <2>1, <2>2, <2>4, <3>2, PlaceNames DEF SecuredOK, PlacesOK
    <3> QED BY <3>1, <3>2
  <2> QED BY <2>4 DEF SecuredOK
<1>20. CASE Unsecure(i)
  BY <1>20, PlaceNames DEF Unsecure, At, Free, Begins, BeginsTo, PlacesOK, FilesOK,
       SecuredOK, Rooms, chatvars, transport, imvars, imfiles, imghosts
<1>21. CASE ChangeChannels(i)
  BY <1>21, PlaceNames DEF ChangeChannels, At, Free, Goes, Thens, PlacesOK, FilesOK,
       SecuredOK, Rooms, chatvars, transport, imvars, imfiles, imghosts
<1>22. CASE ShutDownAll(i)
  BY <1>22, PlaceNames DEF ShutDownAll, At, Free, Goes, Begins, BeginsTo, PlacesOK,
       FilesOK, SecuredOK, Rooms, chatvars, transport, imvars, imfiles, imghosts
<1>23. CASE ShutDownSelf(i)
  BY <1>23, PlaceNames DEF ShutDownSelf, At, Free, Goes, PlacesOK, FilesOK, SecuredOK,
       Rooms, chatvars, transport, imvars, imfiles, imghosts
<1>24. CASE Start(i)
  BY <1>24, PlaceNames DEF Start, Moves, WriteInst, Goes, PlacesOK, FilesOK, SecuredOK,
       Rooms, chatvars, transport, imvars, imfiles, imghosts
<1>25. CASE \E c \in Channels : Choose(i, c)
  BY <1>25, PlaceNames DEF Choose, At, Free, Goes, MayEnter, PlacesOK, FilesOK,
       SecuredOK, Rooms, chatvars, transport, imvars, imfiles, imghosts
<1>26. CASE \E d \in Instances : Whisper(i, d)
  BY <1>26, PlaceNames DEF Whisper, At, Free, BeginsTo, PlacesOK, FilesOK, SecuredOK,
       Rooms, chatvars, transport, imvars, imfiles, imghosts
<1>27. CASE \E d \in Instances : ShutDownOne(i, d)
  BY <1>27, PlaceNames DEF ShutDownOne, At, Free, BeginsTo, PlacesOK, FilesOK,
       SecuredOK, Rooms, chatvars, transport, imvars, imfiles, imghosts
<1>28. CASE Hangup(i)
  BY <1>28, PlaceNames DEF Hangup, PlacesOK, FilesOK, SecuredOK, Rooms, chatvars,
       transport, imvars, imfiles, imghosts
<1>29. CASE Crash(i)
  BY <1>29, PlaceNames DEF Crash, Dies, Down, Goes, Ends, Closes, PlacesOK, FilesOK,
       SecuredOK, Rooms, chatvars, transport, imvars, imfiles, imghosts
<1>30. CASE Serves(i) \/ Polls(i)
  BY <1>30, ServiceKeepsPlaces DEF SecuredOK, InRoom, Rooms, chatvars
<1> QED BY <1>1, <1>2, <1>3, <1>4, <1>5, <1>6, <1>7, <1>8, <1>9, <1>10, <1>11, <1>12,
     <1>13, <1>14, <1>15, <1>16, <1>17, <1>18, <1>19, <1>20, <1>21, <1>22, <1>23, <1>24,
     <1>25, <1>26, <1>27, <1>28, <1>29, <1>30 DEF Does

-----------------------------------------------------------------------------
(* The messages.                                                           *)

\* A change of channel: a round, unless nobody is to know.
LEMMA MovingOK ==
  ASSUME RoundsOK, OwedOK, FilesOK, loc' = loc, NEW i \in Instances, Moving(i)
  PROVE  /\ RoundsOK' /\ OwedOK'
         /\ \A j \in Instances \ {i} : round'[j] = round[j]
<1>1. CASE i \in Invisible
  BY <1>1 DEF Moving, RoundsOK, OwedOK, Addressee
<1>2. CASE i \notin Invisible
  <2>1. {loc[i]} \in SUBSET Locations /\ "STRING" \in Kinds
    BY DEF FilesOK, Kinds
  <2> QED BY <1>2, <2>1, BeginsAllOK DEF Moving
<1> QED BY <1>1, <1>2

\* An instance that is not reading does what it likes with its own state.
LEMMA OthersRead ==
  ASSUME ReadingOK, NEW i \in Instances, ~reading'[i],
         \A j \in Instances \ {i} : /\ reading'[j] = reading[j] /\ round'[j] = round[j]
                                    /\ pc'[j] = pc[j] /\ iia'[j] = iia[j]
  PROVE  ReadingOK'
BY DEF ReadingOK

MessagesOK == FilesOK /\ FlagsOK /\ RoundsOK /\ OwedOK /\ ReadingOK

\* What the messages are is left alone.
LEMMA ImvarsKept ==
  ASSUME IInv, UNCHANGED imvars, \A j \in Instances : reading[j] => pc'[j] = pc[j]
  PROVE  MessagesOK'
BY DEF IInv, FilesOK, FlagsOK, RoundsOK, OwedOK, ReadingOK, MessagesOK, Addressee,
       imvars, imfiles, imghosts

\* i, which is not reading, begins a round or does not.
LEMMA BeginStep ==
  ASSUME IInv, NEW i \in Instances, ~reading[i],
         RoundsOK', OwedOK', \A j \in Instances \ {i} : round'[j] = round[j],
         UNCHANGED <<transport, loc, iia, hangup>>,
         \A j \in Instances \ {i} : pc'[j] = pc[j]
  PROVE  MessagesOK'
<1>1. FilesOK' /\ FlagsOK'
  BY DEF IInv, FilesOK, FlagsOK, transport
<1>2. ReadingOK'
  BY OthersRead DEF IInv, transport
<1> QED BY <1>1, <1>2 DEF MessagesOK

\* i, which is not reading, goes to another place.
LEMMA MoveStep ==
  ASSUME IInv, NEW i \in Instances, NEW where \in Locations, ~reading[i],
         Moves(i, where), UNCHANGED <<transport, round, no>>,
         iia' \in [Instances -> BOOLEAN], hangup' \in [Instances -> BOOLEAN],
         \A j \in Instances \ {i} : pc'[j] = pc[j] /\ iia'[j] = iia[j]
  PROVE  MessagesOK'
<1>1. OwedOK' /\ loc' \in [Instances -> Locations]
  BY WriteInstOK DEF IInv, Moves
<1>2. FilesOK' /\ FlagsOK' /\ RoundsOK'
  BY <1>1 DEF IInv, FilesOK, FlagsOK, RoundsOK, transport
<1>3. ReadingOK'
  BY OthersRead DEF IInv, transport
<1> QED BY <1>1, <1>2, <1>3 DEF MessagesOK

\* A message is written.
LEMMA SendToOK ==
  ASSUME IInv, NEW i \in Instances, SendTo(i)
  PROVE  FilesOK' /\ FlagsOK' /\ RoundsOK' /\ OwedOK'
<1> DEFINE d == Addressee(i)
           m == Message(i, no[i], round[i].kind)
<1>1. /\ round[i] # NoRound /\ m \in Msgs /\ round[i] \in Rounds
  BY DEF IInv, RoundsOK, SendTo, Sending, Msgs, Message, NoRound, Round
<1>2. FilesOK'
  <2>1. \A q \in Seq(Msgs) : Append(q, m) \in Seq(Msgs)
    BY <1>1
  <2>2. tmsg' = [tmsg EXCEPT ![i] = [tmsg[i] EXCEPT ![d] = Append(tmsg[i][d], m)]]
    BY DEF SendTo, Appended, IInv, FilesOK
  <2> HIDE DEF d, m
  <2>3. [tmsg[i] EXCEPT ![d] = Append(tmsg[i][d], m)] \in [Instances -> Seq(Msgs)]
    BY <2>1 DEF IInv, FilesOK
  <2>4. tmsg' \in [Instances -> [Instances -> Seq(Msgs)]]
    BY <2>2, <2>3 DEF IInv, FilesOK
  <2> QED BY <2>4 DEF IInv, FilesOK, SendTo
<1>3. FlagsOK'
  BY DEF IInv, FlagsOK, SendTo
<1>4. PICK b \in Rounds :
        /\ round' = [round EXCEPT ![i] = b]
        /\ b.for = round[i].for /\ b.kind = round[i].kind /\ b.rest = round[i].rest
        /\ b.busy
  <2> DEFINE b == [round[i] EXCEPT !.busy = TRUE]
  <2>1. b \in Rounds /\ b.for = round[i].for /\ b.kind = round[i].kind
        /\ b.rest = round[i].rest /\ b.busy
    BY <1>1 DEF Rounds
  <2>2. round' = [round EXCEPT ![i] = b]
    BY DEF SendTo
  <2> QED BY <2>1, <2>2
<1>5. b # NoRound /\ b.rest # {}
  BY <1>4 DEF SendTo, Sending, NoRound, Round
<1>6. RoundsOK'
  BY <1>1, <1>4, <1>5 DEF IInv, RoundsOK, SendTo
<1>7. OwedOK'
  <2>1. owed' = [owed EXCEPT ![i] = owed[i] \ {d}] /\ loc' = loc
    BY DEF SendTo
  <2>2. owed' \in [Instances -> SUBSET Instances]
    BY <2>1 DEF IInv, OwedOK
  <2>3. ASSUME NEW j \in Instances
        PROVE  /\ owed'[j] \subseteq round'[j].rest
               /\ round'[j].busy => Addressee(j)' \notin owed'[j]
               /\ \A e \in owed'[j] : loc'[e] \in round'[j].for
    <3>1. CASE j = i
      <4>1. round'[i] = b /\ owed'[i] = owed[i] \ {d}
        BY <1>4, <2>1 DEF IInv, RoundsOK, OwedOK
      <4> QED BY <3>1, <4>1, <1>4, <2>1 DEF IInv, OwedOK, Addressee
    <3>2. CASE j # i
      <4>1. round'[j] = round[j] /\ owed'[j] = owed[j]
        BY <3>2, <1>4, <2>1 DEF IInv, RoundsOK, OwedOK
      <4> QED BY <4>1, <2>1 DEF IInv, OwedOK, Addressee
    <3> QED BY <3>1, <3>2
  <2> QED BY <2>2, <2>3 DEF OwedOK
<1> QED BY <1>2, <1>3, <1>6, <1>7

\* What an instance does with its messages.
LEMMA ServesOK ==
  ASSUME IInv, NEW i \in Instances, Serves(i) \/ Polls(i)
  PROVE  MessagesOK'
<1> USE DEF IInv
<1>0. pc' = pc
  BY DEF Serves, Polls
<1>1. CASE SendTo(i)
  <2>1. ~reading[i]
    BY <1>1 DEF SendTo, Sending, ReadingOK, NoRound, Round
  <2>2. \A j \in Instances \ {i} : round'[j] = round[j]
    BY <1>1 DEF SendTo, RoundsOK
  <2>3. ReadingOK'
    BY <1>0, <1>1, <2>1, <2>2, OthersRead DEF SendTo
  <2> QED BY <1>1, <2>3, SendToOK DEF MessagesOK
<1>2. CASE Skip(i)
  <2>1. ~reading[i]
    BY <1>2 DEF Skip, Sending, ReadingOK, NoRound, Round
  <2>2. Addressee(i) \notin owed[i]
    BY <1>2 DEF Skip, OwedOK
  <2>3. /\ RoundsOK' /\ OwedOK'
        /\ \A j \in Instances \ {i} : round'[j] = round[j]
    BY <1>2, <2>2, PassedOK DEF Skip, Sending, imfiles, imghosts
  <2>4. FilesOK' /\ FlagsOK'
    BY <1>2 DEF Skip, FilesOK, FlagsOK, imfiles, imghosts
  <2>5. ReadingOK'
    BY <1>0, <1>2, <2>1, <2>3, OthersRead DEF Skip
  <2> QED BY <2>3, <2>4, <2>5 DEF MessagesOK
<1>3. CASE RenameTmsg(i)
  <2>0. round[i] # NoRound
    BY <1>3 DEF RenameTmsg, NoRound, Round
  <2>1. ~reading[i]
    BY <2>0 DEF ReadingOK
  <2>2. Addressee(i) \notin owed[i] /\ round[i].rest # {}
    BY <1>3, <2>0 DEF RenameTmsg, OwedOK, RoundsOK
  <2>3. /\ RoundsOK' /\ OwedOK'
        /\ \A j \in Instances \ {i} : round'[j] = round[j]
    BY <1>3, <2>2, PassedOK DEF RenameTmsg, imghosts
  <2>4. FilesOK'
    <3> DEFINE d == Addressee(i)
    <3>1. CASE Renames(d)
      <4>1. /\ msg' = [msg EXCEPT ![d] = tmsg[i][d]]
            /\ tmsg' = [tmsg EXCEPT ![i] = [tmsg[i] EXCEPT ![d] = <<>>]]
        BY <1>3, <3>1 DEF RenameTmsg, NoFile, FilesOK
      <4> HIDE DEF d
      <4>2. <<>> \in Seq(Msgs)
        OBVIOUS
      <4>3. d \in Instances => tmsg[i][d] \in Seq(Msgs)
        BY DEF FilesOK
      <4>4. [tmsg[i] EXCEPT ![d] = <<>>] \in [Instances -> Seq(Msgs)]
        BY <4>2 DEF FilesOK
      <4>5. /\ msg' \in [Instances -> Seq(Msgs)]
            /\ tmsg' \in [Instances -> [Instances -> Seq(Msgs)]]
        BY <4>1, <4>3, <4>4 DEF FilesOK
      <4> QED BY <1>3, <4>5 DEF RenameTmsg, FilesOK
    <3>2. CASE ~Renames(d)
      BY <1>3, <3>2 DEF RenameTmsg, FilesOK
    <3> QED BY <3>1, <3>2
  <2>5. FlagsOK'
    BY <1>3 DEF RenameTmsg, FlagsOK, imghosts
  <2>6. ReadingOK'
    BY <1>0, <1>3, <2>1, <2>3, OthersRead DEF RenameTmsg
  <2> QED BY <2>3, <2>4, <2>5, <2>6 DEF MessagesOK
<1>4. CASE HandleString(i)
  <2>1. RoundsOK' /\ OwedOK' /\ FlagsOK' /\ ReadingOK'
    BY <1>0, <1>4 DEF HandleString, RoundsOK, OwedOK, FlagsOK, ReadingOK, Addressee,
         imfiles
  <2>2. at' = [at EXCEPT ![i] = at[i] + 1] /\ file' = file /\ at[i] <= Len(file[i])
    BY <1>4 DEF HandleString, Handles
  <2>3. at' \in [Instances -> Nat]
    BY <2>2 DEF FilesOK
  <2>4. ASSUME NEW j \in Instances PROVE at'[j] \in 1..Len(file'[j]) + 1
    <3>1. at[j] \in 1..Len(file[j]) + 1 /\ Len(file[j]) \in Nat
      BY DEF FilesOK
    <3> QED BY <2>2, <3>1 DEF FilesOK
  <2>5. FilesOK'
    BY <1>4, <2>2, <2>3, <2>4 DEF HandleString, FilesOK, imfiles
  <2> QED BY <2>1, <2>5 DEF MessagesOK
<1>5. CASE DeleteFile(i)
  <2>1. /\ reading' = [reading EXCEPT ![i] = FALSE] /\ iia' = [iia EXCEPT ![i] = TRUE]
        /\ msg' = [msg EXCEPT ![i] = <<>>] /\ file' = [file EXCEPT ![i] = <<>>]
        /\ at' = [at EXCEPT ![i] = 1]
        /\ UNCHANGED <<platform, loc, tmsg, round, hangup, no, redo, owed>>
    BY <1>5 DEF DeleteFile, Closes, Listen, NoFile, imghosts
  <2>2. RoundsOK' /\ OwedOK' /\ FlagsOK'
    BY <2>1 DEF RoundsOK, OwedOK, FlagsOK, Addressee
  <2>3. <<>> \in Seq(Msgs) /\ Len(<<>>) = 0
    OBVIOUS
  <2>4. /\ msg' \in [Instances -> Seq(Msgs)] /\ file' \in [Instances -> Seq(Msgs)]
        /\ at' \in [Instances -> Nat]
    BY <2>1, <2>3 DEF FilesOK
  <2>5. ASSUME NEW j \in Instances PROVE at'[j] \in 1..Len(file'[j]) + 1
    <3>1. CASE j = i
      <4>1. at'[j] = 1 /\ Len(file'[j]) = 0
        BY <2>1, <2>3, <3>1 DEF FilesOK
      <4> QED BY <4>1
    <3>2. CASE j # i
      BY <2>1, <3>2 DEF FilesOK
    <3> QED BY <3>1, <3>2
  <2>6. FilesOK'
    BY <2>1, <2>4, <2>5 DEF FilesOK
  <2>7. ReadingOK'
    BY <1>0, <2>1, OthersRead DEF FlagsOK
  <2> QED BY <2>2, <2>6, <2>7 DEF MessagesOK
<1>6. CASE Polls(i)
  <2>1. /\ reading' = [reading EXCEPT ![i] = TRUE] /\ iia' = [iia EXCEPT ![i] = FALSE]
        /\ file' = [file EXCEPT ![i] = msg[i]] /\ at' = [at EXCEPT ![i] = 1]
        /\ round[i] = NoRound /\ pc[i] # "down"
        /\ UNCHANGED <<platform, loc, tmsg, msg, round, hangup, no, redo, owed>>
    BY <1>6 DEF Polls, Poll, Quiet, imfiles, imghosts
  <2>2. RoundsOK' /\ OwedOK' /\ FlagsOK'
    BY <2>1 DEF RoundsOK, OwedOK, FlagsOK, Addressee
  <2>3. file' \in [Instances -> Seq(Msgs)] /\ at' \in [Instances -> Nat]
    BY <2>1 DEF FilesOK
  <2>4. ASSUME NEW j \in Instances PROVE at'[j] \in 1..Len(file'[j]) + 1
    <3>1. Len(file'[j]) \in Nat
      BY <2>3
    <3> QED BY <2>1, <3>1 DEF FilesOK
  <2>5. FilesOK'
    BY <2>1, <2>3, <2>4 DEF FilesOK
  <2>6. ReadingOK'
    BY <1>0, <2>1 DEF ReadingOK, FlagsOK
  <2> QED BY <2>2, <2>5, <2>6 DEF MessagesOK
<1> QED BY <1>1, <1>2, <1>3, <1>4, <1>5, <1>6 DEF Serves, Service

\* The commands, the log on and the ends of an instance.
LEMMA MessagesStep ==
  ASSUME IInv, Next
  PROVE  MessagesOK'
<1> PICK i \in Instances : Does(i)
  BY NextCases
<1> USE DEF IInv
<1> "STRING" \in Kinds /\ "SHUTDOWN" \in Kinds
  BY DEF Kinds
<1>1. CASE CleanLook(i)
  <2>1. UNCHANGED imvars /\ \A j \in Instances : reading[j] => pc'[j] = pc[j]
    BY <1>1 DEF CleanLook, At, Free, PlacesOK
  <2> QED BY <2>1, ImvarsKept
<1>2. CASE CleanRemove(i)
  <2>1. UNCHANGED imvars /\ \A j \in Instances : reading[j] => pc'[j] = pc[j]
    BY <1>2 DEF CleanRemove, At, Free, PlacesOK
  <2> QED BY <2>1, ImvarsKept
<1>3. CASE CleanDone(i)
  <2>1. UNCHANGED imvars /\ \A j \in Instances : reading[j] => pc'[j] = pc[j]
    BY <1>3 DEF CleanDone, At, Free, Goes, PlacesOK
  <2> QED BY <2>1, ImvarsKept
<1>4. CASE ChangeChannels(i)
  <2>1. UNCHANGED imvars /\ \A j \in Instances : reading[j] => pc'[j] = pc[j]
    BY <1>4 DEF ChangeChannels, At, Free, Goes, PlacesOK
  <2> QED BY <2>1, ImvarsKept
<1>5. CASE ChooseNot(i)
  <2>1. UNCHANGED imvars /\ \A j \in Instances : reading[j] => pc'[j] = pc[j]
    BY <1>5 DEF ChooseNot, At, Free, Goes, PlacesOK
  <2> QED BY <2>1, ImvarsKept
<1>6. CASE ChooseZero(i)
  <2>1. UNCHANGED imvars /\ \A j \in Instances : reading[j] => pc'[j] = pc[j]
    BY <1>6 DEF ChooseZero, At, Free, Goes, PlacesOK
  <2> QED BY <2>1, ImvarsKept
<1>7. CASE ShutDownSelf(i)
  <2>1. UNCHANGED imvars /\ \A j \in Instances : reading[j] => pc'[j] = pc[j]
    BY <1>7 DEF ShutDownSelf, At, Free, Goes, PlacesOK
  <2> QED BY <2>1, ImvarsKept
<1>8. CASE \E c \in Channels : Choose(i, c)
  <2>1. UNCHANGED imvars /\ \A j \in Instances : reading[j] => pc'[j] = pc[j]
    BY <1>8 DEF Choose, At, Free, Goes, PlacesOK
  <2> QED BY <2>1, ImvarsKept
<1>9. CASE Greet(i)
  <2>1. /\ ~reading[i] /\ UNCHANGED <<transport, loc, iia, hangup>>
        /\ \A j \in Instances \ {i} : pc'[j] = pc[j]
    BY <1>9 DEF Greet, At, Free, Goes, PlacesOK
  <2>2. Available \in SUBSET Locations /\ Begins(i, Available, "STRING")
    BY <1>9, PlaceNames DEF Greet, FilesOK
  <2>3. RoundsOK' /\ OwedOK' /\ \A j \in Instances \ {i} : round'[j] = round[j]
    BY <2>1, <2>2, BeginsAllOK
  <2> QED BY <2>1, <2>3, BeginStep
<1>10. CASE LogOff(i)
  <2>1. /\ ~reading[i] /\ UNCHANGED <<transport, loc, iia, hangup>>
        /\ \A j \in Instances \ {i} : pc'[j] = pc[j]
    BY <1>10 DEF LogOff, At, Free, Goes, PlacesOK
  <2>2. Available \in SUBSET Locations /\ Begins(i, Available, "STRING")
    BY <1>10, PlaceNames DEF LogOff, FilesOK
  <2>3. RoundsOK' /\ OwedOK' /\ \A j \in Instances \ {i} : round'[j] = round[j]
    BY <2>1, <2>2, BeginsAllOK
  <2> QED BY <2>1, <2>3, BeginStep
<1>11. CASE Say(i)
  <2>1. /\ ~reading[i] /\ UNCHANGED <<transport, loc, iia, hangup>>
        /\ \A j \in Instances \ {i} : pc'[j] = pc[j]
    BY <1>11 DEF Say, At, Free, PlacesOK
  <2>2. {loc[i]} \in SUBSET Locations /\ Begins(i, {loc[i]}, "STRING")
    BY <1>11, PlaceNames DEF Say, FilesOK
  <2>3. RoundsOK' /\ OwedOK' /\ \A j \in Instances \ {i} : round'[j] = round[j]
    BY <2>1, <2>2, BeginsAllOK
  <2> QED BY <2>1, <2>3, BeginStep
<1>12. CASE Secure(i)
  <2>1. /\ ~reading[i] /\ UNCHANGED <<transport, loc, iia, hangup>>
        /\ \A j \in Instances \ {i} : pc'[j] = pc[j]
    BY <1>12 DEF Secure, At, Free, PlacesOK
  <2>2. {loc[i]} \in SUBSET Locations /\ Begins(i, {loc[i]}, "STRING")
    BY <1>12, PlaceNames DEF Secure, FilesOK
  <2>3. RoundsOK' /\ OwedOK' /\ \A j \in Instances \ {i} : round'[j] = round[j]
    BY <2>1, <2>2, BeginsAllOK
  <2> QED BY <2>1, <2>3, BeginStep
<1>13. CASE Unsecure(i)
  <2>1. /\ ~reading[i] /\ UNCHANGED <<transport, loc, iia, hangup>>
        /\ \A j \in Instances \ {i} : pc'[j] = pc[j]
    BY <1>13 DEF Unsecure, At, Free, PlacesOK
  <2>2. {loc[i]} \in SUBSET Locations /\ Begins(i, {loc[i]}, "STRING")
    BY <1>13, PlaceNames DEF Unsecure, FilesOK
  <2>3. RoundsOK' /\ OwedOK' /\ \A j \in Instances \ {i} : round'[j] = round[j]
    BY <2>1, <2>2, BeginsAllOK
  <2> QED BY <2>1, <2>3, BeginStep
<1>14. CASE ShutDownAll(i)
  <2>1. /\ ~reading[i] /\ UNCHANGED <<transport, loc, iia, hangup>>
        /\ \A j \in Instances \ {i} : pc'[j] = pc[j]
    BY <1>14 DEF ShutDownAll, At, Free, Goes, PlacesOK
  <2>2. Up \in SUBSET Locations /\ Begins(i, Up, "SHUTDOWN")
    BY <1>14, PlaceNames DEF ShutDownAll, FilesOK
  <2>3. RoundsOK' /\ OwedOK' /\ \A j \in Instances \ {i} : round'[j] = round[j]
    BY <2>1, <2>2, BeginsAllOK
  <2> QED BY <2>1, <2>3, BeginStep
<1>15. CASE Entered(i)
  <2>1. /\ ~reading[i] /\ UNCHANGED <<transport, loc, iia, hangup>>
        /\ \A j \in Instances \ {i} : pc'[j] = pc[j]
    BY <1>15 DEF Entered, At, Free, Goes, PlacesOK
  <2>2. Moving(i)
    BY <1>15 DEF Entered
  <2>3. RoundsOK' /\ OwedOK' /\ \A j \in Instances \ {i} : round'[j] = round[j]
    BY <2>1, <2>2, MovingOK
  <2> QED BY <2>1, <2>3, BeginStep
<1>16. CASE Leaving(i)
  <2>1. /\ ~reading[i] /\ UNCHANGED <<transport, loc, iia, hangup>>
        /\ \A j \in Instances \ {i} : pc'[j] = pc[j]
    BY <1>16 DEF Leaving, At, Free, Goes, PlacesOK
  <2>2. Moving(i)
    BY <1>16 DEF Leaving
  <2>3. RoundsOK' /\ OwedOK' /\ \A j \in Instances \ {i} : round'[j] = round[j]
    BY <2>1, <2>2, MovingOK
  <2> QED BY <2>1, <2>3, BeginStep
<1>17. CASE Exit(i)
  <2>1. /\ ~reading[i] /\ UNCHANGED <<transport, loc, iia, hangup>>
        /\ \A j \in Instances \ {i} : pc'[j] = pc[j]
    BY <1>17 DEF Exit, At, Free, Goes, PlacesOK
  <2>2. Moving(i)
    BY <1>17 DEF Exit
  <2>3. RoundsOK' /\ OwedOK' /\ \A j \in Instances \ {i} : round'[j] = round[j]
    BY <2>1, <2>2, MovingOK
  <2> QED BY <2>1, <2>3, BeginStep
<1>18. CASE \E d \in Instances : Whisper(i, d)
  <2> PICK d \in Instances : Whisper(i, d)
    BY <1>18
  <2>1. /\ ~reading[i] /\ UNCHANGED <<transport, loc, iia, hangup, pc>>
        /\ BeginsTo(i, Locations, "STRING", d, d)
    BY DEF Whisper, At, Free
  <2>2. RoundsOK' /\ OwedOK' /\ \A j \in Instances \ {i} : round'[j] = round[j]
    <3>1. d \in Nat /\ d..d \subseteq Instances
      BY InstanceNumbers
    <3> QED BY <2>1, <3>1, BeginsOK
  <2> QED BY <2>1, <2>2, BeginStep
<1>19. CASE \E d \in Instances : ShutDownOne(i, d)
  <2> PICK d \in Instances : ShutDownOne(i, d)
    BY <1>19
  <2>1. /\ ~reading[i] /\ UNCHANGED <<transport, loc, iia, hangup, pc>>
        /\ BeginsTo(i, Locations, "SHUTDOWN", d, d)
    BY DEF ShutDownOne, At, Free
  <2>2. RoundsOK' /\ OwedOK' /\ \A j \in Instances \ {i} : round'[j] = round[j]
    <3>1. d \in Nat /\ d..d \subseteq Instances
      BY InstanceNumbers
    <3> QED BY <2>1, <3>1, BeginsOK
  <2> QED BY <2>1, <2>2, BeginStep
<1>20. CASE LogOn(i)
  <2>1. ~reading[i]
    BY <1>20 DEF LogOn, At, Free
  <2>2. "main" \in Locations /\ Moves(i, "main")
    BY <1>20, PlaceNames DEF LogOn
  <2>3. /\ UNCHANGED <<transport, round, no>>
        /\ iia' \in [Instances -> BOOLEAN] /\ hangup' \in [Instances -> BOOLEAN]
        /\ \A j \in Instances \ {i} : pc'[j] = pc[j] /\ iia'[j] = iia[j]
    BY <1>20 DEF LogOn, Goes, FlagsOK, PlacesOK
  <2> QED BY <2>1, <2>2, <2>3, MoveStep
<1>21. CASE LoggedOff(i)
  <2>1. ~reading[i]
    BY <1>21 DEF LoggedOff, At, Free
  <2>2. "wfc" \in Locations /\ Moves(i, "wfc")
    BY <1>21, PlaceNames DEF LoggedOff
  <2>3. /\ UNCHANGED <<transport, round, no>>
        /\ iia' \in [Instances -> BOOLEAN] /\ hangup' \in [Instances -> BOOLEAN]
        /\ \A j \in Instances \ {i} : pc'[j] = pc[j] /\ iia'[j] = iia[j]
    BY <1>21 DEF LoggedOff, Goes, FlagsOK, PlacesOK
  <2> QED BY <2>1, <2>2, <2>3, MoveStep
<1>22. CASE Enter(i)
  <2>1. ~reading[i]
    BY <1>22 DEF Enter, At, Free
  <2>2. PICK where \in Locations : Moves(i, where)
    BY <1>22, PlaceNames DEF Enter, PlacesOK
  <2>3. /\ UNCHANGED <<transport, round, no>>
        /\ iia' \in [Instances -> BOOLEAN] /\ hangup' \in [Instances -> BOOLEAN]
        /\ \A j \in Instances \ {i} : pc'[j] = pc[j] /\ iia'[j] = iia[j]
    BY <1>22 DEF Enter, Goes, FlagsOK, PlacesOK
  <2> QED BY <2>1, <2>2, <2>3, MoveStep
<1>23. CASE BackToMenu(i)
  <2>1. ~reading[i]
    BY <1>23 DEF BackToMenu, At, Free
  <2>2. "main" \in Locations /\ Moves(i, "main")
    BY <1>23, PlaceNames DEF BackToMenu
  <2>3. /\ UNCHANGED <<transport, round, no>>
        /\ iia' \in [Instances -> BOOLEAN] /\ hangup' \in [Instances -> BOOLEAN]
        /\ \A j \in Instances \ {i} : pc'[j] = pc[j] /\ iia'[j] = iia[j]
    BY <1>23 DEF BackToMenu, Goes, FlagsOK, PlacesOK
  <2> QED BY <2>1, <2>2, <2>3, MoveStep
<1>24. CASE EnterChat(i)
  <2>1. ~reading[i]
    BY <1>24 DEF EnterChat, At, Free
  <2>2. "chatroom" \in Locations /\ Moves(i, "chatroom")
    BY <1>24, PlaceNames DEF EnterChat
  <2>3. /\ UNCHANGED <<transport, round, no>>
        /\ iia' \in [Instances -> BOOLEAN] /\ hangup' \in [Instances -> BOOLEAN]
        /\ \A j \in Instances \ {i} : pc'[j] = pc[j] /\ iia'[j] = iia[j]
    BY <1>24 DEF EnterChat, Goes, FlagsOK, PlacesOK
  <2> QED BY <2>1, <2>2, <2>3, MoveStep
<1>25. CASE Start(i)
  <2>1. ~reading[i]
    BY <1>25 DEF Start, ReadingOK
  <2>2. "wfc" \in Locations /\ Moves(i, "wfc")
    BY <1>25, PlaceNames DEF Start
  <2>3. /\ UNCHANGED <<transport, round, no>>
        /\ iia' \in [Instances -> BOOLEAN] /\ hangup' \in [Instances -> BOOLEAN]
        /\ \A j \in Instances \ {i} : pc'[j] = pc[j] /\ iia'[j] = iia[j]
    BY <1>25 DEF Start, Goes, FlagsOK, PlacesOK
  <2> QED BY <2>1, <2>2, <2>3, MoveStep
<1>26. CASE Hangup(i)
  BY <1>26 DEF Hangup, transport, FilesOK, FlagsOK, RoundsOK, OwedOK, ReadingOK,
       MessagesOK, Addressee
<1>27. CASE QuitBBS(i)
  <2>1. Ends(i) /\ WriteInst(i, "down") /\ no' = no
        /\ UNCHANGED <<platform, tmsg, msg, iia, redo>>
        /\ \A j \in Instances \ {i} : pc'[j] = pc[j]
    BY <1>27 DEF QuitBBS, Moves, Down, Goes, PlacesOK
  <2>2. round[i] = NoRound
    BY <1>27 DEF QuitBBS, At, Free
  <2>3. round' = round
    BY <2>1, <2>2 DEF Ends, RoundsOK
  <2>4. OwedOK' /\ loc' \in [Instances -> Locations]
    BY <2>1, <2>3, WriteInstOK, PlaceNames
  <2> QED BY <2>1, <2>4, EndsOK, OthersRead DEF FilesOK, FlagsOK, MessagesOK
<1>28. CASE ShutDown(i)
  <2>1. /\ Ends(i) /\ WriteInst(i, "down") /\ no' = no
        /\ msg' = [msg EXCEPT ![i] = <<>>]
        /\ UNCHANGED <<platform, tmsg, iia, redo>>
        /\ \A j \in Instances \ {i} : pc'[j] = pc[j]
    BY <1>28 DEF ShutDown, HandleShutdown, Down, Goes, PlacesOK, NoFile
  <2>2. round[i] = NoRound
    BY <1>28 DEF ShutDown, HandleShutdown, Handles, ReadingOK
  <2>3. round' = round
    BY <2>1, <2>2 DEF Ends, RoundsOK
  <2>4. OwedOK' /\ loc' \in [Instances -> Locations]
    BY <2>1, <2>3, WriteInstOK, PlaceNames
  <2>5. <<>> \in Seq(Msgs)
    OBVIOUS
  <2>6. msg' \in [Instances -> Seq(Msgs)]
    BY <2>1, <2>5 DEF FilesOK
  <2> QED BY <2>1, <2>4, <2>6, EndsOK, OthersRead DEF FilesOK, FlagsOK, MessagesOK
<1>29. CASE Crash(i)
  <2>1. /\ Ends(i) /\ UNCHANGED <<platform, loc, tmsg, msg, iia, no>>
        /\ redo' \in [Instances -> BOOLEAN]
        /\ owed' = [owed EXCEPT ![i] = {}]
        /\ \A j \in Instances \ {i} : pc'[j] = pc[j]
    BY <1>29 DEF Crash, Dies, Down, Goes, PlacesOK, FlagsOK, imfiles
  <2>2. /\ RoundsOK' /\ round'[i] = NoRound
        /\ \A j \in Instances \ {i} : round'[j] = round[j]
    BY <2>1, EndsOK
  <2>3. OwedOK'
    BY <2>1, <2>2 DEF OwedOK, Addressee, NoRound, Round
  <2> QED BY <2>1, <2>2, <2>3, EndsOK, OthersRead DEF FilesOK, FlagsOK, MessagesOK
<1>30. CASE Serves(i) \/ Polls(i)
  BY <1>30, ServesOK
<1> QED BY <1>1, <1>2, <1>3, <1>4, <1>5, <1>6, <1>7, <1>8, <1>9, <1>10, <1>11, <1>12,
     <1>13, <1>14, <1>15, <1>16, <1>17, <1>18, <1>19, <1>20, <1>21, <1>22, <1>23, <1>24,
     <1>25, <1>26, <1>27, <1>28, <1>29, <1>30 DEF Does

-----------------------------------------------------------------------------
(* The theorems.                                                           *)

LEMMA Initially == Init => IInv
<1> SUFFICES ASSUME Init PROVE IInv
  OBVIOUS
<1>0. PICK where \in Locations : InstMsgInit(where)
  BY PlaceNames DEF Init
<1>1. FilesOK
  <2>1. <<>> \in Seq(Msgs) /\ 1 \in 1..0 + 1 /\ Len(<<>>) = 0
    OBVIOUS
  <2>2. \A i \in Instances : file[i] = <<>> /\ at[i] = 1
    BY <1>0 DEF InstMsgInit, NoFile
  <2>3. \A i \in Instances : at[i] \in 1..Len(file[i]) + 1
    BY <2>1, <2>2
  <2>4. tmsg \in [Instances -> [Instances -> Seq(Msgs)]]
    BY <1>0, <2>1 DEF InstMsgInit, NoFile
  <2>5. msg \in [Instances -> Seq(Msgs)] /\ file \in [Instances -> Seq(Msgs)]
    BY <1>0, <2>1 DEF InstMsgInit, NoFile
  <2> QED BY <1>0, <2>3, <2>4, <2>5 DEF InstMsgInit, FilesOK
<1>2. FlagsOK
  BY DEF Init, InstMsgInit, FlagsOK
<1>3. RoundsOK /\ OwedOK
  <2>1. NoRound \in Rounds /\ NoRound.rest = {} /\ ~NoRound.busy
    BY DEF NoRound, Round, Rounds
  <2>2. /\ round = [i \in Instances |-> NoRound] /\ no = [i \in Instances |-> 0]
        /\ owed = [i \in Instances |-> {}]
    BY <1>0 DEF InstMsgInit
  <2> QED BY <2>1, <2>2 DEF RoundsOK, OwedOK
<1>4. PlacesOK
  BY PlaceNames DEF Init, PlacesOK, Places, Thens
<1>5. ReadingOK
  BY DEF Init, InstMsgInit, ReadingOK
<1>6. SecuredOK
  BY DEF Init, SecuredOK
<1>7. ChannelOK
  BY PlaceNames DEF Init, InstMsgInit, ChannelOK, InRoom
<1> QED BY <1>1, <1>2, <1>3, <1>4, <1>5, <1>6, <1>7 DEF IInv

LEMMA Inductive == IInv /\ [Next]_vars => IInv'
<1>1. ASSUME IInv, Next PROVE IInv'
  BY <1>1, MessagesStep, PlacesOKStep, ChannelOKStep, SecuredOKStep DEF IInv, MessagesOK
<1>2. ASSUME IInv, UNCHANGED vars PROVE IInv'
  BY <1>2 DEF IInv, FilesOK, FlagsOK, RoundsOK, OwedOK, PlacesOK, ReadingOK, SecuredOK,
     ChannelOK, InRoom, Addressee, vars, chatvars, imvars, imfiles, imghosts
<1> QED BY <1>1, <1>2

LEMMA Always == Spec => []IInv
<1> QED BY Initially, Inductive, PTL DEF Spec

\* TypeOK: types, a reading position inside the file, and an instance that
\* handles its messages neither looks for more nor is in a loop of its own.
THEOREM TypeCorrect == Spec => []TypeOK
<1>1. IInv => TypeOK
  <2> SUFFICES ASSUME IInv PROVE TypeOK
    OBVIOUS
  <2> USE DEF IInv
  <2>1. InstMsgTypeOK
    <3>1. \A i \in Instances : /\ round[i].for \subseteq Locations
                               /\ round[i].rest \subseteq Instances \ {i}
                               /\ round[i].rest = {} <=> round[i] = NoRound
                               /\ owed[i] \subseteq Instances \ {i}
      BY DEF RoundsOK, Rounds, OwedOK
    <3>2. \A s \in Instances : tmsg[s] \in [Instances -> Seq(Msgs)]
      BY DEF FilesOK
    <3> QED BY <3>1, <3>2 DEF InstMsgTypeOK, FilesOK, FlagsOK, Msgs
  <2>2. pc \in [Instances -> Places] /\ lock \subseteq Rooms
    BY DEF PlacesOK
  <2>3. \A i \in Instances : /\ clean[i] \subseteq Rooms
                             /\ found[i] \in Channels
                             /\ target[i] \in Channels \cup {"channel0"}
    BY DEF PlacesOK
  <2> QED BY <2>1, <2>2, <2>3 DEF TypeOK, ReadingOK
<1> QED BY <1>1, Always, PTL

\* EveryoneTold: out_msg and broadcast (chat.cpp, instmsg.cpp) reach everybody
\* who was where they go when they began, and still is when they are through,
\* though INSTANCE.DAT is read anew for each instance and may change between.
THEOREM ToldWhenThrough == Spec => []EveryoneTold
<1>1. IInv => EveryoneTold
  BY DEF IInv, EveryoneTold, OwedOK, RoundsOK
<1> QED BY <1>1, Always, PTL

\* SecuredKeepsOut: in a channel that is secured is nobody but sysops, those who
\* were there when it was secured, and those check_ch had let in by then.
THEOREM SecuredIsSecure == Spec => []SecuredKeepsOut
<1>1. IInv => SecuredKeepsOut
  BY DEF IInv, SecuredKeepsOut, SecuredOK
<1> QED BY <1>1, Always, PTL
-----------------------------------------------------------------------------
(* Order, and that nothing is lost.                                        *)

\* A set of instance numbers has a smallest.
LEMMA MinOK ==
  ASSUME NEW T \in SUBSET Nat, T # {}
  PROVE  Min(T) \in T
<1>1. OpToRel(<, Nat) = {ss \in Nat \X Nat : ss[1] < ss[2]}
  BY DEF OpToRel
<1>2. PICK x \in T : \A y \in T : ~(<<y, x>> \in OpToRel(<, Nat))
  BY NatLessThanWellFounded, WFMin
<1>3. ASSUME NEW y \in T PROVE x <= y
  <2>1. x \in Nat /\ y \in Nat /\ <<y, x>> \in Nat \X Nat
    OBVIOUS
  <2>2. ~(<<y, x>>[1] < <<y, x>>[2])
    BY <1>1, <1>2, <2>1
  <2> QED BY <2>1, <2>2
<1> QED BY <1>3 DEF Min

\* Those a round has not sent its message to.
Pending(s) == {d \in round[s].rest : ~(round[s].busy /\ d = Addressee(s))}

\* d may have got number n from s: one of an earlier round, or of this one,
\* which has been there.
Stamped(d, s, n) == n < no[s] \/ (n = no[s] /\ d \notin Pending(s))
SentTo(d) == {m \in Msgs : Stamped(d, m.from, m.no)}
SentBy(s, d) == {m \in SentTo(d) : m.from = s}

\* The numbers in the files of d, and those handled last, are of messages sent.
SentOf(d) ==
  /\ last[d] \in [Instances -> Nat]
  /\ msg[d] \in Seq(SentTo(d)) /\ file[d] \in Seq(SentTo(d))
  /\ \A s \in Instances : tmsg[s][d] \in Seq(SentBy(s, d)) /\ Stamped(d, s, last[d][s])

\* In a file the messages of one sender are in the order he sent them.
Rising(q) ==
  \A a, b \in 1..Len(q) : a < b /\ q[a].from = q[b].from => q[a].no < q[b].no

\* What is in q from a on was sent after what d has handled.
FreshFrom(a, q, d) == \A k \in 1..Len(q) : a <= k => last[d][q[k].from] < q[k].no
Fresh(q, d) == FreshFrom(1, q, d)

\* All of q, which s sent, was sent after what of p was sent by s.
After(q, p, s) ==
  \A k \in 1..Len(q), j \in 1..Len(p) : p[j].from = s => p[j].no < q[k].no

\* What waits for a rename by s is newer than what d has or has handled.
WaitsOf(s, d) ==
  /\ Rising(tmsg[s][d]) /\ Fresh(tmsg[s][d], d)
  /\ After(tmsg[s][d], msg[d], s) /\ After(tmsg[s][d], file[d], s)

\* What is still to be read is newer than what has been handled, unless a file
\* was left half handled.
OrderOf(d) ==
  /\ Rising(msg[d]) /\ Rising(file[d])
  /\ ~reading[d] => at[d] = 1
  /\ reading[d] /\ ~redo[d] => FreshFrom(at[d], file[d], d)
  /\ ~redo[d] /\ at[d] = 1 => Fresh(msg[d], d)
  /\ \A s \in Instances : WaitsOf(s, d)

\* A message that is due is in one of the two files.
InFile(x, q) == \E k \in 1..Len(q) : q[k] = x.m
Waits(x) == InFile(x, msg[x.to]) \/ InFile(x, tmsg[x.m.from][x.to])

\* On Windows the file being read stays there; what is due of it is unread.
ReadOf(d) ==
  reading[d] => /\ msg[d] = file[d] /\ msg[d] # <<>>
                /\ \A k \in 1..Len(file[d]) : k < at[d] => Due(d, file[d][k]) \notin due
DueOK ==
  /\ due \subseteq [to : Instances, m : Msgs]
  /\ platform = "posix" => due = {}
  /\ \A x \in due : Waits(x)
  /\ platform = "windows" => \A d \in Instances : ReadOf(d)

LastOK == last \in [Instances -> [Instances -> Nat]]
MInv == LastOK /\ (\A d \in Instances : SentOf(d) /\ OrderOf(d)) /\ DueOK

\* Numbers grow, and within a round there is less and less to do.
Onward ==
  \A s \in Instances : \/ no'[s] \in Nat /\ no'[s] > no[s]
                       \/ no'[s] = no[s] /\ Pending(s)' \subseteq Pending(s)

LEMMA StampsLast ==
  ASSUME IInv, Onward, NEW d \in Instances
  PROVE  /\ \A s \in Instances, n \in Nat : Stamped(d, s, n) => Stamped(d, s, n)'
         /\ SentTo(d) \subseteq SentTo(d)'
         /\ \A s \in Instances : SentBy(s, d) \subseteq SentBy(s, d)'
<1>1. ASSUME NEW s \in Instances, NEW n \in Nat, Stamped(d, s, n)
      PROVE  Stamped(d, s, n)'
  <2>1. no[s] \in Nat
    BY DEF IInv, RoundsOK
  <2>2. CASE no'[s] \in Nat /\ no'[s] > no[s]
    <3>1. n <= no[s]
      BY <1>1, <2>1 DEF Stamped
    <3>2. n < no'[s]
      BY <3>1, <2>1, <2>2
    <3> QED BY <3>2 DEF Stamped
  <2>3. CASE no'[s] = no[s] /\ Pending(s)' \subseteq Pending(s)
    BY <1>1, <2>3 DEF Stamped
  <2> QED BY <2>2, <2>3 DEF Onward
<1>2. SentTo(d) \subseteq SentTo(d)'
  <2>1. ASSUME NEW m \in Msgs, Stamped(d, m.from, m.no)
        PROVE  Stamped(d, m.from, m.no)'
    <3>1. m.from \in Instances /\ m.no \in Nat
      BY DEF Msgs
    <3> QED BY <1>1, <2>1, <3>1
  <2> QED BY <2>1 DEF SentTo
<1>3. \A s \in Instances : SentBy(s, d) \subseteq SentBy(s, d)'
  BY <1>2 DEF SentBy
<1> QED BY <1>1, <1>2, <1>3

\* What was in the files was sent, and still is.
LEMMA FilesLast ==
  ASSUME IInv, Onward, NEW d \in Instances, SentOf(d)
  PROVE  /\ msg[d] \in Seq(SentTo(d)') /\ file[d] \in Seq(SentTo(d)')
         /\ \A s \in Instances : /\ tmsg[s][d] \in Seq(SentBy(s, d)')
                                 /\ tmsg[s][d] \in Seq(SentTo(d)')
                                 /\ \A n \in Nat : n = last[d][s] => Stamped(d, s, n)'
<1>1. SentTo(d) \subseteq SentTo(d)' /\ \A s \in Instances : SentBy(s, d) \subseteq
     SentBy(s, d)'
  BY StampsLast
<1>2. msg[d] \in Seq(SentTo(d)') /\ file[d] \in Seq(SentTo(d)')
  BY <1>1, SeqMonotonic DEF SentOf
<1>3. ASSUME NEW s \in Instances
      PROVE  /\ tmsg[s][d] \in Seq(SentBy(s, d)') /\ tmsg[s][d] \in Seq(SentTo(d)')
             /\ \A n \in Nat : n = last[d][s] => Stamped(d, s, n)'
  <2>1. tmsg[s][d] \in Seq(SentBy(s, d)')
    BY <1>1, SeqMonotonic DEF SentOf
  <2>2. tmsg[s][d] \in Seq(SentTo(d)')
    <3>1. SentBy(s, d)' \subseteq SentTo(d)'
      BY DEF SentBy
    <3> QED BY <2>1, <3>1, SeqMonotonic
  <2>3. \A n \in Nat : n = last[d][s] => Stamped(d, s, n)'
    <3>1. last[d][s] \in Nat /\ Stamped(d, s, last[d][s])
      BY DEF SentOf
    <3>2. \A t \in Instances, n \in Nat : Stamped(d, t, n) => Stamped(d, t, n)'
      BY StampsLast
    <3> QED BY <3>1, <3>2
  <2> QED BY <2>1, <2>2, <2>3
<1> QED BY <1>2, <1>3

\* A step that leaves d's files and d's reading of them alone.
Kept(d) ==
  /\ msg'[d] = msg[d] /\ file'[d] = file[d] /\ at'[d] = at[d]
  /\ reading'[d] = reading[d] /\ redo'[d] = redo[d] /\ last'[d] = last[d]
  /\ \A s \in Instances : tmsg'[s][d] = tmsg[s][d]

LEMMA KeptOK ==
  ASSUME IInv, MInv, Onward, NEW d \in Instances, Kept(d)
  PROVE  SentOf(d)' /\ OrderOf(d)'
<1>1. SentOf(d) /\ OrderOf(d)
  BY DEF MInv
<1>2. SentOf(d)'
  BY <1>1, FilesLast DEF SentOf, Kept
<1>3. OrderOf(d)'
  BY <1>1 DEF OrderOf, Kept, WaitsOf, Fresh, FreshFrom, After, Rising
<1> QED BY <1>2, <1>3

\* A step that leaves the files and the readers alone.
LEMMA QuietOK ==
  ASSUME IInv, MInv, Onward, UNCHANGED transport
  PROVE  MInv'
<1>1. UNCHANGED <<platform, tmsg, msg, reading, file, at, due, last, redo>>
  BY DEF transport
<1>2. \A d \in Instances : SentOf(d)' /\ OrderOf(d)'
  BY <1>1, KeptOK DEF Kept
<1>3. DueOK'
  BY <1>1 DEF MInv, DueOK, Waits, InFile, ReadOf, Due
<1> QED BY <1>1, <1>2, <1>3 DEF MInv, LastOK

\* The rounds of the others, and what a round that is begun, passed on or ended
\* has still to do.
LEMMA OnwardBy ==
  ASSUME IInv, NEW i \in Instances, \A j \in Instances \ {i} : round'[j] = round[j] /\
       no'[j] = no[j],
         \/ no'[i] \in Nat /\ no'[i] > no[i]
         \/ no'[i] = no[i] /\ Pending(i)' \subseteq Pending(i)
  PROVE  Onward
BY DEF Onward, Pending, Addressee

LEMMA BeginsOnward ==
  ASSUME IInv, NEW i \in Instances, NEW places, NEW kind, NEW from, NEW to,
         BeginsTo(i, places, kind, from, to)
  PROVE  Onward
<1>1. /\ no' = [no EXCEPT ![i] = no[i] + 1]
      /\ \A j \in Instances \ {i} : round'[j] = round[j]
  BY DEF BeginsTo, IInv, RoundsOK
<1>2. /\ no'[i] \in Nat /\ no'[i] > no[i]
      /\ \A j \in Instances \ {i} : no'[j] = no[j]
  BY <1>1 DEF IInv, RoundsOK
<1> QED BY <1>1, <1>2, OnwardBy

LEMMA SameOnward ==
  ASSUME IInv, UNCHANGED <<round, no>>
  PROVE  Onward
BY DEF Onward, Pending, Addressee

\* The round of i is over.
LEMMA EndsOnward ==
  ASSUME IInv, NEW i \in Instances, Ends(i), no' = no
  PROVE  Onward
<1>1. /\ round'[i] = NoRound
      /\ \A j \in Instances \ {i} : round'[j] = round[j]
  BY DEF Ends, IInv, RoundsOK
<1>2. Pending(i)' = {}
  BY <1>1 DEF Pending, NoRound, Round
<1> QED BY <1>1, <1>2, OnwardBy

\* The round of i goes on after the addressee, who has been sent the message or
\* is not where it is for.
LEMMA PassedOnward ==
  ASSUME IInv, NEW i \in Instances, round' = Passed(i), no' = no
  PROVE  Onward
<1> DEFINE rest == round[i].rest \ {Addressee(i)}
           r == RoundOver(round[i].for, round[i].kind, rest)
<1>1. round' = [round EXCEPT ![i] = r]
  BY DEF Passed
<1>2. r.rest = rest
  BY RoundOverIs
<1> HIDE DEF r
<1>3. round'[i] = r /\ \A j \in Instances \ {i} : round'[j] = round[j]
  BY <1>1 DEF IInv, RoundsOK
<1>4. Pending(i)' \subseteq Pending(i)
  BY <1>2, <1>3 DEF Pending
<1> QED BY <1>3, <1>4, OnwardBy

\* The commands and the places of the users do not touch the files.
LEMMA CommandsOK ==
  ASSUME IInv, MInv, NEW i \in Instances, Does(i),
         ~(Serves(i) \/ Polls(i) \/ ShutDown(i) \/ Crash(i) \/ QuitBBS(i))
  PROVE  MInv'
<1>1. UNCHANGED transport
  BY DEF Does, LogOn, Greet, LogOff, LoggedOff, CleanLook, CleanRemove, CleanDone,
       Enter, Entered, Leaving, BackToMenu, Exit, ChooseNot, ChooseZero, EnterChat, Say,
       Secure, Unsecure, ChangeChannels, ShutDownAll, ShutDownSelf, Start, Choose,
       Whisper, ShutDownOne, Hangup, imvars, imfiles, imghosts, transport
<1>2. \/ UNCHANGED <<round, no>>
      \/ \E places, kind, from, to : BeginsTo(i, places, kind, from, to)
  BY DEF Does, Moving, Moves, WriteInst, Begins, LogOn, Greet, LogOff, LoggedOff,
       CleanLook, CleanRemove, CleanDone, Enter, Entered, Leaving, BackToMenu, Exit,
       ChooseNot, ChooseZero, EnterChat, Say, Secure, Unsecure, ChangeChannels,
       ShutDownAll, ShutDownSelf, Start, Choose, Whisper, ShutDownOne, Hangup, imvars,
       imfiles, imghosts
<1>3. Onward
  BY <1>2, BeginsOnward, SameOnward
<1> QED BY <1>1, <1>3, QuietOK

\* SentOf and OrderOf of one instance, and DueOK, give MInv.
LEMMA OneChanged ==
  ASSUME IInv, MInv, Onward, NEW d \in Instances,
         \A e \in Instances \ {d} : Kept(e),
         LastOK', SentOf(d)', OrderOf(d)', DueOK'
  PROVE  MInv'
BY KeptOK DEF MInv

\* The addressee of a round is one of those it goes to.
LEMMA AddresseeOK ==
  ASSUME IInv, NEW i \in Instances, round[i].rest # {}
  PROVE  Addressee(i) \in round[i].rest /\ Addressee(i) \in Instances
<1>1. round[i].rest \subseteq Instances
  BY DEF IInv, RoundsOK, Rounds
<1>2. round[i].rest \in SUBSET Nat
  BY <1>1, InstanceNumbers
<1>3. Addressee(i) \in round[i].rest
  BY <1>2, MinOK DEF Addressee
<1> QED BY <1>1, <1>3

\* The elements of a sequence.
LEMMA Elements ==
  ASSUME NEW S, NEW q \in Seq(S), NEW k \in 1..Len(q)
  PROVE  q[k] \in S
OBVIOUS

\* A message newer than those of its sender, at the end.
LEMMA AppendOK ==
  ASSUME NEW q \in Seq(Msgs), NEW m \in Msgs, Rising(q),
         \A k \in 1..Len(q) : q[k].from = m.from => q[k].no < m.no
  PROVE  /\ Rising(Append(q, m))
         /\ Len(Append(q, m)) = Len(q) + 1 /\ Append(q, m)[Len(q) + 1] = m
         /\ \A k \in 1..Len(q) : Append(q, m)[k] = q[k]
         /\ \A k \in 1..Len(q) + 1 : k \in 1..Len(q) \/ k = Len(q) + 1
<1> DEFINE r == Append(q, m)
<1>1. /\ Len(r) = Len(q) + 1 /\ r[Len(q) + 1] = m
      /\ \A k \in 1..Len(q) : r[k] = q[k]
      /\ \A k \in 1..Len(q) + 1 : k \in 1..Len(q) \/ k = Len(q) + 1
      /\ Len(q) \in Nat
  OBVIOUS
<1> HIDE DEF r
<1>2. ASSUME NEW a \in 1..Len(r), NEW b \in 1..Len(r), a < b, r[a].from = r[b].from
      PROVE  r[a].no < r[b].no
  <2>1. a \in 1..Len(q)
    BY <1>1, <1>2
  <2>2. CASE b \in 1..Len(q)
    BY <1>1, <1>2, <2>1, <2>2 DEF Rising
  <2>3. CASE b = Len(q) + 1
    BY <1>1, <1>2, <2>1, <2>3
  <2> QED BY <1>1, <2>2, <2>3
<1>3. Rising(r)
  BY <1>2 DEF Rising
<1> QED BY <1>1, <1>3 DEF r

\* What waits for a rename is not touched, nor what it is compared with.
LEMMA WaitsKept ==
  ASSUME NEW d, NEW s, WaitsOf(s, d), tmsg'[s][d] = tmsg[s][d],
         msg'[d] = msg[d], file'[d] = file[d], last'[d] = last[d]
  PROVE  WaitsOf(s, d)'
BY DEF WaitsOf, Fresh, FreshFrom, After, Rising

\* The same, when nothing is in the file.
LEMMA NothingWaits ==
  ASSUME NEW d, NEW s, tmsg[s][d] = <<>>
  PROVE  WaitsOf(s, d)
<1>1. 1..Len(tmsg[s][d]) = {}
  OBVIOUS
<1> QED BY <1>1 DEF WaitsOf, Fresh, FreshFrom, After, Rising

-----------------------------------------------------------------------------
(* Sending.                                                                *)

\* Who is still to be sent a message of this round has none of it.
LEMMA PendingNew ==
  ASSUME IInv, MInv, NEW i \in Instances, NEW d \in Pending(i), d \in Instances
  PROVE  /\ last[d][i] < no[i]
         /\ \A k \in 1..Len(msg[d]) : msg[d][k].from = i => msg[d][k].no < no[i]
         /\ \A k \in 1..Len(file[d]) : file[d][k].from = i => file[d][k].no < no[i]
         /\ \A k \in 1..Len(tmsg[i][d]) : tmsg[i][d][k].no < no[i]
<1>1. SentOf(d)
  BY DEF MInv
<1>2. \A n \in Nat : Stamped(d, i, n) => n < no[i]
  BY DEF Stamped
<1>3. last[d][i] < no[i]
  BY <1>1, <1>2 DEF SentOf
<1>4. ASSUME NEW q \in Seq(SentTo(d)), NEW k \in 1..Len(q), q[k].from = i
      PROVE  q[k].no < no[i]
  <2>1. q[k] \in SentTo(d)
    BY Elements
  <2> QED BY <1>2, <1>4, <2>1 DEF SentTo, Msgs
<1>5. ASSUME NEW k \in 1..Len(tmsg[i][d])
      PROVE  tmsg[i][d][k].no < no[i]
  <2>1. tmsg[i][d] \in Seq(SentBy(i, d))
    BY <1>1 DEF SentOf
  <2>2. tmsg[i][d][k] \in SentBy(i, d)
    BY <2>1, Elements
  <2> QED BY <1>2, <2>2 DEF SentBy, SentTo, Msgs
<1>6. msg[d] \in Seq(SentTo(d)) /\ file[d] \in Seq(SentTo(d))
  BY <1>1 DEF SentOf
<1> QED BY <1>3, <1>4, <1>5, <1>6

LEMMA SendToKeeps ==
  ASSUME IInv, MInv, NEW i \in Instances, SendTo(i)
  PROVE  MInv'
<1>0. Addressee(i) \in round[i].rest /\ Addressee(i) \in Instances
  BY AddresseeOK DEF SendTo, Sending
<1>1. PICK d \in Instances : d = Addressee(i) /\ d \in round[i].rest
  BY <1>0
<1>2. PICK m \in Msgs : /\ m = Message(i, no[i], round[i].kind)
                        /\ m.from = i /\ m.no = no[i] /\ no[i] \in Nat
  BY DEF IInv, RoundsOK, SendTo, Sending, Msgs, Message, NoRound, Round
<1>00. PICK q : q = tmsg[i][d]
  OBVIOUS
<1>3. /\ UNCHANGED <<platform, msg, reading, file, at, no, last, redo>>
      /\ due' = IF platform = "windows" THEN due \cup {Due(d, m)} ELSE due
  BY <1>1, <1>2 DEF SendTo
<1>4. \A s \in Instances, e \in Instances :
        tmsg'[s][e] = IF s = i /\ e = d THEN Append(q, m) ELSE tmsg[s][e]
  <2>1. tmsg' = [tmsg EXCEPT ![i] = [tmsg[i] EXCEPT ![d] = Append(q, m)]]
    BY <1>1, <1>2, <1>00 DEF SendTo, Appended, IInv, FilesOK
  <2> QED BY <2>1 DEF IInv, FilesOK
<1>5. /\ round'[i].rest = round[i].rest /\ round'[i].busy /\ ~round[i].busy
      /\ \A j \in Instances \ {i} : round'[j] = round[j]
  BY DEF SendTo, Sending, IInv, RoundsOK, Rounds
<1>6. d \in Pending(i) /\ d \notin Pending(i)'
  BY <1>1, <1>5 DEF Pending, Addressee
<1>7. Onward
  <2>1. Pending(i)' \subseteq Pending(i)
    BY <1>5 DEF Pending, Addressee
  <2> QED BY <1>3, <1>5, <2>1, OnwardBy
<1>8. q \in Seq(Msgs) /\ msg[d] \in Seq(Msgs) /\ file[d] \in Seq(Msgs)
  BY <1>1, <1>00 DEF IInv, FilesOK
<1>9. /\ last[d][i] < no[i]
      /\ \A k \in 1..Len(msg[d]) : msg[d][k].from = i => msg[d][k].no < no[i]
      /\ \A k \in 1..Len(file[d]) : file[d][k].from = i => file[d][k].no < no[i]
      /\ \A k \in 1..Len(q) : q[k].no < no[i]
  BY <1>1, <1>00, <1>6, PendingNew
<1>10. SentOf(d) /\ OrderOf(d)
  BY <1>1 DEF MInv
<1>11. \A e \in Instances \ {d} : Kept(e)
  BY <1>3, <1>4 DEF Kept
<1>12. SentOf(d)'
  <2>1. m \in SentBy(i, d)'
    BY <1>2, <1>3, <1>6 DEF SentBy, SentTo, Stamped
  <2>2. q \in Seq(SentBy(i, d)')
    BY <1>00, <1>7, <1>10, FilesLast
  <2>3. Append(q, m) \in Seq(SentBy(i, d)')
    BY <2>1, <2>2
  <2>4. \A s \in Instances : tmsg'[s][d] \in Seq(SentBy(s, d)')
    BY <1>1, <1>4, <1>7, <1>10, <2>3, FilesLast
  <2>5. msg'[d] \in Seq(SentTo(d)') /\ file'[d] \in Seq(SentTo(d)')
    BY <1>1, <1>3, <1>7, <1>10, FilesLast
  <2>6. /\ last'[d] \in [Instances -> Nat]
        /\ \A s \in Instances : Stamped(d, s, last[d][s])'
    BY <1>1, <1>3, <1>7, <1>10, FilesLast DEF SentOf
  <2> QED BY <2>4, <2>5, <2>6 DEF SentOf
<1>13. /\ Rising(Append(q, m)) /\ Len(Append(q, m)) = Len(q) + 1
       /\ Append(q, m)[Len(q) + 1] = m /\ \A k \in 1..Len(q) : Append(q, m)[k] = q[k]
       /\ \A k \in 1..Len(q) + 1 : k \in 1..Len(q) \/ k = Len(q) + 1
       /\ Len(q) \in Nat
  <2>1. Rising(q)
    BY <1>00, <1>10 DEF OrderOf, WaitsOf
  <2>2. Len(q) \in Nat
    BY <1>8
  <2> QED BY <1>2, <1>8, <1>9, <2>1, <2>2, AppendOK
<1>14. OrderOf(d)'
  <2>1. /\ Rising(msg'[d]) /\ Rising(file'[d])
        /\ ~reading'[d] => at'[d] = 1
        /\ reading'[d] /\ ~redo'[d] => FreshFrom(at[d], file[d], d)'
        /\ ~redo'[d] /\ at'[d] = 1 => Fresh(msg[d], d)'
    BY <1>3, <1>10 DEF OrderOf, Fresh, FreshFrom
  <2>2. ASSUME NEW s \in Instances, s # i PROVE WaitsOf(s, d)'
    <3>1. tmsg'[s][d] = tmsg[s][d] /\ WaitsOf(s, d)
      BY <1>1, <1>4, <1>10, <2>2 DEF OrderOf
    <3> QED BY <1>3, <3>1, WaitsKept
  <2>3. WaitsOf(i, d)'
    <3>1. tmsg'[i][d] = Append(q, m)
      BY <1>1, <1>4
    <3>2. WaitsOf(i, d)
      BY <1>10 DEF OrderOf
    <3> DEFINE r == Append(q, m)
    <3>3. Len(r) = Len(q) + 1 /\ \A k \in 1..Len(r) : (k \in 1..Len(q) /\ r[k] = q[k])
         \/ r[k] = m
      BY <1>13
    <3> HIDE DEF r
    <3>4. \A k \in 1..Len(r) : last[d][r[k].from] < r[k].no
      <4>1. \A k \in 1..Len(q) : last[d][q[k].from] < q[k].no
        BY <1>00, <3>2 DEF WaitsOf, Fresh, FreshFrom
      <4> QED BY <1>2, <1>9, <3>3, <4>1
    <3>5. After(r, msg[d], i) /\ After(r, file[d], i)
      BY <1>00, <1>2, <1>9, <3>2, <3>3 DEF WaitsOf, After
    <3>6. tmsg'[i][d] = r /\ Rising(r)
      BY <1>13, <3>1 DEF r
    <3> QED BY <1>3, <3>4, <3>5, <3>6 DEF WaitsOf, Fresh, FreshFrom, After, Rising
  <2> QED BY <1>3, <2>1, <2>2, <2>3 DEF OrderOf, Fresh, FreshFrom
<1>15. DueOK'
  <2>0. DueOK
    BY DEF MInv
  <2>1. CASE platform = "posix"
    BY <1>3, <2>0, <2>1 DEF DueOK
  <2>2. CASE platform = "windows"
    <3>1. due' = due \cup {Due(d, m)} /\ Due(d, m) = [to |-> d, m |-> m]
      BY <1>3, <2>2 DEF Due
    <3>2. due' \subseteq [to : Instances, m : Msgs]
      BY <1>1, <1>2, <2>0, <3>1 DEF DueOK
    <3>3. ASSUME NEW x \in due' PROVE Waits(x)'
      <4>1. CASE x \in due
        <5>1. x.to \in Instances /\ x.m.from \in Instances
          BY <2>0, <4>1 DEF DueOK, Msgs
        <5>2. CASE InFile(x, msg[x.to])
          BY <1>3, <5>2 DEF Waits, InFile
        <5>3. CASE InFile(x, tmsg[x.m.from][x.to])
          <6>1. PICK k \in 1..Len(tmsg[x.m.from][x.to]) : tmsg[x.m.from][x.to][k] = x.m
            BY <5>3 DEF InFile
          <6>2. CASE x.m.from = i /\ x.to = d
            <7>1. k \in 1..Len(Append(q, m)) /\ Append(q, m)[k] = x.m
              BY <1>00, <1>13, <6>1, <6>2
            <7> QED BY <1>4, <5>1, <6>2, <7>1 DEF Waits, InFile
          <6>3. CASE ~(x.m.from = i /\ x.to = d)
            BY <1>4, <5>1, <6>1, <6>3 DEF Waits, InFile
          <6> QED BY <6>2, <6>3
        <5> QED BY <2>0, <4>1, <5>2, <5>3 DEF DueOK, Waits
      <4>2. CASE x = Due(d, m)
        <5>1. x.to = d /\ x.m = m /\ x.m.from = i
          BY <1>2, <3>1, <4>2
        <5>2. Len(q) + 1 \in 1..Len(Append(q, m))
          BY <1>13
        <5>3. tmsg'[x.m.from][x.to] = Append(q, m)
          BY <1>1, <1>4, <5>1
        <5> QED BY <1>13, <5>1, <5>2, <5>3 DEF Waits, InFile
      <4> QED BY <3>1, <4>1, <4>2
    <3>4. ASSUME NEW e \in Instances PROVE ReadOf(e)'
      <4>1. ReadOf(e)
        BY <2>0, <2>2 DEF DueOK
      <4>2. ASSUME NEW k \in 1..Len(file[e]) PROVE Due(e, file[e][k]) # Due(d, m)
        <5>1. SUFFICES ASSUME e = d, file[e][k] = m PROVE FALSE
          BY DEF Due
        <5> QED BY <1>2, <1>9, <5>1
      <4> QED BY <1>3, <3>1, <4>1, <4>2 DEF ReadOf
    <3> QED BY <1>3, <2>2, <3>2, <3>3, <3>4 DEF DueOK
  <2> QED BY <2>1, <2>2 DEF IInv, FilesOK
<1>16. LastOK'
  BY <1>3 DEF MInv, LastOK
<1> QED BY <1>1, <1>7, <1>11, <1>12, <1>14, <1>15, <1>16, OneChanged

LEMMA SkipKeeps ==
  ASSUME IInv, MInv, NEW i \in Instances, Skip(i)
  PROVE  MInv'
<1>1. UNCHANGED transport /\ round' = Passed(i) /\ no' = no
  BY DEF Skip, imfiles, imghosts, transport
<1> QED BY <1>1, PassedOnward, QuietOK

LEMMA RenameTmsgKeeps ==
  ASSUME IInv, MInv, NEW i \in Instances, RenameTmsg(i)
  PROVE  MInv'
<1>0. round[i].rest # {}
  BY DEF RenameTmsg, IInv, RoundsOK, NoRound, Round
<1>1. PICK d \in Instances : d = Addressee(i) /\ d \in round[i].rest
  BY <1>0, AddresseeOK
<1>2. PICK q : q = tmsg[i][d]
  OBVIOUS
<1>3. /\ UNCHANGED <<platform, reading, file, at, no, last, due, redo>>
      /\ round' = Passed(i)
  BY DEF RenameTmsg, imghosts
<1>4. Onward
  BY <1>3, PassedOnward
<1>5. SentOf(d) /\ OrderOf(d) /\ DueOK /\ WaitsOf(i, d)
  BY DEF MInv, OrderOf
<1>6. CASE ~Renames(d)
  BY <1>1, <1>3, <1>4, <1>6, QuietOK DEF RenameTmsg, transport
<1>7. CASE Renames(d)
  <2>1. /\ msg' = [msg EXCEPT ![d] = q]
        /\ tmsg' = [tmsg EXCEPT ![i][d] = <<>>]
    BY <1>1, <1>2, <1>7 DEF RenameTmsg, NoFile
  <2>2. \A s \in Instances, e \in Instances :
          tmsg'[s][e] = IF s = i /\ e = d THEN <<>> ELSE tmsg[s][e]
    <3>1. tmsg' = [tmsg EXCEPT ![i] = [tmsg[i] EXCEPT ![d] = <<>>]]
      BY <2>1 DEF IInv, FilesOK
    <3> QED BY <3>1 DEF IInv, FilesOK
  <2>3. msg'[d] = q /\ \A e \in Instances \ {d} : msg'[e] = msg[e]
    BY <2>1 DEF IInv, FilesOK
  <2>4. \A e \in Instances \ {d} : Kept(e)
    BY <1>3, <2>2, <2>3 DEF Kept
  <2>5. SentOf(d)'
    <3>1. /\ file[d] \in Seq(SentTo(d)')
          /\ \A s \in Instances : /\ tmsg[s][d] \in Seq(SentBy(s, d)')
                                  /\ tmsg[s][d] \in Seq(SentTo(d)')
                                  /\ \A n \in Nat : n = last[d][s] => Stamped(d, s, n)'
      BY <1>4, <1>5, FilesLast
    <3>2. \A S : <<>> \in Seq(S)
      OBVIOUS
    <3>3. \A s \in Instances : tmsg'[s][d] \in Seq(SentBy(s, d)')
      BY <2>2, <3>1, <3>2
    <3>4. last' = last /\ last[d] \in [Instances -> Nat]
      BY <1>3, <1>5 DEF SentOf
    <3>5. \A s \in Instances : Stamped(d, s, last[d][s])'
      BY <3>1, <3>4
    <3> QED BY <1>2, <1>3, <2>3, <3>1, <3>3, <3>4, <3>5 DEF SentOf
  <2>6. \A k \in 1..Len(q) : q[k].from = i /\ q[k] \in Msgs
    <3>1. q \in Seq(SentBy(i, d))
      BY <1>2, <1>5 DEF SentOf
    <3>2. ASSUME NEW k \in 1..Len(q) PROVE q[k] \in SentBy(i, d)
      BY <3>1, Elements
    <3> QED BY <3>2 DEF SentBy, SentTo
  <2>7. OrderOf(d)'
    <3>1. Rising(q) /\ Fresh(q, d)
      BY <1>2, <1>5 DEF WaitsOf
    <3>2. /\ Rising(msg'[d]) /\ Rising(file'[d])
          /\ ~reading'[d] => at'[d] = 1
          /\ reading'[d] /\ ~redo'[d] => FreshFrom(at[d], file[d], d)'
      BY <1>3, <1>5, <2>3, <3>1 DEF OrderOf, FreshFrom, Rising
    <3>3. Fresh(msg[d], d)'
      BY <1>3, <2>3, <3>1 DEF Fresh, FreshFrom
    <3>4. ASSUME NEW s \in Instances PROVE WaitsOf(s, d)'
      <4>1. CASE s = i
        <5>1. tmsg'[s][d] = <<>>
          BY <2>2, <4>1
        <5>2. 1..Len(tmsg'[s][d]) = {}
          BY <5>1
        <5> QED BY <5>2 DEF WaitsOf, Fresh, FreshFrom, After, Rising
      <4>2. CASE s # i
        <5>1. tmsg'[s][d] = tmsg[s][d] /\ WaitsOf(s, d)
          BY <1>5, <2>2, <4>2 DEF OrderOf
        <5>2. After(tmsg[s][d], msg[d], s)'
          BY <2>3, <2>6, <4>2 DEF After
        <5> QED BY <1>3, <5>1, <5>2 DEF WaitsOf, Fresh, FreshFrom, After, Rising
      <4> QED BY <4>1, <4>2
    <3> QED BY <1>3, <3>2, <3>3, <3>4 DEF OrderOf
  <2>8. DueOK'
    <3>1. CASE platform = "posix"
      BY <1>3, <1>5, <3>1 DEF DueOK
    <3>2. CASE platform = "windows"
      <4>1. msg[d] = <<>>
        BY <1>7, <3>2 DEF Renames, NoFile
      <4>2. ~reading[d]
        BY <1>5, <3>2, <4>1 DEF DueOK, ReadOf
      <4>3. ASSUME NEW x \in due PROVE Waits(x)'
        <5>1. x.to \in Instances /\ x.m.from \in Instances /\ Waits(x)
          BY <1>5 DEF DueOK, Msgs
        <5>2. CASE InFile(x, msg[x.to])
          <6>1. x.to # d
            BY <4>1, <5>2 DEF InFile
          <6> QED BY <2>3, <5>1, <5>2, <6>1 DEF Waits, InFile
        <5>3. CASE InFile(x, tmsg[x.m.from][x.to])
          <6>1. CASE x.m.from = i /\ x.to = d
            BY <1>2, <2>3, <5>3, <6>1 DEF Waits, InFile
          <6>2. CASE ~(x.m.from = i /\ x.to = d)
            BY <2>2, <5>1, <5>3, <6>2 DEF Waits, InFile
          <6> QED BY <6>1, <6>2
        <5> QED BY <5>1, <5>2, <5>3 DEF Waits
      <4>4. ASSUME NEW e \in Instances PROVE ReadOf(e)'
        BY <1>3, <1>5, <2>3, <3>2, <4>2 DEF DueOK, ReadOf, Due
      <4> QED BY <1>3, <1>5, <3>2, <4>3, <4>4 DEF DueOK
    <3> QED BY <3>1, <3>2 DEF IInv, FilesOK
  <2>9. LastOK'
    BY <1>3 DEF MInv, LastOK
  <2> QED BY <1>4, <2>4, <2>5, <2>7, <2>8, <2>9, OneChanged
<1> QED BY <1>6, <1>7

-----------------------------------------------------------------------------
(* Reading.                                                                *)

\* A message is heard: it was sent, and what waits for the reader from its
\* sender is newer.
LEMMA Heard ==
  ASSUME IInv, MInv, NEW i \in Instances, Handles(i), Hears(i)
  PROVE  /\ LastOK' /\ at[i] \in 1..Len(file[i])
         /\ \A e \in Instances \ {i} : last'[e] = last[e]
         /\ \E m \in Msgs : /\ m = file[i][at[i]] /\ Stamped(i, m.from, m.no)
                            /\ last'[i] = [last[i] EXCEPT ![m.from] = m.no]
         /\ \A s \in Instances : \A k \in 1..Len(tmsg[s][i]) :
              last'[i][tmsg[s][i][k].from] < tmsg[s][i][k].no
<1>1. SentOf(i) /\ OrderOf(i) /\ LastOK
  BY DEF MInv
<1>2. at[i] \in 1..Len(file[i])
  BY DEF Handles, IInv, FilesOK
<1>3. file[i][at[i]] \in SentTo(i)
  BY <1>1, <1>2, Elements DEF SentOf
<1>4. PICK m \in Msgs : m = file[i][at[i]] /\ Stamped(i, m.from, m.no)
  BY <1>3 DEF SentTo
<1>5. m.from \in Instances /\ m.no \in Nat
  BY DEF Msgs
<1>6. last' = [last EXCEPT ![i] = [last[i] EXCEPT ![m.from] = m.no]]
  BY <1>1, <1>4 DEF Hears, LastOK
<1>7. /\ LastOK' /\ last'[i] = [last[i] EXCEPT ![m.from] = m.no]
      /\ \A e \in Instances \ {i} : last'[e] = last[e]
  BY <1>1, <1>5, <1>6 DEF LastOK
<1>8. ASSUME NEW s \in Instances, NEW k \in 1..Len(tmsg[s][i])
      PROVE  last'[i][tmsg[s][i][k].from] < tmsg[s][i][k].no
  <2>1. tmsg[s][i][k] \in SentBy(s, i)
    BY <1>1, Elements DEF SentOf
  <2>2. tmsg[s][i][k].from = s
    BY <2>1 DEF SentBy
  <2>3. last[i][s] < tmsg[s][i][k].no /\ (m.from = s => m.no < tmsg[s][i][k].no)
    <3>1. WaitsOf(s, i)
      BY <1>1 DEF OrderOf
    <3>2. k \in Nat /\ 1 <= k
      OBVIOUS
    <3> QED BY <1>2, <1>4, <2>2, <3>1, <3>2 DEF WaitsOf, Fresh, FreshFrom, After
  <2> QED BY <1>1, <1>5, <1>7, <2>2, <2>3 DEF LastOK
<1> QED BY <1>2, <1>4, <1>7, <1>8

LEMMA HandleStringKeeps ==
  ASSUME IInv, MInv, NEW i \in Instances, HandleString(i)
  PROVE  MInv'
<1>1. /\ UNCHANGED <<platform, tmsg, msg, round, reading, file, no, redo>>
      /\ due' = due \ {Due(i, file[i][at[i]])}
      /\ Handles(i) /\ Hears(i)
  BY DEF HandleString, imfiles
<1>2. at'[i] = at[i] + 1 /\ at[i] \in Nat /\ \A e \in Instances \ {i} : at'[e] = at[e]
  BY DEF HandleString, IInv, FilesOK
<1>3. Onward
  BY <1>1, SameOnward
<1>4. /\ LastOK' /\ at[i] \in 1..Len(file[i])
      /\ \A e \in Instances \ {i} : last'[e] = last[e]
      /\ \A s \in Instances : \A k \in 1..Len(tmsg[s][i]) :
           last'[i][tmsg[s][i][k].from] < tmsg[s][i][k].no
  BY <1>1, Heard
<1>5. PICK m \in Msgs : /\ m = file[i][at[i]] /\ Stamped(i, m.from, m.no)
                        /\ last'[i] = [last[i] EXCEPT ![m.from] = m.no]
  BY <1>1, Heard
<1>6. \A e \in Instances \ {i} : Kept(e)
  BY <1>1, <1>2, <1>4 DEF Kept
<1>7. SentOf(i) /\ OrderOf(i) /\ DueOK /\ LastOK
  BY DEF MInv
<1>8. m.from \in Instances /\ m.no \in Nat
  BY DEF Msgs
<1>9. SentOf(i)'
  <2>1. /\ msg[i] \in Seq(SentTo(i)') /\ file[i] \in Seq(SentTo(i)')
        /\ \A s \in Instances : /\ tmsg[s][i] \in Seq(SentBy(s, i)')
                                /\ \A n \in Nat : n = last[i][s] => Stamped(i, s, n)'
    BY <1>3, <1>7, FilesLast
  <2>2. Stamped(i, m.from, m.no)'
    BY <1>3, <1>5, <1>8, StampsLast
  <2>3. last'[i] \in [Instances -> Nat] /\ last[i] \in [Instances -> Nat]
    BY <1>4, <1>7 DEF LastOK
  <2>4. ASSUME NEW s \in Instances PROVE Stamped(i, s, last[i][s])'
    <3>1. CASE s = m.from
      BY <1>5, <2>2, <2>3, <3>1
    <3>2. CASE s # m.from
      <4>1. last'[i][s] = last[i][s]
        BY <1>5, <2>3, <3>2
      <4> QED BY <2>1, <2>3, <4>1
    <3> QED BY <3>1, <3>2
  <2> QED BY <1>1, <2>1, <2>3, <2>4 DEF SentOf
<1>10. OrderOf(i)'
  <2>1. /\ Rising(msg'[i]) /\ Rising(file'[i]) /\ reading'[i] /\ at'[i] # 1
    BY <1>1, <1>2, <1>4, <1>7 DEF OrderOf, Rising, Handles
  <2>2. ASSUME ~redo[i] PROVE FreshFrom(at[i], file[i], i)'
    <3>1. FreshFrom(at[i], file[i], i)
      BY <1>1, <1>7, <2>2 DEF OrderOf, Handles
    <3>2. ASSUME NEW k \in 1..Len(file[i]), at[i] + 1 <= k
          PROVE  last'[i][file[i][k].from] < file[i][k].no
      <4>1. at[i] < k /\ at[i] <= k
        BY <1>2, <3>2
      <4>2. file[i][k] \in Msgs
        BY <1>7, Elements DEF SentOf, SentTo
      <4>3. file[i][k].from \in Instances /\ file[i][k].no \in Nat
        BY <4>2 DEF Msgs
      <4>4. CASE file[i][k].from = m.from
        <5>1. m.no < file[i][k].no
          BY <1>4, <1>5, <1>7, <4>1, <4>4 DEF OrderOf, Rising
        <5>2. last'[i][m.from] = m.no
          BY <1>5, <1>7, <1>8 DEF LastOK
        <5> QED BY <4>4, <5>1, <5>2
      <4>5. CASE file[i][k].from # m.from
        <5>1. last'[i][file[i][k].from] = last[i][file[i][k].from]
          BY <1>5, <1>7, <4>3, <4>5 DEF LastOK
        <5> QED BY <3>1, <4>1, <5>1 DEF FreshFrom
      <4> QED BY <4>4, <4>5
    <3> QED BY <1>1, <1>2, <3>2 DEF FreshFrom
  <2>3. ASSUME NEW s \in Instances PROVE WaitsOf(s, i)'
    <3>1. WaitsOf(s, i)
      BY <1>7 DEF OrderOf
    <3>2. Fresh(tmsg[s][i], i)'
      BY <1>1, <1>4 DEF Fresh, FreshFrom
    <3> QED BY <1>1, <3>1, <3>2 DEF WaitsOf, After, Rising
  <2> QED BY <1>1, <2>1, <2>2, <2>3 DEF OrderOf
<1>11. DueOK'
  <2>1. due' \subseteq due /\ Due(i, m) \notin due'
    BY <1>1, <1>5
  <2>2. ASSUME NEW x \in due' PROVE Waits(x)'
    BY <1>1, <1>7, <2>1 DEF DueOK, Waits, InFile
  <2>3. ASSUME NEW e \in Instances, ReadOf(e) PROVE ReadOf(e)'
    <3>1. CASE e # i
      BY <1>1, <1>2, <2>1, <2>3, <3>1 DEF ReadOf, Due
    <3>2. CASE e = i
      <4>1. ASSUME NEW k \in 1..Len(file[i]), k < at[i] + 1
            PROVE  Due(i, file[i][k]) \notin due'
        <5>1. k < at[i] \/ k = at[i]
          BY <1>2, <4>1
        <5> QED BY <1>1, <1>5, <2>1, <2>3, <3>2, <5>1 DEF ReadOf, Handles
      <4>2. msg[i] = file[i] /\ msg[i] # <<>>
        BY <1>1, <2>3, <3>2 DEF ReadOf, Handles
      <4> QED BY <1>1, <1>2, <3>2, <4>1, <4>2 DEF ReadOf, Due
    <3> QED BY <3>1, <3>2
  <2> QED BY <1>1, <1>7, <2>1, <2>2, <2>3 DEF DueOK
<1> QED BY <1>3, <1>4, <1>6, <1>9, <1>10, <1>11, OneChanged

\* i is through with its file, or is down: it has nothing open, and what it
\* leaves is a file not begun or none.
LEMMA ClosedKeeps ==
  ASSUME IInv, MInv, Onward, NEW i \in Instances,
         UNCHANGED <<platform, tmsg>>, Closes(i), LastOK', redo' \in [Instances ->
              BOOLEAN],
         msg'[i] = msg[i] \/ msg'[i] = <<>>,
         \A e \in Instances \ {i} : /\ msg'[e] = msg[e] /\ redo'[e] = redo[e]
                                    /\ last'[e] = last[e],
         \A s \in Instances : Stamped(i, s, last[i][s])',
         \A s \in Instances : Fresh(tmsg[s][i], i)',
         ~redo'[i] => Fresh(msg[i], i)',
         due' \subseteq due,
         \A x \in due' : x.to = i /\ InFile(x, msg[i]) => InFile(x, msg[i])'
  PROVE  MInv'
<1>1. /\ ~reading'[i] /\ file'[i] = <<>> /\ at'[i] = 1
      /\ \A e \in Instances \ {i} : /\ reading'[e] = reading[e] /\ file'[e] = file[e]
                                    /\ at'[e] = at[e]
  BY DEF Closes, IInv, FilesOK, FlagsOK, NoFile
<1>2. \A e \in Instances \ {i} : Kept(e)
  BY <1>1 DEF Kept
<1>3. SentOf(i) /\ OrderOf(i) /\ DueOK
  BY DEF MInv
<1>4. SentOf(i)'
  <2>1. /\ msg[i] \in Seq(SentTo(i)')
        /\ \A s \in Instances : tmsg[s][i] \in Seq(SentBy(s, i)')
    BY <1>3, FilesLast
  <2>2. \A S : <<>> \in Seq(S)
    OBVIOUS
  <2> QED BY <1>1, <2>1, <2>2 DEF SentOf, LastOK
<1>5. OrderOf(i)'
  <2>1. Rising(<<>>) /\ 1..Len(<<>>) = {}
    <3>1. 1..Len(<<>>) = {}
      OBVIOUS
    <3> QED BY <3>1 DEF Rising
  <2>2. Rising(msg'[i]) /\ Rising(file'[i])
    BY <1>1, <1>3, <2>1 DEF OrderOf
  <2>3. ASSUME NEW s \in Instances PROVE WaitsOf(s, i)'
    <3>1. WaitsOf(s, i)
      BY <1>3 DEF OrderOf
    <3>2. After(tmsg[s][i], msg[i], s)' /\ After(tmsg[s][i], file[i], s)'
      BY <1>1, <2>1, <3>1 DEF WaitsOf, After
    <3> QED BY <3>1, <3>2 DEF WaitsOf, Rising
  <2> QED BY <1>1, <2>2, <2>3 DEF OrderOf
<1>6. DueOK'
  <2>1. ASSUME NEW x \in due' PROVE Waits(x)'
    <3>1. Waits(x) /\ x.to \in Instances
      BY <1>3 DEF DueOK
    <3>2. CASE x.to = i
      BY <3>1, <3>2 DEF Waits, InFile
    <3>3. CASE x.to # i
      BY <3>1, <3>3 DEF Waits, InFile
    <3> QED BY <3>2, <3>3
  <2>2. ASSUME NEW e \in Instances, ReadOf(e) PROVE ReadOf(e)'
    <3>1. CASE e = i
      BY <1>1, <3>1 DEF ReadOf
    <3>2. CASE e # i
      BY <1>1, <2>2, <3>2 DEF ReadOf, Due
    <3> QED BY <3>1, <3>2
  <2> QED BY <1>3, <2>1, <2>2 DEF DueOK
<1> QED BY <1>2, <1>4, <1>5, <1>6, OneChanged

\* What i has handled does not change, nor what was sent to it.
LEMMA LastKept ==
  ASSUME IInv, MInv, Onward, NEW i \in Instances, UNCHANGED <<tmsg, last>>
  PROVE  /\ LastOK'
         /\ \A s \in Instances : Stamped(i, s, last[i][s])' /\ Fresh(tmsg[s][i], i)'
<1>1. SentOf(i) /\ OrderOf(i) /\ LastOK
  BY DEF MInv
<1>2. \A s \in Instances : \A n \in Nat : n = last[i][s] => Stamped(i, s, n)'
  BY <1>1, FilesLast
<1>3. ASSUME NEW s \in Instances PROVE Stamped(i, s, last[i][s])'
  BY <1>1, <1>2 DEF LastOK
<1>4. ASSUME NEW s \in Instances PROVE Fresh(tmsg[s][i], i)'
  BY <1>1 DEF OrderOf, WaitsOf, Fresh, FreshFrom
<1> QED BY <1>1, <1>3, <1>4 DEF LastOK

LEMMA ShutDownKeeps ==
  ASSUME IInv, MInv, NEW i \in Instances, ShutDown(i)
  PROVE  MInv'
<1>1. /\ UNCHANGED <<platform, tmsg, no, redo>> /\ Handles(i) /\ Hears(i) /\ Ends(i)
      /\ due' = due \ {Due(i, file[i][k]) : k \in at[i]..Len(file[i])}
      /\ msg' = [msg EXCEPT ![i] = <<>>]
  BY DEF ShutDown, HandleShutdown, NoFile
<1>2. msg'[i] = <<>> /\ \A e \in Instances \ {i} : msg'[e] = msg[e]
  BY <1>1 DEF IInv, FilesOK
<1>3. Onward
  BY <1>1, EndsOnward
<1>4. /\ LastOK' /\ at[i] \in 1..Len(file[i])
      /\ \A e \in Instances \ {i} : last'[e] = last[e]
      /\ \A s \in Instances : \A k \in 1..Len(tmsg[s][i]) :
           last'[i][tmsg[s][i][k].from] < tmsg[s][i][k].no
  BY <1>1, Heard
<1>5. PICK m \in Msgs : /\ m = file[i][at[i]] /\ Stamped(i, m.from, m.no)
                        /\ last'[i] = [last[i] EXCEPT ![m.from] = m.no]
  BY <1>1, Heard
<1>6. SentOf(i) /\ DueOK /\ LastOK /\ m.from \in Instances /\ m.no \in Nat
  BY DEF MInv, Msgs
<1>7. \A s \in Instances : Stamped(i, s, last[i][s])'
  <2>1. \A s \in Instances : \A n \in Nat : n = last[i][s] => Stamped(i, s, n)'
    BY <1>3, <1>6, FilesLast
  <2>2. Stamped(i, m.from, m.no)'
    BY <1>3, <1>5, <1>6, StampsLast
  <2>3. ASSUME NEW s \in Instances PROVE Stamped(i, s, last[i][s])'
    <3>0. last'[i] \in [Instances -> Nat] /\ last[i] \in [Instances -> Nat]
      BY <1>4, <1>6 DEF LastOK
    <3>1. CASE s = m.from
      BY <1>5, <2>2, <3>0, <3>1
    <3>2. CASE s # m.from
      <4>1. last'[i][s] = last[i][s]
        BY <1>5, <3>0, <3>2
      <4> QED BY <2>1, <3>0, <4>1
    <3> QED BY <3>1, <3>2
  <2> QED BY <2>3
<1>8. \A s \in Instances : Fresh(tmsg[s][i], i)'
  BY <1>1, <1>4 DEF Fresh, FreshFrom
<1>9. Fresh(msg[i], i)'
  <2>1. 1..Len(msg'[i]) = {}
    BY <1>2
  <2> QED BY <2>1 DEF Fresh, FreshFrom
<1>10. ASSUME NEW x \in due', x.to = i, InFile(x, msg[i])
       PROVE  InFile(x, msg[i])'
  <2>1. platform = "windows" /\ x \in due
    BY <1>1, <1>6, <1>10 DEF DueOK, IInv, FilesOK
  <2>2. PICK k \in 1..Len(msg[i]) : msg[i][k] = x.m
    BY <1>10 DEF InFile
  <2>3. /\ msg[i] = file[i]
        /\ \A j \in 1..Len(file[i]) : j < at[i] => Due(i, file[i][j]) \notin due
    BY <1>1, <1>6, <2>1 DEF DueOK, ReadOf, Handles
  <2>4. x = Due(i, file[i][k])
    BY <1>6, <1>10, <2>1, <2>2, <2>3 DEF DueOK, Due
  <2>5. k \in at[i]..Len(file[i])
    BY <1>4, <2>1, <2>2, <2>3, <2>4
  <2> QED BY <1>1, <1>10, <2>4, <2>5
<1>11. due' \subseteq due /\ Closes(i) /\ redo' \in [Instances -> BOOLEAN]
  BY <1>1 DEF Ends, IInv, FlagsOK
<1> QED BY <1>1, <1>2, <1>3, <1>4, <1>7, <1>8, <1>9, <1>10, <1>11, ClosedKeeps

LEMMA DeleteFileKeeps ==
  ASSUME IInv, MInv, NEW i \in Instances, DeleteFile(i)
  PROVE  MInv'
<1>1. /\ UNCHANGED <<platform, tmsg, round, no, due, last, redo>> /\ Closes(i)
      /\ msg' = [msg EXCEPT ![i] = <<>>] /\ reading[i] /\ at[i] > Len(file[i])
  BY DEF DeleteFile, NoFile, imghosts
<1>2. msg'[i] = <<>> /\ \A e \in Instances \ {i} : msg'[e] = msg[e]
  BY <1>1 DEF IInv, FilesOK
<1>3. Onward
  BY <1>1, SameOnward
<1>4. /\ LastOK'
      /\ \A s \in Instances : Stamped(i, s, last[i][s])' /\ Fresh(tmsg[s][i], i)'
  BY <1>1, <1>3, LastKept
<1>5. Fresh(msg[i], i)'
  <2>1. 1..Len(msg'[i]) = {}
    BY <1>2
  <2> QED BY <2>1 DEF Fresh, FreshFrom
<1>6. ASSUME NEW x \in due', x.to = i, InFile(x, msg[i])
      PROVE  InFile(x, msg[i])'
  <2>0. DueOK
    BY DEF MInv
  <2>1. platform = "windows" /\ x \in due
    BY <1>1, <1>6, <2>0 DEF DueOK, IInv, FilesOK
  <2>2. PICK k \in 1..Len(msg[i]) : msg[i][k] = x.m
    BY <1>6 DEF InFile
  <2>3. /\ msg[i] = file[i]
        /\ \A j \in 1..Len(file[i]) : j < at[i] => Due(i, file[i][j]) \notin due
    BY <1>1, <2>0, <2>1 DEF DueOK, ReadOf
  <2>4. x = Due(i, file[i][k])
    BY <1>6, <2>0, <2>1, <2>2, <2>3 DEF DueOK, Due
  <2>5. k < at[i]
    BY <1>1, <2>2, <2>3 DEF IInv, FilesOK
  <2> QED BY <2>1, <2>2, <2>3, <2>4, <2>5
<1>7. redo' \in [Instances -> BOOLEAN]
  BY <1>1 DEF IInv, FlagsOK
<1> QED BY <1>1, <1>2, <1>3, <1>4, <1>5, <1>6, <1>7, ClosedKeeps

\* The process ends outside of process_inst_msgs, or the plug is pulled.
LEMMA EndKeeps ==
  ASSUME IInv, MInv, NEW i \in Instances, Ends(i),
         UNCHANGED <<platform, tmsg, msg, no, due, last>>,
         redo' = [redo EXCEPT ![i] = @ \/ (reading[i] /\ at[i] > 1)]
  PROVE  MInv'
<1>1. Onward
  BY EndsOnward
<1>2. /\ LastOK'
      /\ \A s \in Instances : Stamped(i, s, last[i][s])' /\ Fresh(tmsg[s][i], i)'
  BY <1>1, LastKept
<1>3. /\ redo' \in [Instances -> BOOLEAN]
      /\ \A e \in Instances \ {i} : redo'[e] = redo[e]
      /\ ~redo'[i] => ~redo[i] /\ ~(reading[i] /\ at[i] > 1)
  BY Zenon DEF IInv, FlagsOK
<1>4. ASSUME ~redo'[i] PROVE Fresh(msg[i], i)'
  <2>1. OrderOf(i) /\ at[i] \in 1..Len(file[i]) + 1
    BY DEF MInv, IInv, FilesOK
  <2>2. ~redo[i] /\ at[i] = 1
    BY <1>3, <1>4, <2>1 DEF OrderOf
  <2> QED BY <2>1, <2>2 DEF OrderOf, Fresh, FreshFrom
<1>5. \A x \in due' : x.to = i /\ InFile(x, msg[i]) => InFile(x, msg[i])'
  BY DEF InFile
<1>6. Closes(i)
  BY DEF Ends
<1> QED BY <1>1, <1>2, <1>3, <1>4, <1>5, <1>6, ClosedKeeps

LEMMA CrashKeeps ==
  ASSUME IInv, MInv, NEW i \in Instances, Crash(i)
  PROVE  MInv'
<1>1. /\ Ends(i) /\ UNCHANGED <<platform, tmsg, msg, no, due, last>>
      /\ redo' = [redo EXCEPT ![i] = @ \/ (reading[i] /\ at[i] > 1)]
  BY DEF Crash, Dies, imfiles
<1> QED BY <1>1, EndKeeps

LEMMA QuitBBSKeeps ==
  ASSUME IInv, MInv, NEW i \in Instances, QuitBBS(i)
  PROVE  MInv'
<1>1. /\ Ends(i) /\ UNCHANGED <<platform, tmsg, msg, no, due, last, redo>>
      /\ ~reading[i]
  BY DEF QuitBBS, At, Free
<1>2. redo = [redo EXCEPT ![i] = redo[i]] /\ redo[i] \in BOOLEAN
  BY DEF IInv, FlagsOK
<1>3. (redo[i] \/ (reading[i] /\ at[i] > 1)) = redo[i]
  BY <1>1, <1>2, Zenon
<1>4. redo' = [redo EXCEPT ![i] = @ \/ (reading[i] /\ at[i] > 1)]
  BY <1>1, <1>2, <1>3
<1> QED BY <1>1, <1>4, EndKeeps

LEMMA PollKeeps ==
  ASSUME IInv, MInv, NEW i \in Instances, Polls(i)
  PROVE  MInv'
<1>1. /\ UNCHANGED <<platform, tmsg, msg, round, no, due, last, redo>>
      /\ file' = [file EXCEPT ![i] = msg[i]] /\ at' = [at EXCEPT ![i] = 1]
      /\ reading' = [reading EXCEPT ![i] = TRUE]
      /\ iia[i] /\ msg[i] # <<>>
  BY DEF Polls, Poll, MayPoll, NoFile, imfiles, imghosts
<1>2. /\ file'[i] = msg[i] /\ at'[i] = 1 /\ reading'[i]
      /\ \A e \in Instances \ {i} : /\ file'[e] = file[e] /\ at'[e] = at[e]
                                    /\ reading'[e] = reading[e]
  BY <1>1 DEF IInv, FilesOK, FlagsOK
<1>3. ~reading[i]
  BY <1>1 DEF IInv, ReadingOK
<1>4. Onward
  BY <1>1, SameOnward
<1>5. SentOf(i) /\ OrderOf(i) /\ DueOK
  BY DEF MInv
<1>6. \A e \in Instances \ {i} : Kept(e)
  BY <1>1, <1>2 DEF Kept
<1>7. /\ LastOK'
      /\ \A s \in Instances : Stamped(i, s, last[i][s])' /\ Fresh(tmsg[s][i], i)'
  BY <1>1, <1>4, LastKept
<1>8. SentOf(i)'
  <2>1. /\ msg[i] \in Seq(SentTo(i)')
        /\ \A s \in Instances : tmsg[s][i] \in Seq(SentBy(s, i)')
    BY <1>4, <1>5, FilesLast
  <2> QED BY <1>1, <1>2, <1>7, <2>1 DEF SentOf, LastOK
<1>9. OrderOf(i)'
  <2>1. /\ Rising(msg[i]) /\ at[i] = 1 /\ (~redo[i] => Fresh(msg[i], i))
    BY <1>3, <1>5 DEF OrderOf
  <2>2. Rising(msg'[i]) /\ Rising(file'[i])
    BY <1>1, <1>2, <2>1 DEF Rising
  <2>3. ~redo'[i] => FreshFrom(at[i], file[i], i)' /\ Fresh(msg[i], i)'
    BY <1>1, <1>2, <2>1 DEF Fresh, FreshFrom
  <2>4. ASSUME NEW s \in Instances PROVE WaitsOf(s, i)'
    <3>1. WaitsOf(s, i)
      BY <1>5 DEF OrderOf
    <3>2. After(tmsg[s][i], msg[i], s)' /\ After(tmsg[s][i], file[i], s)'
      BY <1>1, <1>2, <3>1 DEF WaitsOf, After
    <3>3. Rising(tmsg[s][i])'
      BY <1>1, <3>1 DEF WaitsOf, Rising
    <3> QED BY <1>7, <3>2, <3>3 DEF WaitsOf
  <2> QED BY <1>2, <2>2, <2>3, <2>4 DEF OrderOf
<1>10. DueOK'
  <2>1. \A x \in due' : Waits(x)'
    BY <1>1, <1>5 DEF DueOK, Waits, InFile
  <2>2. ASSUME NEW e \in Instances, ReadOf(e) PROVE ReadOf(e)'
    <3>1. CASE e = i
      BY <1>1, <1>2, <3>1 DEF ReadOf
    <3>2. CASE e # i
      BY <1>1, <1>2, <2>2, <3>2 DEF ReadOf, Due
    <3> QED BY <3>1, <3>2
  <2> QED BY <1>1, <1>5, <2>1, <2>2 DEF DueOK
<1> QED BY <1>4, <1>6, <1>7, <1>8, <1>9, <1>10, OneChanged

-----------------------------------------------------------------------------
(* Every step.                                                             *)

LEMMA MessagesInit == Init => MInv
<1> SUFFICES ASSUME Init PROVE MInv
  OBVIOUS
<1>1. PICK where : InstMsgInit(where)
  BY DEF Init
<1>2. /\ platform \in {"windows", "posix"} /\ due = {}
      /\ LastOK /\ \A d, s \in Instances : last[d][s] = 0
      /\ \A d \in Instances :
           /\ msg[d] = <<>> /\ file[d] = <<>> /\ at[d] = 1
           /\ ~reading[d] /\ round[d].rest = {} /\ no[d] = 0
           /\ \A s \in Instances : tmsg[s][d] = <<>>
  BY <1>1 DEF InstMsgInit, NoFile, NoRound, Round, LastOK
<1>3. 1..Len(<<>>) = {} /\ \A S : <<>> \in Seq(S)
  OBVIOUS
<1>4. ASSUME NEW d \in Instances PROVE SentOf(d)
  <2>1. \A s \in Instances : Stamped(d, s, last[d][s])
    BY <1>2 DEF Stamped, Pending
  <2> QED BY <1>2, <1>3, <2>1 DEF SentOf, LastOK
<1>5. ASSUME NEW d \in Instances PROVE OrderOf(d)
  <2>1. \A s \in Instances : WaitsOf(s, d)
    BY <1>2, NothingWaits
  <2> QED BY <1>2, <1>3, <2>1 DEF OrderOf, Rising, Fresh, FreshFrom
<1>6. DueOK
  BY <1>2 DEF DueOK, ReadOf
<1> QED BY <1>2, <1>4, <1>5, <1>6 DEF MInv

LEMMA MessagesNext == IInv /\ MInv /\ [Next]_vars => MInv'
<1> SUFFICES ASSUME IInv, MInv, [Next]_vars PROVE MInv'
  OBVIOUS
<1>1. CASE Next
  <2>1. PICK i \in Instances : Does(i)
    BY <1>1, NextCases
  <2>2. CASE Serves(i)
    BY <2>2, SendToKeeps, SkipKeeps, RenameTmsgKeeps, HandleStringKeeps, DeleteFileKeeps
       DEF Serves, Service
  <2>3. CASE ~Serves(i)
    BY <2>1, <2>3, PollKeeps, ShutDownKeeps, CrashKeeps, QuitBBSKeeps, CommandsOK
  <2> QED BY <2>2, <2>3
<1>2. CASE UNCHANGED vars
  <2>1. UNCHANGED transport /\ UNCHANGED <<round, no>>
    BY <1>2 DEF vars, imvars, imfiles, imghosts, transport
  <2> QED BY <2>1, SameOnward, QuietOK
<1> QED BY <1>1, <1>2

\* On Windows no message is lost by the way send_inst_msg and process_inst_msgs
\* use the two files, wherever the instances die.
THEOREM NeverLost == Spec => []NothingLost
<1>1. IInv /\ MInv => NothingLost
  <2> SUFFICES ASSUME IInv, MInv, NEW x \in due
               PROVE  x.m \in Range(msg[x.to]) \cup Range(tmsg[x.m.from][x.to])
    BY DEF NothingLost
  <2>1. x.to \in Instances /\ x.m.from \in Instances /\ Waits(x)
    BY DEF MInv, DueOK, Msgs
  <2>2. msg[x.to] \in Seq(Msgs) /\ tmsg[x.m.from][x.to] \in Seq(Msgs)
    BY <2>1 DEF IInv, FilesOK
  <2>3. \A q \in Seq(Msgs) : InFile(x, q) => x.m \in Range(q)
    BY DEF InFile, Range
  <2> QED BY <2>1, <2>2, <2>3 DEF Waits
<1>2. Spec => []IInv
  BY Always
<1> QED BY <1>1, <1>2, MessagesInit, MessagesNext, PTL DEF Spec

\* The messages of one instance are handled in the order they were sent in, and
\* none twice, but for a file whose reader died in the middle of it.
THEOREM HandledInOrder == Spec => InOrder
<1> DEFINE A == \A d \in Instances : (at'[d] = at[d] + 1 /\ ~redo[d])
                  => LET m == file[d][at[d]] IN m.no > last[d][m.from]
<1>1. ASSUME IInv, MInv, Next PROVE A
  <2>1. PICK i \in Instances : Does(i)
    BY <1>1, NextCases
  <2>2. CASE HandleString(i)
    <3>1. /\ Handles(i) /\ OrderOf(i) /\ at[i] \in 1..Len(file[i])
          /\ \A e \in Instances \ {i} : at'[e] = at[e]
      BY <1>1, <2>2 DEF HandleString, MInv, Handles, IInv, FilesOK
    <3>2. ~redo[i] => last[i][file[i][at[i]].from] < file[i][at[i]].no
      BY <3>1 DEF OrderOf, FreshFrom, Handles
    <3>3. LastOK /\ file[i][at[i]] \in Msgs
      BY <1>1, <3>1, Elements DEF MInv, IInv, FilesOK
    <3>4. \A d \in Instances : at[d] \in Nat
      BY <1>1 DEF IInv, FilesOK
    <3>5. ~redo[i] => file[i][at[i]].no > last[i][file[i][at[i]].from]
      BY <3>2, <3>3 DEF LastOK, Msgs
    <3> QED BY <3>1, <3>4, <3>5
  <2>3. CASE ~HandleString(i)
    <3>1. at' = at \/ at' = [at EXCEPT ![i] = 1]
      BY <2>1, <2>3 DEF Does, Serves, Service, SendTo, Skip, RenameTmsg, DeleteFile,
         Closes, Polls, Poll, HandleShutdown, Ends, Dies, LogOn, Greet, LogOff,
              LoggedOff, CleanLook, CleanRemove, CleanDone, Enter, Entered, Leaving,
              BackToMenu, QuitBBS, Exit, ChooseNot, ChooseZero, ShutDown, EnterChat,
              Say, Secure, Unsecure, ChangeChannels, ShutDownAll, ShutDownSelf, Start,
              Choose, Whisper, ShutDownOne, Hangup, Crash,
         imvars, imfiles, imghosts, transport
    <3>2. \A d \in Instances : at[d] \in Nat /\ at[d] >= 1
      BY <1>1 DEF IInv, FilesOK
    <3>3. at \in [Instances -> Nat]
      BY <1>1 DEF IInv, FilesOK
    <3>4. \A d \in Instances : at'[d] # at[d] + 1
      BY <3>1, <3>2, <3>3
    <3> QED BY <3>4
  <2> QED BY <2>2, <2>3
<1>2. IInv /\ MInv /\ [Next]_vars => [A]_vars
  BY <1>1
<1>3. Spec => []IInv
  BY Always
<1>4. InOrder <=> [][A]_vars
  BY DEF InOrder
<1> QED BY <1>2, <1>3, MessagesInit, MessagesNext, PTL DEF Spec, InOrder
=============================================================================
