------------------------------- MODULE StatusMgr -------------------------------
(***************************************************************************)
(* The data the running instances (nodes) of one BBS share through         *)
(* STATUS.DAT: the Q-scan pointer that numbers the posts, the counters of  *)
(* the day, the date of the last daily maintenance, and the change flags   *)
(* by which an instance learns that a file it has cached (here NAMES.LST,  *)
(* class Names of the SDK) was written by another one.                     *)
(*                                                                         *)
(* StatusMgr (bbs/status.cpp) gives every instance a cache, the global     *)
(* record status, and transactions: BeginTransaction opens the file for    *)
(* writing, reads it into the cache and leaves it open, the caller changes *)
(* the cache through a WStatus, CommitTransaction writes the whole record  *)
(* back and closes.  The share mode of the open file is the only lock.     *)
(***************************************************************************)
EXTENDS Integers, Sequences, FiniteSets, FiniteSetsExt, SequencesExt

CONSTANTS
  Instances,   \* the nodes of the BBS
  Users,       \* the user records (USER.LST) that may be entered in NAMES.LST
  FirstUsers,  \* the users NAMES.LST holds at the start
  NoUser,      \* the argument of an operation that has none
  FlagMod,     \* values of a change flag: a char, 256
  Exclusive,   \* opening for writing keeps other instances out (Windows)
  MayGiveUp,   \* File::Open may run out of its TRIES
  LogSize,     \* the records of ZLOG.DAT: 97
  MaxOps, MaxDay, MaxCrashes   \* bounds

ASSUME UsersAssumption ==
  FirstUsers \subseteq Users /\ IsFiniteSet(Users) /\ NoUser \notin Users
ASSUME FlagAssumption == FlagMod \in Nat \ {0}
ASSUME LogAssumption == LogSize \in Nat \ {0}
ASSUME SwitchAssumption == Exclusive \in BOOLEAN /\ MayGiveUp \in BOOLEAN
ASSUME BoundAssumption == MaxOps \in Nat /\ MaxDay \in Nat /\ MaxCrashes \in Nat

VARIABLES
  file,          \* the record in STATUS.DAT
  status,        \* status[i]: the global record status of instance i
  m_statusFile,  \* the instances that have STATUS.DAT open for a transaction
  namesLst,      \* the users in NAMES.LST
  claimed,       \* the users with a record in USER.LST
  names,         \* names[i]: the users in the Names object of instance i
  zlog,          \* ZLOG.DAT: LogSize entries, one per day, the newest first
  pc,            \* pc[i]: where instance i is
  op,            \* op[i]: the operation whose transaction it is in
  today,         \* what date() answers
  ops, crashes,  \* transactions begun, instances crashed: bounded
  version,       \* ghost: how often the flag of NAMES.LST was incremented
  seen,          \* ghost: version when instance i last read STATUS.DAT
  posts,         \* ghost: the Q-scan numbers given to posts, in order
  registered,    \* ghost: users entered in NAMES.LST and not deleted since
  logons,        \* ghost: logons[d]: the logons counted while the date was d
  spoiled        \* ghost: the exceptional events that have happened

disk == <<file, namesLst, claimed, zlog>>
bounds == <<ops, crashes>>
ghosts == <<version, seen, posts, registered, logons, spoiled>>
vars == <<disk, status, m_statusFile, names, pc, op, today, bounds, ghosts>>

\* A statusrec: the change flag of NAMES.LST, the number of users, the next
\* Q-scan number, the calls of the day and the date they belong to.
StatusRec(flag, users, qscanptr, callstoday, date1) ==
  [flag |-> flag, users |-> users, qscanptr |-> qscanptr,
   callstoday |-> callstoday, date1 |-> date1]

ZeroStatus == StatusRec(0, 0, 0, 0, 0)  \* the global before it is first read

\* An entry of ZLOG.DAT; the log is created with blank ones.
Blank == [date |-> -1, calls |-> 0]
LogIndex == 1 .. LogSize
BlankLog == [k \in LogIndex |-> Blank]

Op(kind, user) == [kind |-> kind, user |-> user]
Xinit == Op("xinit", NoUser)
Ops ==
  [kind : {"post", "logon", "beginday"}, user : {NoUser}]
    \cup [kind : {"InsertSmallRecord", "DeleteSmallRecord"}, user : Users]

Init ==
  /\ file = StatusRec(0, Cardinality(FirstUsers), 2, 0, 0)
  /\ status = [i \in Instances |-> ZeroStatus]
  /\ m_statusFile = {}
  /\ namesLst = FirstUsers /\ claimed = FirstUsers
  /\ names = [i \in Instances |-> {}]
  /\ zlog = BlankLog
  /\ pc = [i \in Instances |-> "down"]
  /\ op = [i \in Instances |-> Xinit]
  /\ today = 0
  /\ ops = 0 /\ crashes = 0
  /\ version = 0 /\ seen = [i \in Instances |-> 0]
  /\ posts = <<>> /\ registered = FirstUsers
  /\ logons = [d \in 0 .. MaxDay |-> 0] /\ spoiled = {}

-----------------------------------------------------------------------------
(* StatusMgr.                                                              *)

\* File::Open, without the retries: whether STATUS.DAT can be opened by i.
CanOpenAlways(i) == TRUE  \* mutant: the share mode is not passed on
CanOpen(i) == Exclusive => m_statusFile \subseteq {i}

\* StatusMgr::Get once the file is open: the cache is replaced by what the
\* file holds, and a flag that differs makes the instance load NAMES.LST if
\* it has a Names object by then: names() is null while it is starting.
FlagChangedNever(i) == FALSE  \* mutant: the flags are not compared
FlagChanged(i) == status[i].flag # file.flag
Get(i, load, then) ==
  /\ status' = [status EXCEPT ![i] = file]
  /\ pc' = [pc EXCEPT ![i] = IF FlagChanged(i) /\ @ # "start" THEN load ELSE then]
  /\ seen' = [seen EXCEPT ![i] = version]
  /\ spoiled' = IF pc[i] # "start" /\ version # seen[i] /\ status[i].flag = file.flag
                  THEN spoiled \cup {"slept"} ELSE spoiled

\* RefreshStatusCache, and GetStatus, which only returns the cache as well.
RefreshStatusCache(i) ==
  /\ pc[i] = "idle" /\ CanOpen(i)
  /\ Get(i, "load", "idle")
  /\ UNCHANGED <<disk, m_statusFile, names, op, today, bounds,
                 version, posts, registered, logons>>

\* NAMES.LST is open only while Names::Save writes it and Names::Load reads it.
CanOpenNames(i) == Exclusive => \A j \in Instances \ {i} : pc[j] # "write"

\* Names::Load, called by Get after the file was read.
Load(i) ==
  /\ pc[i] \in {"load", "loadTx"} /\ CanOpenNames(i)
  /\ names' = [names EXCEPT ![i] = namesLst]
  /\ pc' = [pc EXCEPT ![i] = IF @ = "load" THEN "idle" ELSE "tx"]
  /\ UNCHANGED <<disk, status, m_statusFile, op, today, bounds, ghosts>>

\* It returns false, which Get does not look at, when NAMES.LST cannot be
\* opened: the copy stays as it is, and the cache has the new flag.
LoadFails(i) ==
  /\ MayGiveUp
  /\ pc[i] \in {"load", "loadTx"}
  /\ pc' = [pc EXCEPT ![i] = IF @ = "load" THEN "idle" ELSE "tx"]
  /\ spoiled' = spoiled \cup {"notLoaded"}
  /\ UNCHANGED <<disk, status, m_statusFile, names, op, today, bounds,
                 version, seen, posts, registered, logons>>

\* Between BeginTransaction and CommitTransaction.
InTransaction(i) == pc[i] \in {"loadTx", "tx", "write", "zlog", "commit"}

\* When an operation is started.  A free record of USER.LST is claimed for a
\* user before its name is entered.  Whether one may be deleted was decided on a
\* user record read earlier: it may be gone by now.  beginday is called when
\* the cached date is not today's.
Wanted(i, o) ==
  CASE o.kind = "InsertSmallRecord" -> o.user \notin claimed
    [] o.kind = "beginday" -> status[i].date1 # today
    [] OTHER -> TRUE

Begins(i, o) ==
  /\ pc[i] = IF o = Xinit THEN "start" ELSE "idle"
  /\ Wanted(i, o)
  /\ ops < MaxOps
  /\ ops' = ops + 1
  /\ op' = [op EXCEPT ![i] = o]
  /\ claimed' = IF o.kind = "InsertSmallRecord" THEN claimed \cup {o.user} ELSE claimed

BeginTransaction(i, o) ==
  /\ Begins(i, o) /\ CanOpen(i)
  /\ m_statusFile' = m_statusFile \cup {i}
  /\ Get(i, "loadTx", "tx")
  /\ UNCHANGED <<file, namesLst, zlog, names, today, crashes,
                 version, posts, registered, logons>>

\* File::Open fails for good: Get returns false, which nobody looks at, and
\* the transaction goes on with the record that was in the cache.
BeginGivesUp(i, o) ==
  /\ MayGiveUp
  /\ Begins(i, o) /\ ~CanOpen(i)
  /\ pc' = [pc EXCEPT ![i] = "tx"]
  /\ spoiled' = spoiled \cup {"gaveUp"}
  /\ UNCHANGED <<file, namesLst, zlog, status, m_statusFile, names, today, crashes,
                 version, seen, posts, registered, logons>>

\* The users with a record in USER.LST once operation o is over: deluser
\* marks the record deleted.
Left(o) == IF o.kind = "DeleteSmallRecord" THEN claimed \ {o.user} ELSE claimed

\* What happens once the operation's record is (or is not) in STATUS.DAT.
Settle(i) ==
  /\ pc' = [pc EXCEPT ![i] = IF op[i].kind = "xinit" THEN "read_names" ELSE "idle"]
  /\ posts' = IF op[i].kind = "post" THEN Append(posts, status[i].qscanptr - 1) ELSE posts
  /\ claimed' = Left(op[i])
  /\ logons' = IF op[i].kind = "logon" THEN [logons EXCEPT ![status[i].date1] = @ + 1] ELSE logons
  /\ UNCHANGED <<namesLst, zlog, status, names, op, today, bounds, registered, spoiled>>

ChangesNames(i) == op[i].kind \in {"InsertSmallRecord", "DeleteSmallRecord"}

\* Write: the file is opened if BeginTransaction had to give up.
CommitTransaction(i) ==
  /\ pc[i] = "commit"
  /\ i \in m_statusFile \/ CanOpen(i)
  /\ file' = status[i]
  /\ m_statusFile' = m_statusFile \ {i}
  /\ version' = IF ChangesNames(i) THEN version + 1 ELSE version
  /\ seen' = IF ChangesNames(i) THEN [seen EXCEPT ![i] = version + 1] ELSE seen
  /\ Settle(i)

\* "CANNOT SAVE STATUS": the caller goes on as if the record were written.
CommitFails(i) ==
  /\ MayGiveUp
  /\ pc[i] = "commit"
  /\ i \notin m_statusFile /\ ~CanOpen(i)
  /\ UNCHANGED <<file, m_statusFile, version, seen>>
  /\ Settle(i)
-----------------------------------------------------------------------------
(* What the callers do between BeginTransaction and CommitTransaction.     *)

Edit(i, rec) ==
  /\ status' = [status EXCEPT ![i] = rec]
  /\ pc' = [pc EXCEPT ![i] = "commit"]

InTx(i, kind) == pc[i] = "tx" /\ op[i].kind = kind

\* initialize: SetWWIVVersion, the counters stay as they are.
initialize(i) ==
  /\ InTx(i, "xinit")
  /\ Edit(i, status[i])
  /\ UNCHANGED <<disk, m_statusFile, names, op, today, bounds, ghosts>>

IncrementQScanPointer(rec) == [rec EXCEPT !.qscanptr = @ + 1]

post(i) ==
  /\ InTx(i, "post")
  /\ Edit(i, IncrementQScanPointer(status[i]))
  /\ UNCHANGED <<disk, m_statusFile, names, op, today, bounds, ghosts>>

IncrementNumCallsToday(rec) == [rec EXCEPT !.callstoday = @ + 1]

\* IncrementCallerNumber is left out: it is another counter of the same kind.
UpdateUserStatsForLogin(i) ==
  /\ InTx(i, "logon")
  /\ Edit(i, IncrementNumCallsToday(status[i]))
  /\ UNCHANGED <<disk, m_statusFile, names, op, today, bounds, ghosts>>

\* mutant: the flag is wider than a char
IncrementFileChangedFlagWide(rec) == [rec EXCEPT !.flag = @ + 1]
IncrementFileChangedFlagNot(rec) == rec  \* mutant: the flag is not incremented
IncrementFileChangedFlag(rec) == [rec EXCEPT !.flag = (@ + 1) % FlagMod]

\* users is an unsigned short: below zero comes 65535.
IncrementNumUsers(rec) == [rec EXCEPT !.users = @ + 1]
DecrementNumUsers(rec) == [rec EXCEPT !.users = IF @ = 0 THEN 65535 ELSE @ - 1]

\* The record of instance i after a change of the list, and who is entered then.
Counted(i) ==
  IncrementFileChangedFlag(IF op[i].kind = "InsertSmallRecord"
                             THEN IncrementNumUsers(status[i]) ELSE DecrementNumUsers(status[i]))
Entered(i) ==
  IF op[i].kind = "InsertSmallRecord"
    THEN registered \cup {op[i].user} ELSE registered \ {op[i].user}

\* Names::Save opens NAMES.LST, which cuts it to nothing, ...
Truncate(i) ==
  /\ CanOpenNames(i)
  /\ namesLst' = {}
  /\ pc' = [pc EXCEPT ![i] = "write"]
  /\ UNCHANGED <<status, registered, spoiled>>

\* ... or cannot, as somebody else has it open: the callers do not look at what
\* it returns and go on with the count and the flag.  A new user is not entered.
SaveFails(i) ==
  /\ MayGiveUp
  /\ Edit(i, Counted(i))
  /\ registered' = registered \ {op[i].user}
  /\ spoiled' = spoiled \cup {"notSaved"}
  /\ UNCHANGED namesLst

\* Names::Add or Remove on the cache, then Names::Save.
SaveNames(i, users) ==
  /\ names' = [names EXCEPT ![i] = users]
  /\ Truncate(i) \/ SaveFails(i)
  /\ UNCHANGED <<file, claimed, zlog, m_statusFile, op, today, bounds,
                 version, seen, posts, logons>>

InsertSmallRecord(i) ==
  /\ InTx(i, "InsertSmallRecord")
  /\ SaveNames(i, names[i] \cup {op[i].user})

DeleteSmallRecord(i) ==
  /\ InTx(i, "DeleteSmallRecord") /\ op[i].user \in names[i]
  /\ SaveNames(i, names[i] \ {op[i].user})

\* The rest of Names::Save, and of the two callers.
WriteNames(i) ==
  /\ pc[i] = "write"
  /\ namesLst' = names[i]
  /\ Edit(i, Counted(i))
  /\ registered' = Entered(i)
  /\ UNCHANGED <<file, claimed, zlog, m_statusFile, names, op, today, bounds,
                 version, seen, posts, logons, spoiled>>

\* mutant: a user that is not found is counted off all the same
AbortTransactionCommits(i) ==
  /\ InTx(i, "DeleteSmallRecord") /\ op[i].user \notin names[i]
  /\ Edit(i, DecrementNumUsers(status[i]))
  /\ UNCHANGED <<disk, m_statusFile, names, op, today, bounds, ghosts>>

\* The user is not found: AbortTransaction.
AbortTransaction(i) ==
  /\ InTx(i, "DeleteSmallRecord") /\ op[i].user \notin names[i]
  /\ m_statusFile' = m_statusFile \ {i}
  /\ pc' = [pc EXCEPT ![i] = "idle"]
  /\ claimed' = Left(op[i])
  /\ UNCHANGED <<file, namesLst, zlog, status, names, op, today, bounds, ghosts>>

\* mutant: the date is not compared again inside the transaction
MaintenanceDueAlways(i) == TRUE
MaintenanceDue(i) == status[i].date1 # today

\* WStatus::NewDay
NewDayKeepsCalls(rec) == [rec EXCEPT !.date1 = today]  \* mutant: a counter is forgotten
NewDay(rec) == [rec EXCEPT !.callstoday = 0, !.date1 = today]

\* ZLOG.DAT with every entry moved on by one; the oldest falls off.
Shifted == [k \in LogIndex |-> IF k = 1 THEN zlog[1] ELSE zlog[k - 1]]

\* beginday up to ZLOG.DAT.  If it cannot be opened (zlog() has it open while
\* it pages) it is opened once more, to create it: 97 blank entries are written
\* over the log, or the second try fails too and the day is not entered at all.
beginday(i) ==
  /\ InTx(i, "beginday") /\ MaintenanceDue(i)
  /\ \/ /\ zlog' = Shifted
        /\ pc' = [pc EXCEPT ![i] = "zlog"]
        /\ UNCHANGED <<status, spoiled>>
     \/ /\ MayGiveUp
        /\ zlog' = BlankLog
        /\ pc' = [pc EXCEPT ![i] = "zlog"]
        /\ spoiled' = spoiled \cup {"logWiped"}
        /\ UNCHANGED status
     \/ /\ MayGiveUp
        /\ Edit(i, NewDay(status[i]))
        /\ spoiled' = spoiled \cup {"notLogged"}
        /\ UNCHANGED zlog
  /\ UNCHANGED <<file, namesLst, claimed, m_statusFile, names, op, today, bounds,
                 version, seen, posts, registered, logons>>

\* Another instance has closed the day: there is nothing to do.
begindayDone(i) ==
  /\ InTx(i, "beginday") /\ ~MaintenanceDue(i)
  /\ Edit(i, status[i])
  /\ UNCHANGED <<disk, m_statusFile, names, op, today, bounds, ghosts>>

\* The closed day is written in the place of the newest entry.
WriteZlog(i) ==
  /\ pc[i] = "zlog"
  /\ zlog' = [zlog EXCEPT ![1] = [date |-> status[i].date1, calls |-> status[i].callstoday]]
  /\ Edit(i, NewDay(status[i]))
  /\ UNCHANGED <<file, namesLst, claimed, m_statusFile, names, op, today, bounds, ghosts>>

Body(i) ==
  \/ initialize(i) \/ post(i) \/ UpdateUserStatsForLogin(i)
  \/ beginday(i) \/ begindayDone(i) \/ WriteZlog(i)
  \/ InsertSmallRecord(i) \/ DeleteSmallRecord(i) \/ WriteNames(i) \/ AbortTransaction(i)

-----------------------------------------------------------------------------
(* Instances start, crash and restart; midnight passes.                    *)

\* InitializeBBS, up to the transaction in which it reads STATUS.DAT.
Start(i) ==
  /\ pc[i] = "down"
  /\ pc' = [pc EXCEPT ![i] = "start"]
  /\ UNCHANGED <<disk, status, m_statusFile, names, op, today, bounds, ghosts>>

\* The Names object is made, and loads the file, after that transaction.
read_names(i) ==
  /\ pc[i] = "read_names" /\ CanOpenNames(i)
  /\ names' = [names EXCEPT ![i] = namesLst]
  /\ pc' = [pc EXCEPT ![i] = "idle"]
  /\ UNCHANGED <<disk, status, m_statusFile, op, today, bounds, ghosts>>

\* NAMES.LST cannot be opened: the object is made all the same, without names.
read_namesFails(i) ==
  /\ MayGiveUp
  /\ pc[i] = "read_names"
  /\ names' = [names EXCEPT ![i] = {}]
  /\ pc' = [pc EXCEPT ![i] = "idle"]
  /\ spoiled' = spoiled \cup {"notLoaded"}
  /\ UNCHANGED <<disk, status, m_statusFile, op, today, bounds,
                 version, seen, posts, registered, logons>>

\* What a crash leaves half done: NAMES.LST empty, the list changed but not its
\* count and flag, a day in the log (or its neighbour in it twice) that is not
\* closed.
HalfDone(i) ==
  CASE pc[i] = "write" -> {"emptied"}
    [] pc[i] = "commit" /\ ChangesNames(i) -> {"cut"}
    [] pc[i] \in {"zlog", "commit"} /\ op[i].kind = "beginday" -> {"cutLog"}
    [] OTHER -> {}

\* The operating system closes the files; what is on disk stays as it is.  A
\* user whose entry is cut off before the flag is raised is not entered: the
\* instances whose copies have not got it do not see that they are out of date.
Crash(i) ==
  /\ pc[i] # "down" /\ crashes < MaxCrashes
  /\ crashes' = crashes + 1
  /\ pc' = [pc EXCEPT ![i] = "down"]
  /\ status' = [status EXCEPT ![i] = ZeroStatus]
  /\ m_statusFile' = m_statusFile \ {i}
  /\ registered' = IF HalfDone(i) = {"cut"} THEN registered \ {op[i].user} ELSE registered
  /\ spoiled' = spoiled \cup HalfDone(i)
  /\ UNCHANGED <<disk, names, op, today, ops, version, seen, posts, logons>>

Midnight ==
  /\ today < MaxDay
  /\ today' = today + 1
  /\ UNCHANGED <<disk, status, m_statusFile, names, pc, op, bounds, ghosts>>

Next ==
  \/ Midnight
  \/ \E i \in Instances :
       \/ Start(i) \/ read_names(i) \/ read_namesFails(i) \/ Crash(i)
       \/ RefreshStatusCache(i) \/ Load(i) \/ LoadFails(i)
       \/ \E o \in Ops \cup {Xinit} : BeginTransaction(i, o) \/ BeginGivesUp(i, o)
       \/ Body(i)
       \/ CommitTransaction(i) \/ CommitFails(i)

Spec == Init /\ [][Next]_vars

-----------------------------------------------------------------------------
(* Properties.                                                             *)

Days == 0 .. MaxDay

Record == [flag : 0 .. FlagMod - 1, users : Nat, qscanptr : Nat, callstoday : Nat, date1 : Days]

LogEntry == [date : {-1} \cup Days, calls : Nat]

\* The values the record, its caches and the files range over.
TypeOK ==
  /\ file \in Record
  /\ status \in [Instances -> Record]
  /\ m_statusFile \subseteq Instances
  /\ namesLst \subseteq Users /\ claimed \subseteq Users
  /\ names \in [Instances -> SUBSET Users]
  /\ zlog \in [LogIndex -> LogEntry]
  /\ pc \in [Instances -> {"down", "start", "read_names", "idle", "load", "loadTx", "tx",
                        "write", "zlog", "commit"}]
  /\ op \in [Instances -> Ops \cup {Xinit}]
  /\ today \in Days /\ ops \in Nat /\ crashes \in Nat
  /\ version \in Nat
  /\ seen \in [Instances -> Nat]
  /\ posts \in Seq(Int)
  /\ registered \subseteq Users
  /\ logons \in [Days -> Nat]
  /\ spoiled \subseteq {"slept", "gaveUp", "notLoaded", "notSaved", "emptied", "cut",
                       "logWiped", "notLogged", "cutLog"}

\* No two posts of the BBS get the same Q-scan number, whichever instances
\* they are entered on, as long as nobody has to give up opening STATUS.DAT:
\* a user's record of what was read would otherwise skip a post.
UniqueQScan == "gaveUp" \notin spoiled => IsInjective(posts)

\* The events after which NAMES.LST may lose users: an instance gave up opening
\* STATUS.DAT, found the flag where it was because it had been incremented a
\* multiple of 256 times, could not open NAMES.LST to load it, or crashed
\* between cutting the file to nothing and writing it.
ListRisks == {"gaveUp", "slept", "notLoaded", "emptied"}

\* No user drops out of NAMES.LST, although every instance writes the whole
\* file from its own copy: the flag makes it load the file before.  It holds
\* whoever crashes before STATUS.DAT is written, and whoever cannot save its
\* list: only the user who was being entered is then not in it for good.  The
\* exceptions are ListRisks, and the moment at which the file is being written.
NoUserLost ==
  spoiled \cap ListRisks = {} /\ (\A i \in Instances : pc[i] # "write") =>
    registered \subseteq namesLst

\* Outside of transactions STATUS.DAT counts the users in NAMES.LST, unless the
\* list was spoiled or could not be saved, or an instance has crashed between
\* writing one file and the other.
CountRisks == ListRisks \cup {"notSaved", "cut"}
UsersCounted ==
  spoiled \cap CountRisks = {} /\ m_statusFile = {} => file.users = Cardinality(namesLst)

\* The events after which ZLOG.DAT may be wrong: an instance gave up opening
\* STATUS.DAT, or crashed between the log and STATUS.DAT.
LogRisks == {"gaveUp", "cutLog"}

\* The daily maintenance runs once a day: two instances that both see that
\* the date has changed do not both enter a day in the log, and the day that
\* has just begun is not closed.  While an instance is at the log its newest
\* entry is in it twice.
MaintenanceOnce ==
  spoiled \cap LogRisks = {} /\ (\A i \in Instances : pc[i] # "zlog") =>
    /\ \A k \in LogIndex : zlog[k].date < today
    /\ \A k, l \in LogIndex : k < l => zlog[l].date < zlog[k].date \/ zlog[l] = Blank

\* Every call is counted once, for the day it was made on: today's in STATUS.DAT,
\* those of an earlier day in the log until the day falls off its end.  The
\* exceptions are LogRisks and a log that could not be opened at the end of a day.
CallsAccounted ==
  spoiled \cap (LogRisks \cup {"logWiped", "notLogged"}) = {} /\ m_statusFile = {} =>
    /\ file.callstoday = logons[file.date1]
    /\ \A k \in LogIndex : zlog[k] # Blank => zlog[k].calls = logons[zlog[k].date]
    /\ \A d \in Days : d < file.date1 /\ logons[d] > 0 =>
         \/ \E k \in LogIndex : zlog[k].date = d
         \/ \A k \in LogIndex : zlog[k].date > d

\* The cache of an idle instance is out of date only if the flag shows it:
\* the next Get will load NAMES.LST.  The exceptions are those of UsersCounted:
\* a list that was not loaded or not saved leaves a copy that differs from the
\* file under the file's own flag.
StaleIsFlagged ==
  \A i \in Instances :
    /\ spoiled \cap CountRisks = {} /\ m_statusFile = {}
    /\ pc[i] = "idle" /\ names[i] # namesLst
    => FlagChanged(i) \/ version - seen[i] >= FlagMod

\* What the comments on Get and BeginTransaction say, "Aquires write lock"
\* (wstatus.h:225) and "Replacement for Lock" (wstatus.h:249): at most one
\* instance is inside a transaction.
WriteLock == \A i, j \in m_statusFile : i = j
=============================================================================
