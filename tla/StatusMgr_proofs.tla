-------------------------- MODULE StatusMgr_proofs --------------------------
(***************************************************************************)
(* Proofs about StatusMgr, for any number of instances and users and any   *)
(* number of transactions.  The results on the shared data assume the      *)
(* share modes of Windows (Exclusive): status_unix shows that they fail    *)
(* without them.                                                           *)
(***************************************************************************)
EXTENDS StatusMgr, FiniteSetTheorems, TLAPS

-----------------------------------------------------------------------------
(* Types.                                                                  *)

\* What the methods of WStatus do to a record: it stays one, and the Q-scan
\* pointer and the date only change where they are meant to.
LEMMA Edits ==
  ASSUME NEW rec \in Record, today \in Days
  PROVE  /\ IncrementQScanPointer(rec) \in Record
         /\ IncrementQScanPointer(rec).qscanptr = rec.qscanptr + 1
         /\ IncrementQScanPointer(rec).date1 = rec.date1
         /\ IncrementNumCallsToday(rec) \in Record
         /\ IncrementNumCallsToday(rec).qscanptr = rec.qscanptr
         /\ IncrementNumCallsToday(rec).date1 = rec.date1
         /\ NewDay(rec) \in Record
         /\ NewDay(rec).qscanptr = rec.qscanptr
         /\ NewDay(rec).date1 = today
<1>1. /\ IncrementQScanPointer(rec) \in Record
      /\ IncrementQScanPointer(rec).qscanptr = rec.qscanptr + 1
      /\ IncrementQScanPointer(rec).date1 = rec.date1
  BY DEF Record, IncrementQScanPointer
<1>2. /\ IncrementNumCallsToday(rec) \in Record
      /\ IncrementNumCallsToday(rec).qscanptr = rec.qscanptr
      /\ IncrementNumCallsToday(rec).date1 = rec.date1
  BY DEF Record, IncrementNumCallsToday
<1>3. /\ NewDay(rec) \in Record
      /\ NewDay(rec).qscanptr = rec.qscanptr
      /\ NewDay(rec).date1 = today
  BY DEF Record, NewDay
<1> QED BY <1>1, <1>2, <1>3

\* The same for the edit that goes with a change of NAMES.LST.
LEMMA NamesEdits ==
  ASSUME TypeOK, NEW i \in Instances
  PROVE  /\ Counted(i) \in Record
         /\ Counted(i).qscanptr = status[i].qscanptr
         /\ Counted(i).date1 = status[i].date1
         /\ Counted(i).callstoday = status[i].callstoday
         /\ Counted(i).flag = (status[i].flag + 1) % FlagMod
         /\ op[i].kind = "InsertSmallRecord" => Counted(i).users = status[i].users + 1
         /\ op[i].kind # "InsertSmallRecord" /\ status[i].users # 0 =>
              Counted(i).users = status[i].users - 1
<1>1. ASSUME NEW r \in Record
      PROVE  /\ IncrementFileChangedFlag(r) \in Record
             /\ IncrementFileChangedFlag(r).qscanptr = r.qscanptr
             /\ IncrementFileChangedFlag(r).date1 = r.date1
             /\ IncrementFileChangedFlag(r).callstoday = r.callstoday
             /\ IncrementFileChangedFlag(r).users = r.users
             /\ IncrementFileChangedFlag(r).flag = (r.flag + 1) % FlagMod
  <2>1. (r.flag + 1) % FlagMod \in 0 .. FlagMod - 1
    BY FlagAssumption DEF Record
  <2> QED BY <2>1 DEF Record, IncrementFileChangedFlag
<1>2. ASSUME NEW r \in Record
      PROVE  /\ IncrementNumUsers(r) \in Record
             /\ IncrementNumUsers(r).qscanptr = r.qscanptr
             /\ IncrementNumUsers(r).date1 = r.date1
             /\ IncrementNumUsers(r).callstoday = r.callstoday
             /\ IncrementNumUsers(r).flag = r.flag
             /\ IncrementNumUsers(r).users = r.users + 1
  BY DEF Record, IncrementNumUsers
<1>3. ASSUME NEW r \in Record
      PROVE  /\ DecrementNumUsers(r) \in Record
             /\ DecrementNumUsers(r).qscanptr = r.qscanptr
             /\ DecrementNumUsers(r).date1 = r.date1
             /\ DecrementNumUsers(r).callstoday = r.callstoday
             /\ DecrementNumUsers(r).flag = r.flag
             /\ r.users # 0 => DecrementNumUsers(r).users = r.users - 1
  BY DEF Record, DecrementNumUsers
<1>4. PICK rec \in Record : rec = status[i]
  BY DEF TypeOK
<1>5. CASE op[i].kind = "InsertSmallRecord"
  <2>1. PICK r \in Record : r = IncrementNumUsers(rec)
    BY <1>2
  <2>2. Counted(i) = IncrementFileChangedFlag(r)
    BY <1>4, <1>5, <2>1 DEF Counted
  <2> QED BY <1>1, <1>2, <1>4, <1>5, <2>1, <2>2
<1>6. CASE op[i].kind # "InsertSmallRecord"
  <2>1. PICK r \in Record : r = DecrementNumUsers(rec)
    BY <1>3
  <2>2. Counted(i) = IncrementFileChangedFlag(r)
    BY <1>4, <1>6, <2>1 DEF Counted
  <2> QED BY <1>1, <1>3, <1>4, <1>6, <2>1, <2>2
<1> QED BY <1>5, <1>6

\* An operation on NAMES.LST has a user.
LEMMA NamesOp ==
  ASSUME NEW p \in Ops \cup {Xinit}, p.kind \in {"InsertSmallRecord", "DeleteSmallRecord"}
  PROVE  p.user \in Users
<1>1. CASE p \in [kind : {"post", "logon", "beginday"}, user : {NoUser}]
  BY <1>1
<1>2. CASE p \in [kind : {"InsertSmallRecord", "DeleteSmallRecord"}, user : Users]
  BY <1>2
<1>3. CASE p = Xinit
  BY <1>3 DEF Xinit, Op
<1> QED BY <1>1, <1>2, <1>3 DEF Ops

\* The record of a system that was just set up is a statusrec.
LEMMA InitType == Init => TypeOK
<1>1. Cardinality(FirstUsers) \in Nat
  BY UsersAssumption, FS_CardinalityType, FS_Subset
<1>2. 0 \in 0 .. FlagMod - 1 /\ 0 \in Days
  BY FlagAssumption, BoundAssumption DEF Days
<1>3. BlankLog \in [LogIndex -> LogEntry]
  BY DEF BlankLog, Blank, LogEntry
<1> QED
  BY <1>1, <1>2, <1>3, UsersAssumption DEF Init, TypeOK, Record, StatusRec, ZeroStatus, Xinit, Days

\* Every step of every instance keeps the types.
LEMMA NextType ==
  ASSUME TypeOK, [Next]_vars
  PROVE  TypeOK'
<1> USE DEF TypeOK, disk, bounds, ghosts
<1>1. ASSUME Midnight PROVE TypeOK'
  BY <1>1, BoundAssumption DEF Midnight, Days
<1>2. ASSUME NEW i \in Instances, Start(i) PROVE TypeOK'
  BY <1>2 DEF Start
<1>3. ASSUME NEW i \in Instances, Crash(i) PROVE TypeOK'
  <2>1. ZeroStatus \in Record
    BY FlagAssumption, BoundAssumption DEF ZeroStatus, StatusRec, Record, Days
  <2>2. HalfDone(i) \subseteq {"emptied", "cut", "cutLog"}
    BY DEF HalfDone
  <2>3. /\ registered' \subseteq Users
        /\ spoiled' \subseteq {"slept", "gaveUp", "notLoaded", "notSaved", "emptied", "cut",
                               "logWiped", "notLogged", "cutLog"}
    BY <1>3, <2>2 DEF Crash
  <2>4. /\ status' \in [Instances -> Record]
        /\ pc' = [pc EXCEPT ![i] = "down"]
        /\ crashes' \in Nat
        /\ m_statusFile' \subseteq Instances
        /\ UNCHANGED <<disk, names, op, today, ops, version, seen, posts, logons>>
    BY <1>3, <2>1 DEF Crash
  <2> QED BY <2>3, <2>4
<1>4. ASSUME NEW i \in Instances, RefreshStatusCache(i) PROVE TypeOK'
  BY <1>4 DEF RefreshStatusCache, Get
<1>5. ASSUME NEW i \in Instances, Load(i) \/ LoadFails(i) PROVE TypeOK'
  BY <1>5 DEF Load, LoadFails
<1>6. ASSUME NEW i \in Instances, NEW o \in Ops \cup {Xinit}, BeginTransaction(i, o) PROVE TypeOK'
  <2>1. claimed' \subseteq Users
    BY <1>6, NamesOp DEF BeginTransaction, Begins
  <2> QED BY <1>6, <2>1 DEF BeginTransaction, Begins, Get
<1>7. ASSUME NEW i \in Instances, NEW o \in Ops \cup {Xinit}, BeginGivesUp(i, o) PROVE TypeOK'
  <2>1. claimed' \subseteq Users
    BY <1>7, NamesOp DEF BeginGivesUp, Begins
  <2> QED BY <1>7, <2>1 DEF BeginGivesUp, Begins
<1>8. ASSUME NEW i \in Instances, initialize(i) PROVE TypeOK'
  BY <1>8 DEF initialize, Edit, InTx
<1>9. ASSUME NEW i \in Instances, post(i) PROVE TypeOK'
  BY <1>9, Edits DEF post, Edit, InTx
<1>10. ASSUME NEW i \in Instances, UpdateUserStatsForLogin(i) PROVE TypeOK'
  BY <1>10, Edits DEF UpdateUserStatsForLogin, Edit, InTx
<1>11. ASSUME NEW i \in Instances, beginday(i) PROVE TypeOK'
  <2>1. NewDay(status[i]) \in Record
    BY Edits
  <2>2. Shifted \in [LogIndex -> LogEntry] /\ BlankLog \in [LogIndex -> LogEntry]
    BY LogAssumption DEF Shifted, BlankLog, Blank, LogEntry, LogIndex
  <2>3. zlog' \in [LogIndex -> LogEntry]
    BY <1>11, <2>2 DEF beginday
  <2>4. status' \in [Instances -> Record]
    BY <1>11, <2>1 DEF beginday, Edit
  <2>5. pc' = [pc EXCEPT ![i] = "zlog"] \/ pc' = [pc EXCEPT ![i] = "commit"]
    BY <1>11 DEF beginday, Edit
  <2>6. spoiled' \subseteq spoiled \cup {"logWiped", "notLogged"}
    BY <1>11 DEF beginday
  <2>7. UNCHANGED <<file, namesLst, claimed, m_statusFile, names, op, today, bounds,
                    version, seen, posts, registered, logons>>
    BY <1>11 DEF beginday
  <2> QED BY <2>3, <2>4, <2>5, <2>6, <2>7
<1>12. ASSUME NEW i \in Instances, begindayDone(i) PROVE TypeOK'
  BY <1>12 DEF begindayDone, Edit
<1>13. ASSUME NEW i \in Instances, WriteZlog(i) PROVE TypeOK'
  <2>1. NewDay(status[i]) \in Record
    BY Edits
  <2>2. [date |-> status[i].date1, calls |-> status[i].callstoday] \in LogEntry
    BY DEF Record, LogEntry
  <2> QED BY <1>13, <2>1, <2>2 DEF WriteZlog, Edit
<1>14. ASSUME NEW i \in Instances, InsertSmallRecord(i) \/ DeleteSmallRecord(i) PROVE TypeOK'
  <2>1. Counted(i) \in Record
    BY NamesEdits
  <2>2. op[i].user \in Users
    BY <1>14, NamesOp DEF InsertSmallRecord, DeleteSmallRecord, InTx
  <2>3. PICK users \in SUBSET Users : SaveNames(i, users)
    BY <1>14, <2>2 DEF InsertSmallRecord, DeleteSmallRecord
  <2>4. /\ names' = [names EXCEPT ![i] = users]
        /\ Truncate(i) \/ SaveFails(i)
        /\ UNCHANGED <<file, claimed, zlog, m_statusFile, op, today, bounds,
                       version, seen, posts, logons>>
    BY <2>3 DEF SaveNames
  <2>5. CASE Truncate(i)
    BY <2>4, <2>5 DEF Truncate
  <2>6. CASE SaveFails(i)
    <3>1. /\ status' = [status EXCEPT ![i] = Counted(i)]
          /\ pc' = [pc EXCEPT ![i] = "commit"]
          /\ registered' \subseteq registered /\ namesLst' = namesLst
          /\ spoiled' = spoiled \cup {"notSaved"}
      BY <2>6 DEF SaveFails, Edit
    <3> QED BY <2>1, <2>4, <3>1
  <2> QED BY <2>4, <2>5, <2>6
<1>15. ASSUME NEW i \in Instances, WriteNames(i) PROVE TypeOK'
  <2>1. Counted(i) \in Record
    BY NamesEdits
  <2>2. registered' \subseteq Users
    BY <1>15, NamesOp DEF WriteNames, Entered
  <2> QED BY <1>15, <2>1, <2>2 DEF WriteNames, Edit
<1>16. ASSUME NEW i \in Instances, AbortTransaction(i) PROVE TypeOK'
  BY <1>16 DEF AbortTransaction, InTx, Left
<1>17. ASSUME NEW i \in Instances, Settle(i) PROVE posts' \in Seq(Int) /\ logons' \in [Days -> Nat]
  <2>1. status[i].date1 \in Days /\ status[i].qscanptr \in Nat
    BY DEF Record
  <2> QED BY <1>17, <2>1 DEF Settle
<1>18. ASSUME NEW i \in Instances, CommitTransaction(i) PROVE TypeOK'
  <2>1. posts' \in Seq(Int) /\ logons' \in [Days -> Nat]
    BY <1>17, <1>18 DEF CommitTransaction
  <2> QED BY <1>18, <2>1 DEF CommitTransaction, Settle, ChangesNames, Left
<1>19. ASSUME NEW i \in Instances, CommitFails(i) PROVE TypeOK'
  <2>1. posts' \in Seq(Int) /\ logons' \in [Days -> Nat]
    BY <1>17, <1>19 DEF CommitFails
  <2> QED BY <1>19, <2>1 DEF CommitFails, Settle, Left
<1>20. ASSUME NEW i \in Instances, read_names(i) \/ read_namesFails(i) PROVE TypeOK'
  BY <1>20 DEF read_names, read_namesFails
<1>21. CASE UNCHANGED vars
  BY <1>21 DEF vars
<1> QED
  BY <1>1, <1>2, <1>3, <1>4, <1>5, <1>6, <1>7, <1>8, <1>9, <1>10, <1>11, <1>12, <1>13, <1>14,
     <1>15, <1>16, <1>18, <1>19, <1>20, <1>21 DEF Next, Body

\* The record, its caches and the files have their types in every state.
THEOREM TypeCorrect == Spec => []TypeOK
  BY InitType, NextType, PTL DEF Spec

-----------------------------------------------------------------------------
(* The lock.                                                               *)

Clean == "gaveUp" \notin spoiled

\* At most one instance has STATUS.DAT open for a transaction; it is the one
\* between BeginTransaction and CommitTransaction, and until it edits its
\* cache that holds what the file does.
LockInv ==
  /\ WriteLock
  /\ Clean => \A i \in Instances : InTransaction(i) <=> i \in m_statusFile
  /\ Clean => \A i \in Instances : InTransaction(i) /\ pc[i] # "commit" => status[i] = file
  /\ \A i \in Instances : pc[i] = "write" => ChangesNames(i)
  /\ \A i \in Instances : pc[i] = "zlog" => op[i].kind = "beginday"

\* The share mode keeps it so.
LEMMA NextLock ==
  ASSUME Exclusive, TypeOK, LockInv, [Next]_vars
  PROVE  LockInv'
<1> USE DEF TypeOK, LockInv, Clean, InTransaction, WriteLock, CanOpen, ChangesNames, disk, bounds,
            ghosts
<1>1. ASSUME Midnight PROVE LockInv'
  BY <1>1 DEF Midnight
<1>2. ASSUME NEW i \in Instances, Start(i) PROVE LockInv'
  BY <1>2 DEF Start
<1>3. ASSUME NEW i \in Instances, Crash(i) PROVE LockInv'
  BY <1>3 DEF Crash
<1>4. ASSUME NEW i \in Instances, RefreshStatusCache(i) PROVE LockInv'
  <2>1. /\ pc[i] = "idle"
        /\ pc' = [pc EXCEPT ![i] = IF FlagChanged(i) /\ @ # "start" THEN "load" ELSE "idle"]
        /\ UNCHANGED <<file, m_statusFile, op>>
    BY <1>4 DEF RefreshStatusCache, Get
  <2>2. status' = [status EXCEPT ![i] = file]
    BY <1>4 DEF RefreshStatusCache, Get
  <2>3. "gaveUp" \in spoiled' <=> "gaveUp" \in spoiled
    BY <1>4 DEF RefreshStatusCache, Get
  <2>4. \A j \in Instances : InTransaction(j)' <=> InTransaction(j)
    BY <2>1
  <2>5. \A j \in Instances : InTransaction(j) => pc'[j] = pc[j] /\ status'[j] = status[j]
    BY <2>1, <2>2
  <2>6. \A j \in Instances : pc'[j] \in {"write", "zlog"} => pc[j] = pc'[j]
    BY <2>1
  <2>7. (Clean' <=> Clean) /\ (WriteLock' <=> WriteLock)
    BY <2>1, <2>3
  <2> HIDE DEF InTransaction, WriteLock, Clean
  <2> QED BY <2>1, <2>4, <2>5, <2>6, <2>7 DEF LockInv
<1>5. ASSUME NEW i \in Instances, Load(i) \/ LoadFails(i) PROVE LockInv'
  <2>1. CASE Load(i)
    BY <2>1 DEF Load
  <2>2. CASE LoadFails(i)
    BY <2>2 DEF LoadFails
  <2> QED BY <1>5, <2>1, <2>2
<1>6. ASSUME NEW i \in Instances, NEW o \in Ops \cup {Xinit}, BeginTransaction(i, o) PROVE LockInv'
  BY <1>6 DEF BeginTransaction, Begins, Get
<1>7. ASSUME NEW i \in Instances, NEW o \in Ops \cup {Xinit}, BeginGivesUp(i, o) PROVE LockInv'
  BY <1>7 DEF BeginGivesUp, Begins
<1>8. ASSUME NEW i \in Instances, initialize(i) PROVE LockInv'
  BY <1>8 DEF initialize, Edit, InTx
<1>9. ASSUME NEW i \in Instances, post(i) PROVE LockInv'
  BY <1>9 DEF post, Edit, InTx
<1>10. ASSUME NEW i \in Instances, UpdateUserStatsForLogin(i) PROVE LockInv'
  BY <1>10 DEF UpdateUserStatsForLogin, Edit, InTx
<1>11. ASSUME NEW i \in Instances, beginday(i) PROVE LockInv'
  <2>1. /\ pc[i] = "tx" /\ op[i].kind = "beginday"
        /\ \/ pc' = [pc EXCEPT ![i] = "zlog"] /\ status' = status
           \/ pc' = [pc EXCEPT ![i] = "commit"] /\ \A j \in Instances \ {i} : status'[j] = status[j]
        /\ "gaveUp" \in spoiled' <=> "gaveUp" \in spoiled
        /\ UNCHANGED <<file, m_statusFile, op>>
    BY <1>11 DEF beginday, Edit, InTx
  <2>2. \A j \in Instances : InTransaction(j)' <=> InTransaction(j)
    BY <2>1
  <2>3. \A j \in Instances : pc'[j] # "commit" => pc[j] # "commit" /\ status'[j] = status[j]
    BY <2>1
  <2>4. \A j \in Instances : pc'[j] = "write" => pc[j] = "write" /\ op'[j] = op[j]
    BY <2>1
  <2>5. \A j \in Instances : pc'[j] = "zlog" =>
          op'[j] = op[j] /\ (pc[j] = "zlog" \/ op[j].kind = "beginday")
    BY <2>1
  <2>6. (Clean' <=> Clean) /\ (WriteLock' <=> WriteLock)
    BY <2>1
  <2> HIDE DEF InTransaction, WriteLock, Clean
  <2> QED BY <2>1, <2>2, <2>3, <2>4, <2>5, <2>6 DEF LockInv
<1>12. ASSUME NEW i \in Instances, begindayDone(i) \/ WriteZlog(i) PROVE LockInv'
  <2>1. CASE begindayDone(i)
    BY <2>1 DEF begindayDone, Edit, InTx
  <2>2. CASE WriteZlog(i)
    BY <2>2 DEF WriteZlog, Edit
  <2> QED BY <1>12, <2>1, <2>2
<1>13. ASSUME NEW i \in Instances, InsertSmallRecord(i) \/ DeleteSmallRecord(i) PROVE LockInv'
  <2>1. /\ pc[i] = "tx" /\ ChangesNames(i)
        /\ \E users : SaveNames(i, users)
    BY <1>13 DEF InsertSmallRecord, DeleteSmallRecord, InTx
  <2>2. /\ \/ pc' = [pc EXCEPT ![i] = "write"] /\ status' = status
           \/ pc' = [pc EXCEPT ![i] = "commit"] /\ \A j \in Instances \ {i} : status'[j] = status[j]
        /\ "gaveUp" \in spoiled' <=> "gaveUp" \in spoiled
        /\ UNCHANGED <<file, m_statusFile, op>>
    BY <2>1 DEF SaveNames, Truncate, SaveFails, Edit
  <2>3. pc[i] = "tx" /\ ChangesNames(i)
    BY <2>1
  <2>4. \A j \in Instances : InTransaction(j)' <=> InTransaction(j)
    BY <2>2, <2>3
  <2>5. \A j \in Instances : pc'[j] # "commit" => pc[j] # "commit" /\ status'[j] = status[j]
    BY <2>2, <2>3
  <2>6. \A j \in Instances : pc'[j] = "write" => ChangesNames(j)'
    BY <2>2, <2>3
  <2>7. \A j \in Instances : pc'[j] = "zlog" => pc[j] = "zlog"
    BY <2>2, <2>3
  <2>8. (Clean' <=> Clean) /\ (WriteLock' <=> WriteLock)
    BY <2>2
  <2> HIDE DEF InTransaction, WriteLock, Clean, ChangesNames
  <2> QED BY <2>2, <2>4, <2>5, <2>6, <2>7, <2>8 DEF LockInv
<1>14. ASSUME NEW i \in Instances, WriteNames(i) PROVE LockInv'
  BY <1>14 DEF WriteNames, Edit
<1>15. ASSUME NEW i \in Instances, AbortTransaction(i) PROVE LockInv'
  BY <1>15 DEF AbortTransaction, InTx
<1>16. ASSUME NEW i \in Instances, CommitTransaction(i) PROVE LockInv'
  BY <1>16 DEF CommitTransaction, Settle
<1>17. ASSUME NEW i \in Instances, CommitFails(i) PROVE LockInv'
  BY <1>17 DEF CommitFails, Settle
<1>18. ASSUME NEW i \in Instances, read_names(i) \/ read_namesFails(i) PROVE LockInv'
  <2>1. CASE read_names(i)
    BY <2>1 DEF read_names
  <2>2. CASE read_namesFails(i)
    BY <2>2 DEF read_namesFails
  <2> QED BY <1>18, <2>1, <2>2
<1>19. CASE UNCHANGED vars
  BY <1>19 DEF vars
<1> QED
  BY <1>1, <1>2, <1>3, <1>4, <1>5, <1>6, <1>7, <1>8, <1>9, <1>10, <1>11, <1>12, <1>13, <1>14,
     <1>15, <1>16, <1>17, <1>18, <1>19 DEF Next, Body

\* Two instances are never in a transaction at the same time, and none is when
\* one gets STATUS.DAT opened.
LEMMA Alone ==
  ASSUME Exclusive, TypeOK, LockInv, Clean, NEW i \in Instances,
         InTransaction(i) \/ (pc[i] \in {"start", "idle"} /\ CanOpen(i))
  PROVE  \A j \in Instances \ {i} : ~InTransaction(j)
BY DEF LockInv, WriteLock, InTransaction, CanOpen, TypeOK

-----------------------------------------------------------------------------
(* Q-scan numbers.                                                         *)

\* Numbers given out are below the pointer in the file; whoever is about to
\* commit has the pointer it read, incremented if it has taken a number.
QScanInv ==
  Clean =>
    /\ \A i \in Instances : pc[i] = "commit" =>
         status[i].qscanptr = file.qscanptr + (IF op[i].kind = "post" THEN 1 ELSE 0)
    /\ \A k \in DOMAIN posts : posts[k] < file.qscanptr
    /\ IsInjective(posts)

\* The fields the next invariants compare are numbers.
LEMMA Numbers ==
  ASSUME TypeOK
  PROVE  /\ file.qscanptr \in Nat /\ file.date1 \in Days /\ today \in Days
         /\ \A i \in Instances : status[i].qscanptr \in Nat /\ status[i].date1 \in Days
         /\ \A k \in DOMAIN posts : posts[k] \in Int
         /\ \A k \in LogIndex : zlog[k].date \in {-1} \cup Days /\ zlog[k].calls \in Nat
         /\ Days \subseteq Nat
<1>1. \A rec \in Record : rec.qscanptr \in Nat /\ rec.date1 \in Days
  BY DEF Record
<1>2. file \in Record /\ today \in Days /\ \A i \in Instances : status[i] \in Record
  BY DEF TypeOK
<1>3. \A k \in DOMAIN posts : posts[k] \in Int
  BY DEF TypeOK
<1>4. \A k \in LogIndex : zlog[k] \in LogEntry
  BY DEF TypeOK
<1>5. \A e \in LogEntry : e.date \in {-1} \cup Days /\ e.calls \in Nat
  BY DEF LogEntry
<1>6. Days \subseteq Nat
  BY BoundAssumption DEF Days
<1> QED BY <1>1, <1>2, <1>3, <1>4, <1>5, <1>6

\* A number above all that were given out keeps them different.
LEMMA AppendNew ==
  ASSUME NEW s \in Seq(Int), NEW x \in Int,
         \A k \in DOMAIN s : s[k] < x, IsInjective(s)
  PROVE  /\ \A k \in DOMAIN Append(s, x) : Append(s, x)[k] < x + 1
         /\ IsInjective(Append(s, x))
<1>1. \A k \in DOMAIN Append(s, x) : \/ k \in DOMAIN s /\ Append(s, x)[k] = s[k] /\ s[k] \in Int
                                     \/ k = Len(s) + 1 /\ Append(s, x)[k] = x
  OBVIOUS
<1>2. \A k \in DOMAIN Append(s, x) : Append(s, x)[k] < x + 1
  BY <1>1
<1>3. IsInjective(Append(s, x))
  BY <1>1 DEF IsInjective
<1> QED BY <1>2, <1>3

\* No step gives out a number twice.
LEMMA NextQScan ==
  ASSUME Exclusive, TypeOK, LockInv, QScanInv, [Next]_vars
  PROVE  QScanInv'
<1> SUFFICES ASSUME Clean' PROVE QScanInv'
  BY DEF QScanInv
<1> USE DEF disk, bounds, ghosts
\* A step that leaves the pointers of those about to commit as they are.
<1>1. ASSUME UNCHANGED <<file, posts>>, Clean,
             \A j \in Instances : pc'[j] = "commit" =>
               pc[j] = "commit" /\ status'[j] = status[j] /\ op'[j] = op[j]
      PROVE  QScanInv'
  BY <1>1 DEF QScanInv, IsInjective
\* One that edits another field of its record.
<1>2. ASSUME NEW i \in Instances, Clean, InTransaction(i), pc[i] # "commit", op[i].kind # "post",
             status'[i].qscanptr = status[i].qscanptr,
             UNCHANGED <<file, posts, op>>,
             \A j \in Instances \ {i} : pc'[j] = pc[j] /\ status'[j] = status[j]
      PROVE  QScanInv'
  <2>1. status[i] = file /\ file.qscanptr \in Nat
    BY <1>2, Numbers DEF LockInv
  <2> QED BY <1>2, <2>1 DEF QScanInv, IsInjective
<1>3. ASSUME Midnight PROVE QScanInv'
  BY <1>1, <1>3 DEF Midnight, Clean
<1>4. ASSUME NEW i \in Instances, Start(i) \/ Crash(i) PROVE QScanInv'
  BY <1>1, <1>4 DEF Start, Crash, Clean, TypeOK
<1>5. ASSUME NEW i \in Instances, RefreshStatusCache(i) PROVE QScanInv'
  BY <1>1, <1>5 DEF RefreshStatusCache, Get, Clean, TypeOK
<1>6. ASSUME NEW i \in Instances, Load(i) \/ LoadFails(i) PROVE QScanInv'
  BY <1>1, <1>6 DEF Load, LoadFails, Clean, TypeOK
<1>7. ASSUME NEW i \in Instances, NEW o \in Ops \cup {Xinit}, BeginTransaction(i, o)
      PROVE  QScanInv'
  BY <1>1, <1>7 DEF BeginTransaction, Begins, Get, Clean, TypeOK
<1>8. ASSUME NEW i \in Instances, NEW o \in Ops \cup {Xinit}, BeginGivesUp(i, o)
      PROVE  QScanInv'
  BY <1>8 DEF BeginGivesUp, Clean
<1>9. ASSUME NEW i \in Instances, initialize(i) PROVE QScanInv'
  BY <1>2, <1>9 DEF initialize, Edit, InTx, InTransaction, Clean, TypeOK
<1>10. ASSUME NEW i \in Instances, post(i) PROVE QScanInv'
  <2>1. /\ Clean /\ pc[i] = "tx" /\ op[i].kind = "post"
        /\ status'[i] = IncrementQScanPointer(status[i])
        /\ UNCHANGED <<file, posts, op>>
        /\ \A j \in Instances \ {i} : pc'[j] = pc[j] /\ status'[j] = status[j]
    BY <1>10 DEF post, Edit, InTx, Clean, TypeOK
  <2>2. status'[i].qscanptr = file.qscanptr + 1
    <3>1. status[i] = file /\ file \in Record /\ today \in Days
      BY <2>1 DEF LockInv, InTransaction, TypeOK
    <3> QED BY <2>1, <3>1, Edits
  <2> QED BY <2>1, <2>2 DEF QScanInv, IsInjective
<1>11. ASSUME NEW i \in Instances, UpdateUserStatsForLogin(i) PROVE QScanInv'
  BY <1>2, <1>11, Edits DEF UpdateUserStatsForLogin, Edit, InTx, InTransaction, Clean, TypeOK
<1>12. ASSUME NEW i \in Instances, beginday(i) PROVE QScanInv'
  <2>1. NewDay(status[i]).qscanptr = status[i].qscanptr
    BY Edits DEF TypeOK
  <2>2. /\ Clean /\ pc[i] = "tx" /\ op[i].kind = "beginday"
        /\ status'[i].qscanptr = status[i].qscanptr
        /\ UNCHANGED <<file, posts, op>>
        /\ \A j \in Instances \ {i} : pc'[j] = pc[j] /\ status'[j] = status[j]
    BY <1>12, <2>1 DEF beginday, Edit, InTx, Clean, TypeOK
  <2> QED BY <1>2, <2>2 DEF InTransaction
<1>13. ASSUME NEW i \in Instances, begindayDone(i) \/ WriteZlog(i) PROVE QScanInv'
  <2>1. NewDay(status[i]).qscanptr = status[i].qscanptr
    BY Edits DEF TypeOK
  <2>2. /\ Clean /\ pc[i] \in {"tx", "zlog"} /\ op[i].kind = "beginday"
        /\ status'[i].qscanptr = status[i].qscanptr
        /\ UNCHANGED <<file, posts, op>>
        /\ \A j \in Instances \ {i} : pc'[j] = pc[j] /\ status'[j] = status[j]
    BY <1>13, <2>1 DEF begindayDone, WriteZlog, Edit, InTx, Clean, TypeOK, LockInv
  <2> QED BY <1>2, <2>2 DEF InTransaction
<1>14. ASSUME NEW i \in Instances, InsertSmallRecord(i) \/ DeleteSmallRecord(i) PROVE QScanInv'
  <2>1. /\ pc[i] = "tx" /\ ChangesNames(i)
        /\ \E users : SaveNames(i, users)
    BY <1>14 DEF InsertSmallRecord, DeleteSmallRecord, InTx, ChangesNames
  <2>2. /\ Clean /\ status'[i].qscanptr = status[i].qscanptr
        /\ UNCHANGED <<file, posts, op>>
        /\ \A j \in Instances \ {i} : pc'[j] = pc[j] /\ status'[j] = status[j]
    BY <2>1, NamesEdits DEF SaveNames, Truncate, SaveFails, Edit, Clean, TypeOK
  <2> QED BY <1>2, <2>1, <2>2 DEF InTransaction, ChangesNames
<1>15. ASSUME NEW i \in Instances, WriteNames(i) PROVE QScanInv'
  <2>1. /\ Clean /\ pc[i] = "write" /\ ChangesNames(i)
        /\ status'[i].qscanptr = status[i].qscanptr
        /\ UNCHANGED <<file, posts, op>>
        /\ \A j \in Instances \ {i} : pc'[j] = pc[j] /\ status'[j] = status[j]
    BY <1>15, NamesEdits DEF WriteNames, Edit, Clean, TypeOK, LockInv
  <2> QED BY <1>2, <2>1 DEF InTransaction, ChangesNames
<1>16. ASSUME NEW i \in Instances, AbortTransaction(i) PROVE QScanInv'
  BY <1>1, <1>16 DEF AbortTransaction, InTx, Clean, TypeOK
<1>17. ASSUME NEW i \in Instances, CommitTransaction(i) PROVE QScanInv'
  <2>1. /\ Clean /\ pc[i] = "commit" /\ file' = status[i]
        /\ posts' = IF op[i].kind = "post" THEN Append(posts, status[i].qscanptr - 1) ELSE posts
        /\ pc'[i] # "commit" /\ \A j \in Instances \ {i} : pc'[j] = pc[j]
    BY <1>17 DEF CommitTransaction, Settle, Clean, TypeOK
  <2>2. \A j \in Instances : pc'[j] # "commit"
    BY <2>1, Alone DEF InTransaction
  <2>3. CASE op[i].kind = "post"
    <3>1. posts' = Append(posts, file.qscanptr) /\ file'.qscanptr = file.qscanptr + 1
      <4>1. status[i].qscanptr = file.qscanptr + 1 /\ file.qscanptr \in Nat
        BY <2>1, <2>3, Numbers DEF QScanInv
      <4>2. status[i].qscanptr - 1 = file.qscanptr
        BY <4>1
      <4> QED BY <2>1, <2>3, <4>1, <4>2
    <3>2. /\ \A k \in DOMAIN posts' : posts'[k] < file.qscanptr + 1
          /\ IsInjective(posts')
      <4>1. /\ posts \in Seq(Int) /\ file.qscanptr \in Int
            /\ \A k \in DOMAIN posts : posts[k] < file.qscanptr
            /\ IsInjective(posts)
        BY <2>1, Numbers DEF QScanInv, TypeOK
      <4> QED BY <3>1, <4>1, AppendNew
    <3>3. (\A k \in DOMAIN posts : posts[k] < file.qscanptr)'
      BY <3>1, <3>2
    <3> QED BY <2>2, <3>2, <3>3 DEF QScanInv, IsInjective
  <2>4. CASE op[i].kind # "post"
    <3>1. posts' = posts /\ file'.qscanptr = file.qscanptr
      BY <2>1, <2>4, Numbers DEF QScanInv
    <3> QED BY <2>1, <2>2, <3>1 DEF QScanInv, IsInjective
  <2> QED BY <2>3, <2>4
<1>18. ASSUME NEW i \in Instances, CommitFails(i) PROVE QScanInv'
  BY <1>18 DEF CommitFails, Settle, LockInv, InTransaction, Clean
<1>19. ASSUME NEW i \in Instances, read_names(i) \/ read_namesFails(i) PROVE QScanInv'
  BY <1>1, <1>19 DEF read_names, read_namesFails, Clean, TypeOK
<1>20. CASE UNCHANGED vars
  BY <1>1, <1>20 DEF vars, Clean
<1> QED
  BY <1>3, <1>4, <1>5, <1>6, <1>7, <1>8, <1>9, <1>10, <1>11, <1>12, <1>13, <1>14, <1>15, <1>16,
     <1>17, <1>18, <1>19, <1>20 DEF Next, Body

-----------------------------------------------------------------------------
(* NAMES.LST.                                                              *)

Awake == spoiled \cap ListRisks = {}

\* Instance i has changed its list, and the flag and the count are still to be
\* written.
Writing(i) == pc[i] = "commit" /\ ChangesNames(i)
OthersQuiet(i) == \A j \in Instances \ {i} : ~Writing(j)

\* Instance i has made its Names object, is not about to load it again and has
\* not yet changed it.
HasNames(i) ==
  \/ pc[i] = "idle"
  \/ pc[i] \in {"tx", "zlog", "commit"} /\ op[i].kind # "xinit"

\* NAMES.LST has every registered user, and so has the copy of an instance
\* that has seen the last change of the file, but for the change another one is
\* making; an instance in a transaction has seen it.
NamesInv ==
  Awake =>
    /\ (\A i \in Instances : pc[i] # "write") => registered \subseteq namesLst
    /\ registered \subseteq claimed
    /\ \A i \in Instances : seen[i] <= version
    /\ \A i \in Instances : InTransaction(i) => seen[i] = version
    /\ \A i \in Instances :
         HasNames(i) /\ seen[i] = version /\ OthersQuiet(i) => registered \subseteq names[i]
    /\ \A i, j \in Instances :
         i # j /\ Writing(i) /\ HasNames(j) /\ seen[j] = version =>
           registered \ {op[i].user} \subseteq names[j]
    /\ \A i \in Instances : pc[i] = "write" => Entered(i) \subseteq names[i]
    /\ \A i \in Instances : InTransaction(i) /\ op[i].kind = "InsertSmallRecord" =>
         op[i].user \in claimed
    /\ \A i \in Instances : pc[i] = "commit" /\ op[i].kind = "DeleteSmallRecord" =>
         op[i].user \notin registered

\* The exceptions of the one invariant are among those of the next.
LEMMA Tags == /\ Awake => Clean
              /\ "slept" \in spoiled => ~Awake
              /\ "notLoaded" \in spoiled => ~Awake
              /\ "emptied" \in spoiled => ~Awake
BY DEF Awake, Clean, ListRisks

\* What a step of the program does to NAMES.LST and its copies when it changes
\* none of them: an instance that has the list had it, and had seen its last
\* change.
SameNames ==
  /\ UNCHANGED <<namesLst, names, version, registered>>
  /\ \A j \in Instances :
       /\ pc'[j] = "write" <=> pc[j] = "write"
       /\ Writing(j)' <=> Writing(j)
       /\ pc[j] = "write" \/ Writing(j) => op'[j] = op[j]
       /\ HasNames(j)' /\ seen'[j] = version => HasNames(j) /\ seen[j] = version
       /\ seen'[j] \in {seen[j], version}

LEMMA SameNamesInv ==
  ASSUME TypeOK, NamesInv, SameNames, Awake, registered \subseteq claimed',
         \A j \in Instances : InTransaction(j)' =>
           /\ seen'[j] = version
           /\ op'[j].kind = "InsertSmallRecord" => op'[j].user \in claimed'
  PROVE  NamesInv'
<1>1. \A j \in Instances : OthersQuiet(j)' <=> OthersQuiet(j)
  BY DEF SameNames, OthersQuiet
<1>2. \A j \in Instances : seen'[j] <= version'
  <2>1. version \in Nat /\ version' = version /\ version <= version
    BY DEF SameNames, TypeOK
  <2>2. \A j \in Instances : seen[j] <= version /\ seen'[j] \in {seen[j], version}
    BY DEF SameNames, NamesInv
  <2> QED BY <2>1, <2>2
<1>3. \A j \in Instances : pc'[j] = "write" => Entered(j)' = Entered(j)
  BY DEF SameNames, Entered
<1>4. \A j \in Instances : pc'[j] = "commit" /\ op'[j].kind = "DeleteSmallRecord" =>
        op'[j].user \notin registered
  <2> SUFFICES ASSUME NEW j \in Instances, pc'[j] = "commit", op'[j].kind = "DeleteSmallRecord"
               PROVE  op'[j].user \notin registered
    OBVIOUS
  <2>1. Writing(j)'
    BY DEF Writing, ChangesNames
  <2>2. Writing(j) /\ op'[j] = op[j]
    BY <2>1 DEF SameNames
  <2> QED BY <2>2 DEF NamesInv, Writing
<1>5. \A i, j \in Instances :
        i # j /\ Writing(i)' /\ HasNames(j)' /\ seen'[j] = version' =>
          registered' \ {op'[i].user} \subseteq names'[j]
  BY DEF SameNames, NamesInv
<1>6. \A j \in Instances : HasNames(j)' /\ seen'[j] = version' /\ OthersQuiet(j)' =>
        registered' \subseteq names'[j]
  BY <1>1 DEF SameNames, NamesInv
<1>7. (\A j \in Instances : pc'[j] # "write") => registered' \subseteq namesLst'
  BY DEF SameNames, NamesInv
<1>8. \A j \in Instances : pc'[j] = "write" => Entered(j)' \subseteq names'[j]
  BY <1>3 DEF SameNames, NamesInv
<1> QED BY <1>2, <1>4, <1>5, <1>6, <1>7, <1>8 DEF NamesInv, SameNames

\* The steps that change no list.
LEMMA KeepsNames ==
  ASSUME TypeOK, LockInv, NEW i \in Instances,
         \/ Start(i) \/ initialize(i) \/ post(i) \/ UpdateUserStatsForLogin(i)
         \/ beginday(i) \/ begindayDone(i) \/ WriteZlog(i)
  PROVE  /\ SameNames
         /\ UNCHANGED <<claimed, seen, op>>
         /\ \A j \in Instances : InTransaction(j)' => InTransaction(j)
         /\ spoiled \subseteq spoiled'
<1>1. CASE Start(i)
  BY <1>1 DEF Start, SameNames, Writing, ChangesNames, HasNames, InTransaction, TypeOK, disk,
              bounds, ghosts
<1>2. CASE \/ initialize(i) \/ post(i) \/ UpdateUserStatsForLogin(i)
           \/ beginday(i) \/ begindayDone(i) \/ WriteZlog(i)
  <2>1. /\ pc[i] \in {"tx", "zlog"} /\ ~ChangesNames(i)
        /\ pc'[i] \in {"zlog", "commit"} /\ \A j \in Instances \ {i} : pc'[j] = pc[j]
        /\ UNCHANGED <<namesLst, names, version, registered, claimed, seen, op>>
        /\ spoiled \subseteq spoiled'
    <3>1. CASE initialize(i) \/ post(i) \/ UpdateUserStatsForLogin(i)
      BY <3>1 DEF initialize, post, UpdateUserStatsForLogin, Edit, InTx, ChangesNames, TypeOK,
                  disk, bounds, ghosts
    <3>2. CASE beginday(i)
      BY <3>2 DEF beginday, Edit, InTx, ChangesNames, TypeOK, bounds
    <3>3. CASE begindayDone(i) \/ WriteZlog(i)
      BY <3>3 DEF begindayDone, WriteZlog, Edit, InTx, ChangesNames, TypeOK, LockInv, disk, bounds,
                  ghosts
    <3> QED BY <1>2, <3>1, <3>2, <3>3
  <2>2. HasNames(i)' => HasNames(i)
    BY <2>1 DEF HasNames
  <2>3. \A j \in Instances \ {i} : /\ HasNames(j)' <=> HasNames(j)
                                   /\ Writing(j)' <=> Writing(j)
                                   /\ InTransaction(j)' <=> InTransaction(j)
    BY <2>1 DEF HasNames, Writing, ChangesNames, InTransaction
  <2>4. ~Writing(i) /\ ~Writing(i)' /\ InTransaction(i)
    BY <2>1 DEF Writing, ChangesNames, InTransaction
  <2> QED BY <2>1, <2>2, <2>3, <2>4 DEF SameNames
<1> QED BY <1>1, <1>2

\* The steps that read STATUS.DAT: nobody is in a transaction, and an instance
\* that has no need to load NAMES.LST has seen its last change.
LEMMA ReadsStatus ==
  ASSUME Exclusive, TypeOK, LockInv, Awake', NEW i \in Instances,
         \/ RefreshStatusCache(i)
         \/ \E o \in Ops \cup {Xinit} : BeginTransaction(i, o)
  PROVE  /\ SameNames /\ Awake /\ seen'[i] = version
         /\ \A j \in Instances : ~InTransaction(j)
         /\ \A j \in Instances \ {i} : ~InTransaction(j)'
         /\ \A j \in Instances \ {i} : pc'[j] = pc[j]
         /\ status'[i] = file
         /\ \A j \in Instances \ {i} : status'[j] = status[j]
         /\ UNCHANGED file
<1>1. /\ CanOpen(i) /\ pc[i] \in {"start", "idle"}
      /\ pc'[i] \in {"load", "idle", "loadTx", "tx"}
      /\ \A j \in Instances \ {i} : pc'[j] = pc[j] /\ op'[j] = op[j]
      /\ seen' = [seen EXCEPT ![i] = version]
      /\ status' = [status EXCEPT ![i] = file]
      /\ UNCHANGED <<file, namesLst, names, version, registered>>
  <2>1. CASE RefreshStatusCache(i)
    BY <2>1 DEF RefreshStatusCache, Get, TypeOK, disk
  <2>2. CASE \E o \in Ops \cup {Xinit} : BeginTransaction(i, o)
    BY <2>2 DEF BeginTransaction, Begins, Get, TypeOK
  <2> QED BY <2>1, <2>2
<1>2. HasNames(i)' => HasNames(i) /\ seen[i] = version
  <2>1. CASE RefreshStatusCache(i)
    BY <2>1, Tags, FlagAssumption DEF RefreshStatusCache, Get, FlagChanged, HasNames, TypeOK, Awake,
                                      ListRisks
  <2>2. ASSUME NEW o \in Ops \cup {Xinit}, BeginTransaction(i, o), HasNames(i)'
        PROVE  HasNames(i) /\ seen[i] = version
    <3>1. pc[i] = "idle"
      BY <2>2, <1>1 DEF BeginTransaction, Begins, Get, HasNames, Xinit, Op, TypeOK
    <3>2. ~FlagChanged(i)
      BY <2>2, <3>1 DEF BeginTransaction, Get, HasNames, TypeOK
    <3>3. seen[i] = version
      BY <2>2, <3>1, <3>2 DEF BeginTransaction, Get, FlagChanged, Awake, ListRisks
    <3> QED BY <3>1, <3>3 DEF HasNames
  <2> QED BY <2>1, <2>2
<1>3. Awake
  BY DEF Awake, RefreshStatusCache, BeginTransaction, Get
<1>4. \A j \in Instances : ~InTransaction(j)
  <2>1. ~InTransaction(i)
    BY <1>1 DEF InTransaction
  <2> QED BY <1>1, <1>3, <2>1, Tags, Alone
<1>5. \A j \in Instances : pc[j] \notin {"write", "commit"} /\ pc'[j] \notin {"write", "commit"}
  BY <1>1, <1>4 DEF InTransaction
<1>6. SameNames
  <2>1. \A j \in Instances \ {i} : HasNames(j)' <=> HasNames(j)
    BY <1>1 DEF HasNames
  <2>2. \A j \in Instances : ~Writing(j) /\ ~Writing(j)'
    BY <1>5 DEF Writing
  <2> QED BY <1>1, <1>2, <1>5, <2>1, <2>2 DEF SameNames, TypeOK
<1>7. seen'[i] = version /\ status'[i] = file
      /\ \A j \in Instances \ {i} : status'[j] = status[j]
  BY <1>1 DEF TypeOK
<1>8. \A j \in Instances \ {i} : ~InTransaction(j)'
  BY <1>1, <1>4 DEF InTransaction
<1> QED BY <1>1, <1>3, <1>4, <1>6, <1>7, <1>8

\* The edit of the list begins: the lists of the others are left alone.
LEMMA EditsNames ==
  ASSUME TypeOK, NEW i \in Instances, InsertSmallRecord(i) \/ DeleteSmallRecord(i)
  PROVE  /\ pc[i] = "tx" /\ ChangesNames(i)
         /\ op[i].kind = "DeleteSmallRecord" => op[i].user \in names[i]
         /\ names'[i] = IF op[i].kind = "InsertSmallRecord" THEN names[i] \cup {op[i].user}
                          ELSE names[i] \ {op[i].user}
         /\ \A j \in Instances \ {i} : names'[j] = names[j] /\ pc'[j] = pc[j]
         /\ UNCHANGED <<file, claimed, op, version, seen>>
         /\ \/ /\ pc'[i] = "write" /\ namesLst' = {}
               /\ UNCHANGED <<status, registered, spoiled>>
            \/ /\ pc'[i] = "commit" /\ UNCHANGED namesLst
               /\ registered' = registered \ {op[i].user}
               /\ spoiled' = spoiled \cup {"notSaved"}
<1>1. CASE InsertSmallRecord(i)
  BY <1>1 DEF InsertSmallRecord, SaveNames, Truncate, SaveFails, Edit, InTx, ChangesNames, TypeOK
<1>2. CASE DeleteSmallRecord(i)
  BY <1>2 DEF DeleteSmallRecord, SaveNames, Truncate, SaveFails, Edit, InTx, ChangesNames, TypeOK
<1> QED BY <1>1, <1>2

\* No step drops a registered user, crashes included.
LEMMA NextNames ==
  ASSUME Exclusive, TypeOK, LockInv, NamesInv, [Next]_vars
  PROVE  NamesInv'
<1> SUFFICES ASSUME Awake' PROVE NamesInv'
  BY DEF NamesInv
<1> USE DEF disk, bounds, ghosts
\* A step that changes no list and nobody's record in USER.LST.
<1>1. ASSUME SameNames, Awake, UNCHANGED <<claimed, seen, op>>,
             \A j \in Instances : InTransaction(j)' => InTransaction(j)
      PROVE  NamesInv'
  BY <1>1, SameNamesInv DEF NamesInv
<1>2. ASSUME Midnight PROVE NamesInv'
  BY <1>1, <1>2 DEF Midnight, SameNames, Writing, ChangesNames, HasNames, InTransaction, Awake, TypeOK
<1>3. ASSUME NEW i \in Instances,
             \/ Start(i) \/ initialize(i) \/ post(i) \/ UpdateUserStatsForLogin(i)
             \/ beginday(i) \/ begindayDone(i) \/ WriteZlog(i)
      PROVE  NamesInv'
  BY <1>1, <1>3, KeepsNames DEF Awake
<1>4. ASSUME NEW i \in Instances, Crash(i) PROVE NamesInv'
  <2>1. /\ pc' = [pc EXCEPT ![i] = "down"]
        /\ registered' = IF HalfDone(i) = {"cut"} THEN registered \ {op[i].user} ELSE registered
        /\ UNCHANGED <<namesLst, claimed, names, op, version, seen>>
        /\ Awake /\ HalfDone(i) # {"emptied"}
    BY <1>4 DEF Crash, Awake, ListRisks
  <2>2. pc[i] # "write"
    BY <2>1 DEF HalfDone
  <2>3. CASE Writing(i)
    <3>1. registered' = registered \ {op[i].user}
      <4>1. HalfDone(i) = {"cut"}
        BY <2>2, <2>3 DEF HalfDone, Writing, ChangesNames
      <4> QED BY <2>1, <4>1
    <3>2. \A j \in Instances \ {i} : ~InTransaction(j)
      BY <2>1, <2>3, Tags, Alone DEF Writing, InTransaction
    <3>3. \A j \in Instances \ {i} : /\ HasNames(j)' <=> HasNames(j)
                                     /\ pc'[j] = pc[j] /\ ~Writing(j)
      BY <2>1, <3>2 DEF HasNames, Writing, InTransaction, TypeOK
    <3>4. ~HasNames(i)' /\ \A j \in Instances : ~InTransaction(j)' /\ ~Writing(j)'
      BY <2>1, <3>2, <3>3 DEF HasNames, Writing, InTransaction, TypeOK
    <3>5. \A j \in Instances : pc[j] # "write" /\ pc'[j] # "write" /\ pc'[j] # "commit"
      BY <2>1, <2>2, <3>2, <3>4 DEF InTransaction
    <3>6. \A j \in Instances : HasNames(j)' /\ seen'[j] = version' => registered' \subseteq names'[j]
      BY <2>1, <2>3, <3>1, <3>3, <3>4 DEF NamesInv
    <3>7. registered' \subseteq namesLst' /\ registered' \subseteq claimed'
      BY <2>1, <3>1, <3>5 DEF NamesInv
    <3> QED BY <2>1, <3>4, <3>5, <3>6, <3>7 DEF NamesInv
  <2>4. CASE ~Writing(i)
    <3>1. registered' = registered
      BY <2>1, <2>4 DEF HalfDone, Writing
    <3>2. \A j \in Instances \ {i} : pc'[j] = pc[j]
      BY <2>1 DEF TypeOK
    <3>3. pc'[i] = "down"
      BY <2>1 DEF TypeOK
    <3>4. SameNames
      BY <2>1, <2>2, <2>4, <3>1, <3>2, <3>3 DEF SameNames, HasNames, Writing, ChangesNames
    <3> QED BY <1>1, <2>1, <3>2, <3>3, <3>4 DEF InTransaction
  <2> QED BY <2>3, <2>4
<1>5. ASSUME NEW i \in Instances, RefreshStatusCache(i) PROVE NamesInv'
  <2>1. SameNames /\ Awake /\ claimed' = claimed
        /\ \A j \in Instances \ {i} : ~InTransaction(j)'
    BY <1>5, ReadsStatus DEF RefreshStatusCache
  <2>2. ~InTransaction(i)'
    BY <1>5 DEF RefreshStatusCache, Get, InTransaction, TypeOK
  <2> QED BY <2>1, <2>2, SameNamesInv DEF NamesInv
<1>6. ASSUME NEW i \in Instances, NEW o \in Ops \cup {Xinit}, BeginTransaction(i, o) PROVE NamesInv'
  <2>1. SameNames /\ Awake /\ seen'[i] = version
        /\ \A j \in Instances \ {i} : ~InTransaction(j)'
    BY <1>6, ReadsStatus
  <2>2. /\ op'[i] = o
        /\ claimed' = IF o.kind = "InsertSmallRecord" THEN claimed \cup {o.user} ELSE claimed
    BY <1>6 DEF BeginTransaction, Begins, TypeOK
  <2> QED BY <2>1, <2>2, SameNamesInv DEF NamesInv
<1>7. ASSUME NEW i \in Instances, LoadFails(i) \/ read_namesFails(i) PROVE NamesInv'
  BY <1>7, Tags DEF LoadFails, read_namesFails, Awake, ListRisks
<1>8. ASSUME NEW i \in Instances, NEW o \in Ops \cup {Xinit}, BeginGivesUp(i, o) PROVE NamesInv'
  BY <1>8 DEF BeginGivesUp, Awake, ListRisks
\* The list is loaded: somebody else may have changed it, and then only the
\* user concerned is not as registered.
<1>9. ASSUME NEW i \in Instances, Load(i) \/ read_names(i) PROVE NamesInv'
  <2>1. /\ pc[i] \in {"load", "loadTx", "read_names"} /\ CanOpenNames(i)
        /\ pc'[i] = IF pc[i] = "loadTx" THEN "tx" ELSE "idle"
        /\ names'[i] = namesLst
        /\ \A j \in Instances \ {i} : names'[j] = names[j] /\ pc'[j] = pc[j]
        /\ UNCHANGED <<namesLst, claimed, op, version, seen, registered>> /\ Awake
    BY <1>9 DEF Load, read_names, TypeOK, Awake
  <2>2. \A j \in Instances : pc[j] # "write" /\ pc'[j] # "write"
    BY <2>1 DEF CanOpenNames
  <2>3. registered \subseteq namesLst
    BY <2>1, <2>2 DEF NamesInv
  <2>4. \A j \in Instances : /\ Writing(j)' <=> Writing(j)
                             /\ InTransaction(j)' <=> InTransaction(j)
    BY <2>1 DEF Writing, ChangesNames, InTransaction
  <2>5. \A j \in Instances \ {i} : HasNames(j)' <=> HasNames(j)
    BY <2>1 DEF HasNames
  <2>6. \A j \in Instances : OthersQuiet(j)' <=> OthersQuiet(j)
    BY <2>4 DEF OthersQuiet
  <2>7. \A j \in Instances : HasNames(j)' /\ seen'[j] = version' /\ OthersQuiet(j)' =>
          registered' \subseteq names'[j]
    BY <2>1, <2>3, <2>5, <2>6 DEF NamesInv
  <2>8. \A k, j \in Instances :
          k # j /\ Writing(k)' /\ HasNames(j)' /\ seen'[j] = version' =>
            registered' \ {op'[k].user} \subseteq names'[j]
    BY <2>1, <2>3, <2>4, <2>5 DEF NamesInv
  <2>9. \A j \in Instances : pc'[j] = "commit" <=> pc[j] = "commit"
    BY <2>1
  <2> QED BY <2>1, <2>2, <2>3, <2>4, <2>7, <2>8, <2>9 DEF NamesInv
<1>10. ASSUME NEW i \in Instances, InsertSmallRecord(i) \/ DeleteSmallRecord(i) PROVE NamesInv'
  <2> DEFINE u == op[i].user
  <2>1. Awake
    BY <1>10, EditsNames DEF Awake
  <2>2. /\ pc[i] = "tx" /\ ChangesNames(i)
        /\ names'[i] = IF op[i].kind = "InsertSmallRecord" THEN names[i] \cup {u} ELSE names[i] \ {u}
        /\ \A j \in Instances \ {i} : names'[j] = names[j] /\ pc'[j] = pc[j]
        /\ UNCHANGED <<claimed, op, version, seen>>
    BY <1>10, EditsNames
  <2>3. \A j \in Instances \ {i} : ~InTransaction(j)
    BY <2>1, <2>2, Tags, Alone DEF InTransaction
  <2>4. \A j \in Instances \ {i} : ~InTransaction(j)' /\ ~Writing(j) /\ ~Writing(j)'
                                   /\ pc'[j] \notin {"write", "commit"}
    BY <2>2, <2>3 DEF InTransaction, Writing
  <2>5. HasNames(i) /\ seen[i] = version /\ OthersQuiet(i) /\ InTransaction(i)
    BY <2>1, <2>2, <2>4 DEF HasNames, OthersQuiet, ChangesNames, InTransaction, NamesInv
  <2>6. registered \subseteq names[i] /\ registered \subseteq claimed
    BY <2>1, <2>5 DEF NamesInv
  <2>7. ~Writing(i)
    BY <2>2 DEF Writing
  <2>8. \A j \in Instances \ {i} : HasNames(j)' /\ seen'[j] = version' => registered \subseteq names'[j]
    BY <2>1, <2>2, <2>4, <2>7 DEF HasNames, OthersQuiet, NamesInv
  <2>9. \A j \in Instances : InTransaction(j)' => j = i
    BY <2>4
  <2>10. op[i].kind = "InsertSmallRecord" => u \in claimed
    BY <2>1, <2>5 DEF NamesInv
  <2>11. registered \subseteq namesLst
    BY <2>1, <2>2, <2>3 DEF NamesInv, InTransaction
  <2>12. CASE /\ pc'[i] = "write" /\ namesLst' = {}
              /\ UNCHANGED <<status, registered, spoiled>>
    <3>1. Entered(i)' \subseteq names'[i]
      BY <2>2, <2>6, <2>12 DEF Entered, ChangesNames
    <3>2. ~HasNames(i)' /\ \A j \in Instances : ~Writing(j)' /\ pc'[j] # "commit"
      BY <2>4, <2>12 DEF HasNames, Writing
    <3>3. \A j \in Instances : seen'[j] <= version'
      BY <2>1, <2>2 DEF NamesInv
    <3> QED
      BY <2>2, <2>4, <2>5, <2>6, <2>8, <2>9, <2>10, <2>12, <3>1, <3>2, <3>3 DEF NamesInv
  <2>13. CASE /\ pc'[i] = "commit" /\ UNCHANGED namesLst
              /\ registered' = registered \ {u}
    <3>1. Writing(i)' /\ \A j \in Instances \ {i} : ~OthersQuiet(j)'
      BY <2>2, <2>13 DEF Writing, ChangesNames, OthersQuiet
    <3>2. registered' \subseteq names'[i] /\ registered' \subseteq namesLst'
          /\ registered' \subseteq claimed' /\ u \notin registered'
      BY <2>2, <2>6, <2>11, <2>13
    <3>3. \A j \in Instances : seen'[j] <= version'
      BY <2>1, <2>2 DEF NamesInv
    <3>4. \A j \in Instances : pc'[j] # "write" /\ (pc'[j] = "commit" => j = i)
      BY <2>4, <2>13
    <3>5. \A j \in Instances : Writing(j)' => j = i
      BY <2>4
    <3> QED
      BY <2>2, <2>5, <2>8, <2>9, <2>10, <2>13, <3>1, <3>2, <3>3, <3>4, <3>5 DEF NamesInv
  <2> QED BY <1>10, <2>12, <2>13, EditsNames
<1>11. ASSUME NEW i \in Instances, WriteNames(i) PROVE NamesInv'
  <2> DEFINE u == op[i].user
  <2>1. /\ Awake /\ pc[i] = "write" /\ ChangesNames(i)
        /\ namesLst' = names[i] /\ registered' = Entered(i)
        /\ pc'[i] = "commit" /\ \A j \in Instances \ {i} : pc'[j] = pc[j]
        /\ UNCHANGED <<claimed, names, op, version, seen>>
    BY <1>11 DEF WriteNames, Edit, Awake, LockInv, TypeOK
  <2>2. \A j \in Instances \ {i} : ~InTransaction(j)
    BY <2>1, Tags, Alone DEF InTransaction
  <2>3. \A j \in Instances \ {i} : ~InTransaction(j)' /\ ~Writing(j) /\ ~Writing(j)'
                                   /\ pc'[j] \notin {"write", "commit"}
                                   /\ (HasNames(j)' <=> HasNames(j))
    BY <2>1, <2>2 DEF InTransaction, Writing, HasNames
  <2>4. ~Writing(i) /\ Writing(i)' /\ InTransaction(i)
    BY <2>1 DEF Writing, ChangesNames, InTransaction
  <2>5. \A j \in Instances \ {i} : HasNames(j)' /\ seen'[j] = version' => registered \subseteq names'[j]
    BY <2>1, <2>3, <2>4 DEF OthersQuiet, NamesInv
  <2>6. registered' \ {u} \subseteq registered
    BY <2>1 DEF Entered
  <2>7. registered' \subseteq names'[i] /\ registered' \subseteq namesLst'
    BY <2>1 DEF NamesInv
  <2>8. seen[i] = version /\ (op[i].kind = "InsertSmallRecord" => u \in claimed)
    BY <2>1, <2>4 DEF NamesInv
  <2>9. registered' \subseteq claimed' /\ (op[i].kind = "DeleteSmallRecord" => u \notin registered')
    BY <2>1, <2>8 DEF Entered, NamesInv
  <2>10. \A j \in Instances \ {i} : ~OthersQuiet(j)'
    BY <2>4 DEF OthersQuiet
  <2>11. \A j \in Instances : /\ InTransaction(j)' => j = i
                              /\ pc'[j] = "commit" => j = i
                              /\ Writing(j)' => j = i
                              /\ pc'[j] # "write"
    BY <2>1, <2>3
  <2>12. \A j \in Instances : seen'[j] <= version'
    BY <2>1 DEF NamesInv
  <2> QED
    BY <2>1, <2>5, <2>6, <2>7, <2>8, <2>9, <2>10, <2>11, <2>12 DEF NamesInv
<1>12. ASSUME NEW i \in Instances, AbortTransaction(i) PROVE NamesInv'
  <2>1. /\ Awake /\ pc[i] = "tx" /\ op[i].kind = "DeleteSmallRecord" /\ op[i].user \notin names[i]
        /\ pc'[i] = "idle" /\ \A j \in Instances \ {i} : pc'[j] = pc[j]
        /\ claimed' = claimed \ {op[i].user}
        /\ UNCHANGED <<namesLst, names, op, version, seen, registered>>
    BY <1>12 DEF AbortTransaction, InTx, Left, Awake, TypeOK
  <2>2. \A j \in Instances \ {i} : ~InTransaction(j) /\ ~Writing(j)
    BY <2>1, Tags, Alone DEF InTransaction, Writing
  <2>3. HasNames(i) /\ seen[i] = version /\ OthersQuiet(i)
    BY <2>1, <2>2 DEF HasNames, OthersQuiet, InTransaction, NamesInv
  <2>4. registered \subseteq claimed'
    BY <2>1, <2>3 DEF NamesInv
  <2>5. SameNames
    BY <2>1, <2>2, <2>3 DEF SameNames, HasNames, Writing, ChangesNames
  <2>6. \A j \in Instances : ~InTransaction(j)'
    BY <2>1, <2>2 DEF InTransaction
  <2> QED BY <2>1, <2>4, <2>5, <2>6, SameNamesInv
<1>13. ASSUME NEW i \in Instances, CommitTransaction(i) PROVE NamesInv'
  <2>1. /\ Awake /\ pc[i] = "commit"
        /\ pc'[i] = IF op[i].kind = "xinit" THEN "read_names" ELSE "idle"
        /\ \A j \in Instances \ {i} : pc'[j] = pc[j]
        /\ claimed' = Left(op[i])
        /\ version' = IF ChangesNames(i) THEN version + 1 ELSE version
        /\ seen' = IF ChangesNames(i) THEN [seen EXCEPT ![i] = version + 1] ELSE seen
        /\ UNCHANGED <<namesLst, names, op, registered>>
    BY <1>13 DEF CommitTransaction, Settle, Awake, TypeOK
  <2>2. \A j \in Instances \ {i} : ~InTransaction(j)
    BY <2>1, Tags, Alone DEF InTransaction
  <2>3. \A j \in Instances : ~InTransaction(j)' /\ ~Writing(j)' /\ pc'[j] \notin {"write", "commit"}
    BY <2>1, <2>2 DEF InTransaction, Writing
  <2>4. \A j \in Instances \ {i} : ~Writing(j) /\ pc[j] # "write" /\ (HasNames(j)' <=> HasNames(j))
    BY <2>1, <2>2 DEF InTransaction, Writing, HasNames
  <2>5. seen[i] = version /\ OthersQuiet(i) /\ version \in Nat
    BY <2>1, <2>4 DEF NamesInv, InTransaction, OthersQuiet, TypeOK
  <2>6. registered \subseteq claimed'
    BY <2>1 DEF Left, NamesInv
  <2>7. CASE ChangesNames(i)
    <3>1. version' = version + 1 /\ seen'[i] = version'
          /\ \A j \in Instances \ {i} : seen'[j] <= version /\ seen'[j] \in Nat
      BY <2>1, <2>7 DEF NamesInv, TypeOK
    <3>2. HasNames(i)
      BY <2>1, <2>7 DEF HasNames, ChangesNames
    <3>3. \A j \in Instances : seen'[j] = version' => registered \subseteq names[j]
      BY <2>1, <2>5, <3>1, <3>2 DEF NamesInv
    <3>4. \A j \in Instances : seen'[j] <= version'
      BY <2>5, <3>1
    <3>5. registered' \subseteq namesLst'
      BY <2>1, <2>4 DEF NamesInv
    <3> QED BY <2>1, <2>3, <2>6, <3>3, <3>4, <3>5 DEF NamesInv
  <2>8. CASE ~ChangesNames(i)
    <3>1. HasNames(i)' => HasNames(i)
      BY <2>1 DEF HasNames
    <3>2. SameNames
      BY <2>1, <2>3, <2>4, <2>8, <3>1 DEF SameNames, Writing
    <3> QED BY <2>1, <2>3, <2>6, <3>2, SameNamesInv
  <2> QED BY <2>7, <2>8
<1>14. ASSUME NEW i \in Instances, CommitFails(i) PROVE NamesInv'
  BY <1>14, Tags DEF CommitFails, Settle, LockInv, InTransaction, Clean, Awake
<1>15. CASE UNCHANGED vars
  BY <1>1, <1>15 DEF vars, SameNames, Writing, ChangesNames, HasNames, InTransaction, Awake, TypeOK
<1> QED
  BY <1>2, <1>3, <1>4, <1>5, <1>6, <1>7, <1>8, <1>9, <1>10, <1>11, <1>12, <1>13, <1>14,
     <1>15 DEF Next, Body

-----------------------------------------------------------------------------
(* The number of users and the change flag.                                *)

Sound == spoiled \cap CountRisks = {}

\* NAMES.LST holds the registered users and nobody else; a copy that has seen
\* the last change is as good; and the record in the file, or the one about to
\* be committed, has their number.
UsersInv ==
  Sound =>
    /\ (\A i \in Instances : pc[i] # "write") => namesLst = registered
    /\ \A i \in Instances :
         pc[i] \in {"loadTx", "tx", "write"} /\ op[i].kind = "InsertSmallRecord" =>
           op[i].user \notin registered
    /\ \A i \in Instances : pc[i] = "write" =>
         /\ names[i] = Entered(i)
         /\ op[i].kind = "DeleteSmallRecord" => op[i].user \in registered
    /\ \A i \in Instances :
         HasNames(i) /\ seen[i] = version /\ OthersQuiet(i) => names[i] = registered
    /\ (\A i \in Instances : ~Writing(i)) => file.users = Cardinality(registered)
    /\ \A i \in Instances : pc[i] = "commit" => status[i].users = Cardinality(registered)

\* The flag in the file counts the changes, and the one in a cache those that
\* the instance has seen, or is about to make.
FlagInv ==
  Sound =>
    /\ file.flag = version % FlagMod
    /\ \A i \in Instances : pc[i] \notin {"down", "start"} =>
         status[i].flag = (IF Writing(i) THEN version + 1 ELSE seen[i]) % FlagMod

LEMMA SoundTags == /\ Sound => Awake
                   /\ "notSaved" \in spoiled => ~Sound
                   /\ "cut" \in spoiled => ~Sound
BY DEF Sound, Awake, CountRisks

\* The edits of a record as far as they concern the users, the flag and the calls.
LEMMA Counts ==
  ASSUME NEW rec \in Record
  PROVE  /\ IncrementQScanPointer(rec).users = rec.users
         /\ IncrementQScanPointer(rec).flag = rec.flag
         /\ IncrementQScanPointer(rec).callstoday = rec.callstoday
         /\ IncrementNumCallsToday(rec).users = rec.users
         /\ IncrementNumCallsToday(rec).flag = rec.flag
         /\ IncrementNumCallsToday(rec).callstoday = rec.callstoday + 1
         /\ NewDay(rec).users = rec.users
         /\ NewDay(rec).flag = rec.flag
         /\ NewDay(rec).callstoday = 0
<1>1. /\ IncrementQScanPointer(rec).users = rec.users
      /\ IncrementQScanPointer(rec).flag = rec.flag
      /\ IncrementQScanPointer(rec).callstoday = rec.callstoday
  BY DEF Record, IncrementQScanPointer
<1>2. /\ IncrementNumCallsToday(rec).users = rec.users
      /\ IncrementNumCallsToday(rec).flag = rec.flag
      /\ IncrementNumCallsToday(rec).callstoday = rec.callstoday + 1
  BY DEF Record, IncrementNumCallsToday
<1>3. /\ NewDay(rec).users = rec.users
      /\ NewDay(rec).flag = rec.flag
      /\ NewDay(rec).callstoday = 0
  BY DEF Record, NewDay
<1> QED BY <1>1, <1>2, <1>3

\* NAMES.LST is finite, and gets longer and shorter by one.
LEMMA ListSizes ==
  ASSUME NEW S \in SUBSET Users, NEW u
  PROVE  /\ Cardinality(S) \in Nat
         /\ u \notin S => Cardinality(S \cup {u}) = Cardinality(S) + 1
         /\ u \in S => Cardinality(S) # 0 /\ Cardinality(S \ {u}) = Cardinality(S) - 1
<1>1. IsFiniteSet(S)
  BY UsersAssumption, FS_Subset
<1>2. Cardinality(S) \in Nat
  BY <1>1, FS_CardinalityType
<1>3. u \notin S => Cardinality(S \cup {u}) = Cardinality(S) + 1
  BY <1>1, FS_AddElement
<1>4. u \in S => Cardinality(S \ {u}) = Cardinality(S) - 1
  BY <1>1, FS_RemoveElement
<1>5. u \in S => Cardinality(S) # 0
  BY <1>1, FS_EmptySet
<1> QED BY <1>2, <1>3, <1>4, <1>5

\* A step that changes no list, and of the record in the file not the count.
LEMMA SameUsersInv ==
  ASSUME TypeOK, UsersInv, SameNames, Sound, file'.users = file.users,
         \A j \in Instances :
           /\ pc'[j] \in {"loadTx", "tx", "write"} /\ op'[j].kind = "InsertSmallRecord" =>
                op'[j].user \notin registered
           /\ pc'[j] = "commit" => status'[j].users = Cardinality(registered)
  PROVE  UsersInv'
<1>1. \A j \in Instances : OthersQuiet(j)' <=> OthersQuiet(j)
  BY DEF SameNames, OthersQuiet
<1>2. \A j \in Instances : pc'[j] = "write" => Entered(j)' = Entered(j)
  BY DEF SameNames, Entered
<1>3. \A j \in Instances : HasNames(j)' /\ seen'[j] = version' /\ OthersQuiet(j)' =>
        names'[j] = registered'
  BY <1>1 DEF SameNames, UsersInv
<1>4. (\A j \in Instances : pc'[j] # "write") => namesLst' = registered'
  BY DEF SameNames, UsersInv
<1>5. \A j \in Instances : pc'[j] = "write" =>
        names'[j] = Entered(j)' /\ (op'[j].kind = "DeleteSmallRecord" => op'[j].user \in registered')
  BY <1>2 DEF SameNames, UsersInv
<1>6. (\A j \in Instances : ~Writing(j)') => file'.users = Cardinality(registered')
  BY DEF SameNames, UsersInv
<1> QED BY <1>3, <1>4, <1>5, <1>6 DEF UsersInv, SameNames

\* No step makes the count wrong.
LEMMA NextUsers ==
  ASSUME Exclusive, TypeOK, LockInv, NamesInv, UsersInv, [Next]_vars
  PROVE  UsersInv'
<1> SUFFICES ASSUME Sound' PROVE UsersInv'
  BY DEF UsersInv
<1> USE DEF disk, bounds, ghosts
<1> SUFFICES ASSUME Awake' PROVE UsersInv'
  BY SoundTags DEF Sound, Awake, CountRisks
<1>1. ASSUME Midnight \/ UNCHANGED vars PROVE UsersInv'
  <2>1. UNCHANGED <<file, status, namesLst, names, pc, op, version, seen, registered, spoiled>>
    BY <1>1 DEF Midnight, vars
  <2> QED BY <2>1 DEF UsersInv, Sound, Writing, ChangesNames, HasNames, OthersQuiet, Entered
<1>2. ASSUME NEW i \in Instances, Start(i) PROVE UsersInv'
  <2>1. /\ SameNames /\ Sound /\ UNCHANGED <<file, status, op>>
        /\ pc' = [pc EXCEPT ![i] = "start"]
    BY <1>2, KeepsNames DEF Start, Sound
  <2> QED BY <2>1, SameUsersInv DEF UsersInv, TypeOK
\* A body that leaves NAMES.LST alone: the record it will commit has the count.
<1>3. ASSUME NEW i \in Instances, Sound, SameNames, pc[i] \in {"tx", "zlog"}, ~ChangesNames(i),
             pc'[i] \in {"zlog", "commit"},
             status'[i].users = status[i].users,
             \A j \in Instances \ {i} : pc'[j] = pc[j] /\ status'[j] = status[j],
             UNCHANGED <<file, op>>
      PROVE  UsersInv'
  <2>1. Clean
    BY <1>3, SoundTags, Tags
  <2>2. \A j \in Instances \ {i} : ~InTransaction(j)
    BY <1>3, <2>1, Alone DEF InTransaction
  <2>3. \A j \in Instances : ~Writing(j)
    BY <1>3, <2>2 DEF Writing, InTransaction
  <2>4. file.users = Cardinality(registered) /\ status[i] = file
    BY <1>3, <2>1, <2>3 DEF UsersInv, LockInv, InTransaction
  <2>5. \A j \in Instances : pc'[j] \in {"loadTx", "tx", "write", "commit"} => j = i
    BY <1>3, <2>2 DEF InTransaction
  <2> QED BY <1>3, <2>4, <2>5, SameUsersInv
<1>4. ASSUME NEW i \in Instances, initialize(i) \/ post(i) \/ UpdateUserStatsForLogin(i)
      PROVE  UsersInv'
  <2>1. SameNames
    BY <1>4, KeepsNames
  <2>2. /\ Sound /\ pc[i] = "tx" /\ ~ChangesNames(i) /\ pc'[i] = "commit"
        /\ status'[i].users = status[i].users
        /\ \A j \in Instances \ {i} : pc'[j] = pc[j] /\ status'[j] = status[j]
        /\ UNCHANGED <<file, op>>
    BY <1>4, Counts DEF initialize, post, UpdateUserStatsForLogin, Edit, InTx, ChangesNames, Sound,
                        TypeOK
  <2> QED BY <1>3, <2>1, <2>2
<1>5. ASSUME NEW i \in Instances, beginday(i) \/ begindayDone(i) \/ WriteZlog(i) PROVE UsersInv'
  <2>1. SameNames
    BY <1>5, KeepsNames
  <2>2. NewDay(status[i]).users = status[i].users
    BY Counts DEF TypeOK
  <2>3. /\ Sound /\ pc[i] \in {"tx", "zlog"} /\ ~ChangesNames(i) /\ pc'[i] \in {"zlog", "commit"}
        /\ status'[i].users = status[i].users
        /\ \A j \in Instances \ {i} : pc'[j] = pc[j] /\ status'[j] = status[j]
        /\ UNCHANGED <<file, op>>
    <3>1. CASE beginday(i)
      BY <2>2, <3>1 DEF beginday, Edit, InTx, ChangesNames, Sound, TypeOK
    <3>2. CASE begindayDone(i)
      BY <3>2 DEF begindayDone, Edit, InTx, ChangesNames, Sound, TypeOK
    <3>3. CASE WriteZlog(i)
      BY <2>2, <3>3 DEF WriteZlog, Edit, ChangesNames, Sound, TypeOK, LockInv
    <3> QED BY <1>5, <3>1, <3>2, <3>3
  <2> QED BY <1>3, <2>1, <2>3
<1>6. ASSUME NEW i \in Instances, Crash(i) PROVE UsersInv'
  <2>1. /\ pc' = [pc EXCEPT ![i] = "down"]
        /\ status' = [status EXCEPT ![i] = ZeroStatus]
        /\ registered' = IF HalfDone(i) = {"cut"} THEN registered \ {op[i].user} ELSE registered
        /\ UNCHANGED <<file, namesLst, names, op, version, seen>>
        /\ Sound /\ HalfDone(i) # {"emptied"} /\ HalfDone(i) # {"cut"}
    BY <1>6 DEF Crash, Sound, CountRisks, ListRisks
  <2>2. pc[i] # "write" /\ ~Writing(i)
    BY <2>1 DEF HalfDone, Writing, ChangesNames
  <2>3. /\ pc'[i] = "down" /\ registered' = registered
        /\ \A j \in Instances \ {i} : pc'[j] = pc[j] /\ status'[j] = status[j]
    BY <2>1 DEF TypeOK
  <2>4. SameNames
    BY <2>1, <2>2, <2>3 DEF SameNames, HasNames, Writing, ChangesNames
  <2> QED BY <2>1, <2>3, <2>4, SameUsersInv DEF UsersInv
<1>7. ASSUME NEW i \in Instances, RefreshStatusCache(i) PROVE UsersInv'
  <2>1. /\ SameNames /\ Sound
        /\ \A j \in Instances \ {i} : ~InTransaction(j)'
        /\ UNCHANGED file
    BY <1>7, ReadsStatus DEF RefreshStatusCache, Get, Sound
  <2>2. ~InTransaction(i)'
    BY <1>7 DEF RefreshStatusCache, Get, InTransaction, TypeOK
  <2> QED BY <2>1, <2>2, SameUsersInv DEF InTransaction
<1>8. ASSUME NEW i \in Instances, NEW o \in Ops \cup {Xinit}, BeginTransaction(i, o) PROVE UsersInv'
  <2>1. /\ SameNames /\ Awake /\ UNCHANGED file
        /\ \A j \in Instances \ {i} : ~InTransaction(j)'
    BY <1>8, ReadsStatus
  <2>2. Sound
    BY <1>8 DEF BeginTransaction, Get, Sound
  <2>3. /\ op'[i] = o /\ pc'[i] \in {"loadTx", "tx"}
        /\ o.kind = "InsertSmallRecord" => o.user \notin claimed
    BY <1>8 DEF BeginTransaction, Begins, Get, Wanted, TypeOK
  <2>4. registered \subseteq claimed
    BY <2>1 DEF NamesInv
  <2> QED BY <2>1, <2>2, <2>3, <2>4, SameUsersInv DEF InTransaction
<1>9. ASSUME NEW i \in Instances, LoadFails(i) \/ read_namesFails(i) PROVE UsersInv'
  BY <1>9, Tags, SoundTags DEF LoadFails, read_namesFails, Awake, ListRisks
<1>10. ASSUME NEW i \in Instances, NEW o \in Ops \cup {Xinit}, BeginGivesUp(i, o) PROVE UsersInv'
  BY <1>10 DEF BeginGivesUp, Awake, ListRisks
<1>11. ASSUME NEW i \in Instances, Load(i) \/ read_names(i) PROVE UsersInv'
  <2>1. /\ pc[i] \in {"load", "loadTx", "read_names"} /\ CanOpenNames(i)
        /\ pc'[i] = IF pc[i] = "loadTx" THEN "tx" ELSE "idle"
        /\ names'[i] = namesLst
        /\ \A j \in Instances \ {i} : names'[j] = names[j] /\ pc'[j] = pc[j]
        /\ UNCHANGED <<file, status, namesLst, op, version, seen, registered>> /\ Sound
    BY <1>11 DEF Load, read_names, TypeOK, Sound
  <2>2. \A j \in Instances : pc[j] # "write" /\ pc'[j] # "write"
    BY <2>1 DEF CanOpenNames
  <2>3. namesLst = registered
    BY <2>1, <2>2 DEF UsersInv
  <2>4. \A j \in Instances : /\ Writing(j)' <=> Writing(j)
                             /\ pc'[j] = "commit" <=> pc[j] = "commit"
                             /\ pc'[j] \in {"loadTx", "tx", "write"} =>
                                  pc[j] \in {"loadTx", "tx", "write"}
    BY <2>1 DEF Writing, ChangesNames
  <2>5. \A j \in Instances \ {i} : HasNames(j)' <=> HasNames(j)
    BY <2>1 DEF HasNames
  <2>6. \A j \in Instances : OthersQuiet(j)' <=> OthersQuiet(j)
    BY <2>4 DEF OthersQuiet
  <2>7. \A j \in Instances : HasNames(j)' /\ seen'[j] = version' /\ OthersQuiet(j)' =>
          names'[j] = registered'
    BY <2>1, <2>3, <2>5, <2>6 DEF UsersInv
  <2> QED BY <2>1, <2>2, <2>3, <2>4, <2>7 DEF UsersInv
<1>12. ASSUME NEW i \in Instances, InsertSmallRecord(i) \/ DeleteSmallRecord(i) PROVE UsersInv'
  <2> DEFINE u == op[i].user
  <2>1. /\ Sound /\ pc[i] = "tx" /\ ChangesNames(i)
        /\ op[i].kind = "DeleteSmallRecord" => u \in names[i]
        /\ names'[i] = IF op[i].kind = "InsertSmallRecord" THEN names[i] \cup {u} ELSE names[i] \ {u}
        /\ \A j \in Instances \ {i} : names'[j] = names[j] /\ pc'[j] = pc[j]
        /\ pc'[i] = "write" /\ namesLst' = {}
        /\ UNCHANGED <<file, op, version, seen, status, registered>>
    BY <1>12, EditsNames, SoundTags DEF Sound, CountRisks
  <2>2. \A j \in Instances \ {i} : ~InTransaction(j)
    BY <2>1, SoundTags, Tags, Alone DEF InTransaction
  <2>3. \A j \in Instances : ~Writing(j) /\ ~Writing(j)' /\ pc'[j] # "commit"
    BY <2>1, <2>2 DEF InTransaction, Writing
  <2>4. HasNames(i) /\ seen[i] = version /\ OthersQuiet(i)
    BY <2>1, <2>3, SoundTags DEF HasNames, OthersQuiet, ChangesNames, InTransaction, NamesInv
  <2>5. names[i] = registered
    BY <2>1, <2>4 DEF UsersInv
  <2>6. names'[i] = Entered(i)' /\ (op[i].kind = "DeleteSmallRecord" => u \in registered)
        /\ (op[i].kind = "InsertSmallRecord" => u \notin registered)
    BY <2>1, <2>5 DEF Entered, ChangesNames, UsersInv
  <2>7. ~HasNames(i)' /\ \A j \in Instances \ {i} : HasNames(j)' <=> HasNames(j)
    BY <2>1 DEF HasNames
  <2>8. \A j \in Instances : HasNames(j)' /\ seen'[j] = version' => names'[j] = registered'
    BY <2>1, <2>3, <2>7 DEF UsersInv, OthersQuiet
  <2>9. file.users = Cardinality(registered)
    BY <2>1, <2>3 DEF UsersInv
  <2>10. \A j \in Instances : pc'[j] \in {"loadTx", "tx", "write"} => j = i
    BY <2>1, <2>2 DEF InTransaction
  <2> QED BY <2>1, <2>3, <2>6, <2>8, <2>9, <2>10 DEF UsersInv
<1>13. ASSUME NEW i \in Instances, WriteNames(i) PROVE UsersInv'
  <2> DEFINE u == op[i].user
  <2>1. /\ Sound /\ pc[i] = "write" /\ ChangesNames(i)
        /\ namesLst' = names[i] /\ registered' = Entered(i)
        /\ status'[i] = Counted(i)
        /\ pc'[i] = "commit" /\ \A j \in Instances \ {i} : pc'[j] = pc[j]
        /\ UNCHANGED <<file, names, op, version, seen>>
    BY <1>13 DEF WriteNames, Edit, Sound, LockInv, TypeOK
  <2>2. \A j \in Instances \ {i} : ~InTransaction(j)
    BY <2>1, SoundTags, Tags, Alone DEF InTransaction
  <2>3. \A j \in Instances : ~Writing(j) /\ (pc'[j] \in {"loadTx", "tx", "write", "commit"} => j = i)
    BY <2>1, <2>2 DEF InTransaction, Writing
  <2>4. Writing(i)' /\ \A j \in Instances \ {i} : ~OthersQuiet(j)'
    BY <2>1 DEF Writing, ChangesNames, OthersQuiet
  <2>5. names[i] = registered' /\ namesLst' = registered'
    BY <2>1 DEF UsersInv
  <2>6. status[i].users = Cardinality(registered)
    <3>1. status[i] = file
      BY <2>1, SoundTags, Tags DEF LockInv, InTransaction
    <3> QED BY <2>1, <2>3, <3>1 DEF UsersInv
  <2>7. status'[i].users = Cardinality(registered')
    <3>1. registered \in SUBSET Users
      BY DEF TypeOK
    <3>2. CASE op[i].kind = "InsertSmallRecord"
      <4>1. u \notin registered /\ registered' = registered \cup {u}
        BY <2>1, <3>2 DEF UsersInv, Entered
      <4>2. Cardinality(registered') = Cardinality(registered) + 1
        BY <3>1, <4>1, ListSizes
      <4>3. status'[i].users = status[i].users + 1
        BY <2>1, <3>2, NamesEdits
      <4> QED BY <2>6, <4>2, <4>3
    <3>3. CASE op[i].kind = "DeleteSmallRecord"
      <4>1. u \in registered /\ registered' = registered \ {u}
        BY <2>1, <3>3 DEF UsersInv, Entered
      <4>2. /\ Cardinality(registered) # 0
            /\ Cardinality(registered') = Cardinality(registered) - 1
        BY <3>1, <4>1, ListSizes
      <4>3. status'[i].users = status[i].users - 1
        BY <2>1, <2>6, <3>3, <4>2, NamesEdits
      <4> QED BY <2>6, <4>2, <4>3
    <3> QED BY <2>1, <3>2, <3>3 DEF ChangesNames
  <2>8. \A j \in Instances : pc'[j] # "write"
    BY <2>1, <2>3
  <2>9. \A j \in Instances : pc'[j] = "commit" => j = i
    BY <2>3
  <2>10. \A j \in Instances : pc'[j] \notin {"loadTx", "tx", "write"}
    BY <2>1, <2>3
  <2> QED BY <2>1, <2>4, <2>5, <2>7, <2>8, <2>9, <2>10 DEF UsersInv
<1>14. ASSUME NEW i \in Instances, AbortTransaction(i) PROVE UsersInv'
  <2>1. /\ Sound /\ pc[i] = "tx" /\ op[i].kind = "DeleteSmallRecord"
        /\ pc'[i] = "idle" /\ \A j \in Instances \ {i} : pc'[j] = pc[j]
        /\ UNCHANGED <<file, status, namesLst, names, op, version, seen, registered>>
    BY <1>14 DEF AbortTransaction, InTx, Sound, TypeOK
  <2>2. \A j \in Instances \ {i} : ~InTransaction(j) /\ ~Writing(j)
    BY <2>1, SoundTags, Tags, Alone DEF InTransaction, Writing
  <2>3. HasNames(i)
    BY <2>1 DEF HasNames
  <2>4. SameNames
    BY <2>1, <2>2, <2>3 DEF SameNames, HasNames, Writing, ChangesNames
  <2>5. \A j \in Instances : ~InTransaction(j)'
    BY <2>1, <2>2 DEF InTransaction
  <2> QED BY <2>1, <2>4, <2>5, SameUsersInv DEF InTransaction
<1>15. ASSUME NEW i \in Instances, CommitTransaction(i) PROVE UsersInv'
  <2>1. /\ Sound /\ pc[i] = "commit" /\ file' = status[i]
        /\ pc'[i] = IF op[i].kind = "xinit" THEN "read_names" ELSE "idle"
        /\ \A j \in Instances \ {i} : pc'[j] = pc[j]
        /\ version' = IF ChangesNames(i) THEN version + 1 ELSE version
        /\ seen' = IF ChangesNames(i) THEN [seen EXCEPT ![i] = version + 1] ELSE seen
        /\ UNCHANGED <<namesLst, names, op, registered>>
    BY <1>15 DEF CommitTransaction, Settle, Sound, TypeOK
  <2>2. \A j \in Instances \ {i} : ~InTransaction(j)
    BY <2>1, SoundTags, Tags, Alone DEF InTransaction
  <2>3. \A j \in Instances : ~InTransaction(j)' /\ ~Writing(j)'
    BY <2>1, <2>2 DEF InTransaction, Writing
  <2>4. \A j \in Instances \ {i} : ~Writing(j) /\ pc[j] # "write" /\ (HasNames(j)' <=> HasNames(j))
    BY <2>1, <2>2 DEF InTransaction, Writing, HasNames
  <2>5. file'.users = Cardinality(registered')
    BY <2>1 DEF UsersInv
  <2>6. namesLst' = registered'
    BY <2>1, <2>4 DEF UsersInv
  <2>7. seen[i] = version /\ OthersQuiet(i) /\ (HasNames(i)' => HasNames(i))
    BY <2>1, <2>4, SoundTags DEF NamesInv, InTransaction, OthersQuiet, HasNames
  <2>8. ASSUME NEW j \in Instances, HasNames(j)', seen'[j] = version'
        PROVE  names'[j] = registered'
    <3>1. CASE j = i
      BY <2>1, <2>7, <2>8, <3>1 DEF UsersInv
    <3>2. CASE j # i
      <4>1. seen[j] <= version /\ seen[j] \in Nat /\ version \in Nat
        BY <2>1, SoundTags DEF NamesInv, TypeOK
      <4>2. ~ChangesNames(i) /\ seen[j] = version
        BY <2>1, <2>8, <3>2, <4>1 DEF TypeOK
      <4>3. OthersQuiet(j)
        BY <2>4, <4>2 DEF OthersQuiet, Writing
      <4> QED BY <2>1, <2>4, <2>8, <3>2, <4>2, <4>3 DEF UsersInv
    <3> QED BY <3>1, <3>2
  <2> QED BY <2>1, <2>3, <2>5, <2>6, <2>8 DEF UsersInv, InTransaction
<1>16. ASSUME NEW i \in Instances, CommitFails(i) PROVE UsersInv'
  BY <1>16, Tags, SoundTags DEF CommitFails, Settle, LockInv, InTransaction, Clean, Sound
<1> QED
  BY <1>1, <1>2, <1>4, <1>5, <1>6, <1>7, <1>8, <1>9, <1>10, <1>11, <1>12, <1>13, <1>14, <1>15,
     <1>16 DEF Next, Body

\* Division by the number of values of a flag.
LEMMA Divided ==
  ASSUME NEW M \in Nat \ {0}, NEW v \in Nat
  PROVE  v \div M \in Nat /\ v % M \in 0..M - 1 /\ v = M * (v \div M) + (v % M)
<1>1. v \div M \in Nat
  OBVIOUS
<1>2. v % M \in 0..M - 1
  OBVIOUS
<1>3. v = M * (v \div M) + (v % M)
  BY SMTT(60)
<1> QED BY <1>1, <1>2, <1>3

LEMMA Remainder ==
  ASSUME NEW M \in Nat \ {0}, NEW q \in Nat, NEW r \in 0..M - 1
  PROVE  (M * q + r) % M = r
OBVIOUS

\* A counter that is cut off each time it is incremented.
LEMMA NextFlag ==
  ASSUME NEW M \in Nat \ {0}, NEW v \in Nat
  PROVE  ((v % M) + 1) % M = (v + 1) % M
<1> DEFINE q == v \div M
           r == v % M
<1>1. q \in Nat /\ r \in 0..M - 1 /\ v = M * q + r
  BY Divided
<1> HIDE DEF q, r
<1>2. CASE r + 1 < M
  <2>1. r + 1 \in 0..M - 1 /\ v + 1 = M * q + (r + 1)
    BY <1>1, <1>2
  <2>2. (M * q + (r + 1)) % M = r + 1
    BY <1>1, <2>1, Remainder
  <2>3. (r + 1) % M = r + 1
    BY <1>1, <1>2
  <2> QED BY <2>1, <2>2, <2>3 DEF r
<1>3. CASE r + 1 = M
  <2>1. v + 1 = M * (q + 1) + 0
    BY <1>1, <1>3
  <2>2. (M * (q + 1) + 0) % M = 0
    <3>1. q + 1 \in Nat /\ 0 \in 0..M - 1
      BY <1>1
    <3> QED BY <3>1, Remainder
  <2>3. (r + 1) % M = 0
    BY <1>1, <1>3
  <2> QED BY <2>1, <2>2, <2>3 DEF r
<1> QED BY <1>1, <1>2, <1>3

\* It shows less than a full turn.
LEMMA FlagShows ==
  ASSUME NEW M \in Nat \ {0}, NEW v \in Nat, NEW s \in Nat, s < v, v - s < M
  PROVE  v % M # s % M
<1> DEFINE a == v \div M
           b == s \div M
           r == v % M
<1>1. SUFFICES ASSUME v % M = s % M PROVE FALSE
  OBVIOUS
<1>2. a \in Nat /\ b \in Nat /\ r \in 0..M - 1 /\ v = M * a + r /\ s = M * b + r
  BY <1>1, Divided
<1> HIDE DEF a, b, r
<1>3. a > b
  <2>1. a <= b => M * a <= M * b
    BY <1>2
  <2> QED BY <1>2, <2>1
<1>4. M * a >= M * (b + 1) /\ M * (b + 1) = M * b + M
  BY <1>2, <1>3
<1> QED BY <1>2, <1>4

\* No step makes the flag wrong.
LEMMA NextFlags ==
  ASSUME Exclusive, TypeOK, LockInv, NamesInv, FlagInv, [Next]_vars
  PROVE  FlagInv'
<1> SUFFICES ASSUME Sound' PROVE FlagInv'
  BY DEF FlagInv
<1> USE DEF disk, bounds, ghosts
\* A step that keeps the flags and what has been seen of them.
<1>1. ASSUME Sound, UNCHANGED version, file'.flag = file.flag,
             \A j \in Instances : pc'[j] \notin {"down", "start"} =>
               /\ pc[j] \notin {"down", "start"}
               /\ Writing(j)' <=> Writing(j)
               /\ status'[j].flag = status[j].flag /\ seen'[j] = seen[j]
      PROVE  FlagInv'
  BY <1>1 DEF FlagInv
<1>2. ASSUME Midnight \/ UNCHANGED vars PROVE FlagInv'
  BY <1>2 DEF Midnight, vars, FlagInv, Sound, Writing, ChangesNames
<1>3. ASSUME NEW i \in Instances, Start(i) PROVE FlagInv'
  BY <1>1, <1>3 DEF Start, TypeOK, Sound, Writing, ChangesNames
<1>4. ASSUME NEW i \in Instances, Crash(i) PROVE FlagInv'
  BY <1>1, <1>4 DEF Crash, TypeOK, Sound, Writing, ChangesNames
<1>5. ASSUME NEW i \in Instances, RefreshStatusCache(i) PROVE FlagInv'
  <2>1. /\ Sound /\ pc'[i] \in {"load", "idle"}
        /\ seen' = [seen EXCEPT ![i] = version]
        /\ status' = [status EXCEPT ![i] = file]
        /\ UNCHANGED <<file, op, version>>
        /\ \A j \in Instances \ {i} : pc'[j] = pc[j]
    BY <1>5 DEF RefreshStatusCache, Get, TypeOK, Sound
  <2> QED BY <2>1 DEF TypeOK, FlagInv, Writing, ChangesNames
<1>6. ASSUME NEW i \in Instances, NEW o \in Ops \cup {Xinit}, BeginTransaction(i, o) PROVE FlagInv'
  <2>1. /\ Sound /\ pc'[i] \in {"loadTx", "tx"}
        /\ seen' = [seen EXCEPT ![i] = version]
        /\ status' = [status EXCEPT ![i] = file]
        /\ op' = [op EXCEPT ![i] = o]
        /\ UNCHANGED <<file, version>>
        /\ \A j \in Instances \ {i} : pc'[j] = pc[j]
    BY <1>6 DEF BeginTransaction, Begins, Get, TypeOK, Sound
  <2> QED BY <2>1 DEF TypeOK, FlagInv, Writing, ChangesNames
<1>7. ASSUME NEW i \in Instances, LoadFails(i) \/ read_namesFails(i) PROVE FlagInv'
  BY <1>7 DEF LoadFails, read_namesFails, Sound, CountRisks, ListRisks
<1>8. ASSUME NEW i \in Instances, NEW o \in Ops \cup {Xinit}, BeginGivesUp(i, o) PROVE FlagInv'
  BY <1>8 DEF BeginGivesUp, Sound, CountRisks, ListRisks
<1>9. ASSUME NEW i \in Instances, Load(i) \/ read_names(i) PROVE FlagInv'
  <2>1. CASE Load(i)
    BY <1>1, <2>1 DEF Load, TypeOK, Sound, Writing, ChangesNames
  <2>2. CASE read_names(i)
    BY <1>1, <2>2 DEF read_names, TypeOK, Sound, Writing, ChangesNames
  <2> QED BY <1>9, <2>1, <2>2
\* A body that leaves the flag alone.
<1>10. ASSUME NEW i \in Instances, Sound, pc[i] \in {"tx", "zlog"}, ~ChangesNames(i),
              status'[i].flag = status[i].flag,
              \A j \in Instances \ {i} : pc'[j] = pc[j] /\ status'[j] = status[j],
              UNCHANGED <<file, op, version, seen>>
       PROVE  FlagInv'
  BY <1>10 DEF FlagInv, Writing, ChangesNames
<1>11. ASSUME NEW i \in Instances, initialize(i) \/ post(i) \/ UpdateUserStatsForLogin(i)
       PROVE  FlagInv'
  <2>1. /\ Sound /\ pc[i] = "tx" /\ ~ChangesNames(i)
        /\ status'[i].flag = status[i].flag
        /\ \A j \in Instances \ {i} : pc'[j] = pc[j] /\ status'[j] = status[j]
        /\ UNCHANGED <<file, op, version, seen>>
    BY <1>11, Counts DEF initialize, post, UpdateUserStatsForLogin, Edit, InTx, ChangesNames, Sound,
                         TypeOK
  <2> QED BY <1>10, <2>1
<1>12. ASSUME NEW i \in Instances, beginday(i) \/ begindayDone(i) \/ WriteZlog(i) PROVE FlagInv'
  <2>1. NewDay(status[i]).flag = status[i].flag
    BY Counts DEF TypeOK
  <2>2. /\ Sound /\ pc[i] \in {"tx", "zlog"} /\ ~ChangesNames(i)
        /\ status'[i].flag = status[i].flag
        /\ \A j \in Instances \ {i} : pc'[j] = pc[j] /\ status'[j] = status[j]
        /\ UNCHANGED <<file, op, version, seen>>
    <3>1. CASE beginday(i)
      BY <2>1, <3>1 DEF beginday, Edit, InTx, ChangesNames, Sound, TypeOK
    <3>2. CASE begindayDone(i)
      BY <3>2 DEF begindayDone, Edit, InTx, ChangesNames, Sound, TypeOK
    <3>3. CASE WriteZlog(i)
      BY <2>1, <3>3 DEF WriteZlog, Edit, ChangesNames, Sound, TypeOK, LockInv
    <3> QED BY <1>12, <3>1, <3>2, <3>3
  <2> QED BY <1>10, <2>2
<1>13. ASSUME NEW i \in Instances, InsertSmallRecord(i) \/ DeleteSmallRecord(i) PROVE FlagInv'
  <2>1. /\ Sound /\ pc[i] = "tx" /\ pc'[i] = "write"
        /\ \A j \in Instances \ {i} : pc'[j] = pc[j]
        /\ UNCHANGED <<file, status, op, version, seen>>
    BY <1>13, EditsNames, SoundTags DEF Sound, CountRisks
  <2> QED BY <1>1, <2>1 DEF Writing, ChangesNames
\* Who increments it has seen the last change.
<1>14. ASSUME NEW i \in Instances, WriteNames(i) PROVE FlagInv'
  <2>1. /\ Sound /\ pc[i] = "write" /\ ChangesNames(i) /\ pc'[i] = "commit"
        /\ status'[i].flag = (status[i].flag + 1) % FlagMod
        /\ \A j \in Instances \ {i} : pc'[j] = pc[j] /\ status'[j] = status[j]
        /\ UNCHANGED <<file, op, version, seen>>
    BY <1>14, NamesEdits DEF WriteNames, Edit, Sound, LockInv, TypeOK
  <2>2. status[i].flag = version % FlagMod
    BY <2>1, SoundTags, Tags DEF LockInv, InTransaction, FlagInv
  <2>3. (status[i].flag + 1) % FlagMod = (version + 1) % FlagMod
    BY <2>2, FlagAssumption, NextFlag DEF TypeOK
  <2>4. Writing(i)' /\ \A j \in Instances \ {i} : Writing(j)' <=> Writing(j)
    BY <2>1 DEF Writing, ChangesNames
  <2> QED BY <2>1, <2>3, <2>4 DEF FlagInv
<1>15. ASSUME NEW i \in Instances, AbortTransaction(i) PROVE FlagInv'
  BY <1>1, <1>15 DEF AbortTransaction, InTx, TypeOK, Sound, Writing, ChangesNames
<1>16. ASSUME NEW i \in Instances, CommitTransaction(i) PROVE FlagInv'
  <2>1. /\ Sound /\ pc[i] = "commit" /\ file' = status[i]
        /\ pc'[i] \in {"read_names", "idle"}
        /\ \A j \in Instances \ {i} : pc'[j] = pc[j]
        /\ version' = IF ChangesNames(i) THEN version + 1 ELSE version
        /\ seen' = IF ChangesNames(i) THEN [seen EXCEPT ![i] = version + 1] ELSE seen
        /\ UNCHANGED <<status, op>>
    BY <1>16 DEF CommitTransaction, Settle, Sound, TypeOK
  <2>2. \A j \in Instances \ {i} : pc[j] # "commit"
    BY <2>1, SoundTags, Tags, Alone DEF InTransaction
  <2>3. seen[i] = version
    BY <2>1, SoundTags DEF NamesInv, InTransaction
  <2>4. seen'[i] = version' /\ status[i].flag = version' % FlagMod
    BY <2>1, <2>3 DEF FlagInv, Writing, TypeOK
  <2>5. \A j \in Instances : ~Writing(j)'
    BY <2>1, <2>2 DEF Writing
  <2>6. \A j \in Instances \ {i} : seen'[j] = seen[j] /\ ~Writing(j)
    BY <2>1, <2>2 DEF Writing, TypeOK
  <2> QED BY <2>1, <2>4, <2>5, <2>6 DEF FlagInv
<1>17. ASSUME NEW i \in Instances, CommitFails(i) PROVE FlagInv'
  BY <1>17, Tags, SoundTags DEF CommitFails, Settle, LockInv, InTransaction, Clean, Sound
<1> QED
  BY <1>2, <1>3, <1>4, <1>5, <1>6, <1>7, <1>8, <1>9, <1>11, <1>12, <1>13, <1>14, <1>15, <1>16,
     <1>17 DEF Next, Body

-----------------------------------------------------------------------------
(* ZLOG.DAT.                                                               *)

Logged == spoiled \cap LogRisks = {}

\* Instance i has entered the day in the log, and it is still to be closed in
\* STATUS.DAT.
Closing(i) == pc[i] = "commit" /\ op[i].kind = "beginday"

Newer(k, l) == zlog[l].date < zlog[k].date \/ zlog[l] = Blank

\* The entries of the log are of days before the one in the file (or the one
\* about to be committed), the newest first; between the shift and the write
\* the first two are the same.
DayInv ==
  Logged =>
    /\ file.date1 <= today
    /\ \A i \in Instances : pc[i] = "commit" =>
         /\ file.date1 <= status[i].date1 /\ status[i].date1 <= today
         /\ \A k \in LogIndex : zlog[k].date < status[i].date1
         /\ op[i].kind # "beginday" => status[i].date1 = file.date1
    /\ (\A i \in Instances : ~Closing(i)) => \A k \in LogIndex : zlog[k].date < file.date1
    /\ \A i \in Instances : pc[i] = "zlog" => file.date1 < today
    /\ \A k, l \in LogIndex :
         k < l /\ (k > 1 \/ \A i \in Instances : pc[i] # "zlog") => Newer(k, l)

LEMMA LoggedTags == /\ Logged => Clean
                    /\ "gaveUp" \in spoiled => ~Logged
                    /\ "cutLog" \in spoiled => ~Logged
BY DEF Logged, Clean, LogRisks

\* The log as it is moved on, and as it is created.
LEMMA Logs ==
  ASSUME TypeOK
  PROVE  /\ \A k \in LogIndex : Shifted[k] = IF k = 1 THEN zlog[1] ELSE zlog[k - 1]
         /\ \A k \in LogIndex : BlankLog[k] = Blank
         /\ \A k \in LogIndex : k \in Nat /\ k >= 1 /\ (k > 1 => k - 1 \in LogIndex)
         /\ 1 \in LogIndex /\ Blank.date = -1
<1>1. \A k \in LogIndex : k \in Nat /\ k >= 1 /\ (k > 1 => k - 1 \in LogIndex)
  BY LogAssumption DEF LogIndex
<1>2. 1 \in LogIndex /\ Blank.date = -1
  BY LogAssumption DEF LogIndex, Blank
<1> QED BY <1>1, <1>2 DEF Shifted, BlankLog

\* What the bodies of the transactions do to the record and the log.
LEMMA Bodies ==
  ASSUME TypeOK, LockInv, NEW i \in Instances,
         \/ initialize(i) \/ post(i) \/ UpdateUserStatsForLogin(i) \/ begindayDone(i)
         \/ InsertSmallRecord(i) \/ DeleteSmallRecord(i) \/ WriteNames(i)
  PROVE  /\ pc[i] \in {"tx", "write"} /\ pc'[i] \in {"write", "commit"}
         /\ \A j \in Instances \ {i} : pc'[j] = pc[j] /\ status'[j] = status[j]
         /\ status'[i].date1 = status[i].date1
         /\ status'[i].callstoday
              = status[i].callstoday + (IF op[i].kind = "logon" THEN 1 ELSE 0)
         /\ op[i].kind = "beginday" => status[i].date1 = today
         /\ UNCHANGED <<file, zlog, op, today, logons>>
         /\ spoiled \subseteq spoiled' /\ spoiled' \subseteq spoiled \cup {"notSaved"}
<1>1. status[i] \in Record /\ today \in Days /\ status[i].callstoday \in Nat
  BY DEF TypeOK, Record
<1>2. CASE initialize(i) \/ post(i)
  <2>1. CASE initialize(i)
    BY <1>1, <2>1 DEF initialize, Edit, InTx, TypeOK, disk, ghosts
  <2>2. CASE post(i)
    <3>1. /\ status'[i] = IncrementQScanPointer(status[i])
          /\ pc[i] = "tx" /\ pc'[i] = "commit" /\ op[i].kind = "post"
          /\ \A j \in Instances \ {i} : pc'[j] = pc[j] /\ status'[j] = status[j]
          /\ UNCHANGED <<file, zlog, op, today, logons, spoiled>>
      <4>1. /\ pc[i] = "tx" /\ op[i].kind = "post"
            /\ status' = [status EXCEPT ![i] = IncrementQScanPointer(status[i])]
            /\ pc' = [pc EXCEPT ![i] = "commit"]
            /\ UNCHANGED <<file, zlog, op, today, logons, spoiled>>
        BY <2>2 DEF post, Edit, InTx, disk, ghosts
      <4>2. /\ status'[i] = IncrementQScanPointer(status[i])
            /\ \A j \in Instances \ {i} : status'[j] = status[j]
        BY <4>1 DEF TypeOK
      <4>3. pc'[i] = "commit" /\ \A j \in Instances \ {i} : pc'[j] = pc[j]
        BY <4>1 DEF TypeOK
      <4> QED BY <4>1, <4>2, <4>3
    <3>2. status'[i].date1 = status[i].date1
      <4>1. IncrementQScanPointer(status[i]).date1 = status[i].date1
        BY <1>1, Edits
      <4> QED BY <3>1, <4>1
    <3>3. status'[i].callstoday = status[i].callstoday
      <4>1. IncrementQScanPointer(status[i]).callstoday = status[i].callstoday
        BY <1>1, Counts
      <4> QED BY <3>1, <4>1
    <3> QED BY <1>1, <3>1, <3>2, <3>3
  <2> QED BY <1>2, <2>1, <2>2
<1>3. CASE UpdateUserStatsForLogin(i)
  BY <1>1, <1>3, Edits, Counts DEF UpdateUserStatsForLogin, Edit, InTx, TypeOK, disk, ghosts
<1>4. CASE begindayDone(i)
  BY <1>1, <1>4 DEF begindayDone, MaintenanceDue, Edit, InTx, TypeOK, disk, ghosts
<1>5. CASE InsertSmallRecord(i) \/ DeleteSmallRecord(i)
  <2>1. pc[i] = "tx" /\ ChangesNames(i) /\ \E users : SaveNames(i, users)
    BY <1>5 DEF InsertSmallRecord, DeleteSmallRecord, InTx, ChangesNames
  <2>2. /\ pc'[i] \in {"write", "commit"}
        /\ \A j \in Instances \ {i} : pc'[j] = pc[j] /\ status'[j] = status[j]
        /\ status'[i].date1 = status[i].date1
        /\ status'[i].callstoday = status[i].callstoday
        /\ UNCHANGED <<file, zlog, op, today, logons>>
        /\ spoiled \subseteq spoiled' /\ spoiled' \subseteq spoiled \cup {"notSaved"}
    BY <2>1, NamesEdits DEF SaveNames, Truncate, SaveFails, Edit, TypeOK
  <2> QED BY <1>1, <2>1, <2>2 DEF ChangesNames
<1>6. CASE WriteNames(i)
  <2>1. /\ pc[i] = "write" /\ ChangesNames(i) /\ pc'[i] = "commit"
        /\ \A j \in Instances \ {i} : pc'[j] = pc[j] /\ status'[j] = status[j]
        /\ status'[i].date1 = status[i].date1
        /\ status'[i].callstoday = status[i].callstoday
        /\ UNCHANGED <<file, zlog, op, today, logons, spoiled>>
    BY <1>6, NamesEdits DEF WriteNames, Edit, TypeOK, LockInv
  <2> QED BY <1>1, <2>1 DEF ChangesNames
<1> QED BY <1>2, <1>3, <1>4, <1>5, <1>6

\* The steps outside of transactions, and those in which one begins, is given
\* up or is cut off, as far as the log is concerned.
LEMMA LeavesLog ==
  ASSUME TypeOK, LockInv, NEW i \in Instances,
         \/ Start(i) \/ Crash(i) \/ RefreshStatusCache(i) \/ Load(i) \/ LoadFails(i)
         \/ read_names(i) \/ read_namesFails(i) \/ AbortTransaction(i)
         \/ \E o \in Ops \cup {Xinit} : BeginTransaction(i, o)
  PROVE  /\ pc'[i] \notin {"write", "zlog", "commit"}
         /\ \A j \in Instances \ {i} : pc'[j] = pc[j] /\ status'[j] = status[j] /\ op'[j] = op[j]
         /\ UNCHANGED <<file, zlog, today, logons>>
         /\ spoiled \subseteq spoiled'
         /\ pc[i] = "zlog" \/ Closing(i) => "cutLog" \in spoiled'
<1> USE DEF disk, bounds, ghosts, TypeOK, Closing
<1>1. CASE Start(i) \/ RefreshStatusCache(i)
  BY <1>1 DEF Start, RefreshStatusCache, Get
<1>2. CASE Crash(i)
  <2>1. pc[i] = "zlog" \/ Closing(i) => "cutLog" \in HalfDone(i)
    BY DEF HalfDone, ChangesNames, LockInv
  <2> QED BY <1>2, <2>1 DEF Crash
<1>3. CASE Load(i) \/ LoadFails(i)
  BY <1>3 DEF Load, LoadFails
<1>4. CASE read_names(i) \/ read_namesFails(i)
  BY <1>4 DEF read_names, read_namesFails
<1>5. CASE AbortTransaction(i)
  BY <1>5 DEF AbortTransaction, InTx
<1>6. CASE \E o \in Ops \cup {Xinit} : BeginTransaction(i, o)
  BY <1>6 DEF BeginTransaction, Begins, Get
<1> QED BY <1>1, <1>2, <1>3, <1>4, <1>5, <1>6

\* No step closes a day twice, or the one that has just begun.
LEMMA NextDay ==
  ASSUME Exclusive, TypeOK, LockInv, DayInv, [Next]_vars
  PROVE  DayInv'
<1> SUFFICES ASSUME Logged' PROVE DayInv'
  BY DEF DayInv
<1>1. ASSUME Midnight PROVE DayInv'
  <2>1. UNCHANGED <<file, zlog, status, pc, op, spoiled>> /\ today' = today + 1
    BY <1>1 DEF Midnight, disk, ghosts
  <2>2. Logged
    BY <2>1 DEF Logged
  <2>3. \A d \in Int : d <= today => d <= today'
    BY <2>1, Numbers
  <2>4. /\ file'.date1 <= today'
        /\ \A i \in Instances : pc'[i] = "commit" => status'[i].date1 <= today'
        /\ \A i \in Instances : pc'[i] = "zlog" => file'.date1 < today'
    BY <2>1, <2>2, <2>3, Numbers DEF DayInv
  <2>5. \A i \in Instances : Closing(i)' <=> Closing(i)
    BY <2>1 DEF Closing
  <2> QED BY <2>1, <2>2, <2>4, <2>5 DEF DayInv, Newer
<1>2. ASSUME NEW i \in Instances,
             \/ Start(i) \/ Crash(i) \/ RefreshStatusCache(i) \/ Load(i) \/ LoadFails(i)
             \/ read_names(i) \/ read_namesFails(i) \/ AbortTransaction(i)
             \/ \E o \in Ops \cup {Xinit} : BeginTransaction(i, o)
      PROVE  DayInv'
  <2>1. /\ pc'[i] \notin {"write", "zlog", "commit"}
        /\ \A j \in Instances \ {i} : pc'[j] = pc[j] /\ status'[j] = status[j] /\ op'[j] = op[j]
        /\ UNCHANGED <<file, zlog, today>>
    BY <1>2, LeavesLog
  <2>2. Logged /\ pc[i] # "zlog" /\ ~Closing(i)
    BY <1>2, LeavesLog DEF Logged, LogRisks
  <2>3. \A j \in Instances : /\ Closing(j)' <=> Closing(j)
                             /\ pc'[j] = "zlog" <=> pc[j] = "zlog"
    BY <2>1, <2>2 DEF Closing
  <2> QED BY <2>1, <2>2, <2>3 DEF DayInv, Newer
<1>3. ASSUME NEW i \in Instances, NEW o \in Ops \cup {Xinit}, BeginGivesUp(i, o) PROVE DayInv'
  BY <1>3 DEF BeginGivesUp, Logged, LogRisks
<1>4. ASSUME NEW i \in Instances,
             \/ initialize(i) \/ post(i) \/ UpdateUserStatsForLogin(i) \/ begindayDone(i)
             \/ InsertSmallRecord(i) \/ DeleteSmallRecord(i) \/ WriteNames(i)
      PROVE  DayInv'
  <2>1. /\ pc[i] \in {"tx", "write"} /\ pc'[i] \in {"write", "commit"}
        /\ \A j \in Instances \ {i} : pc'[j] = pc[j] /\ status'[j] = status[j]
        /\ status'[i].date1 = status[i].date1
        /\ UNCHANGED <<file, zlog, op, today>>
    BY <1>4, Bodies
  <2>2. Logged /\ Clean
    BY <1>4, Bodies, LoggedTags DEF Logged
  <2>3. \A j \in Instances \ {i} : ~InTransaction(j)
    BY <2>1, <2>2, Alone DEF InTransaction
  <2>4. \A j \in Instances : /\ ~Closing(j) /\ pc[j] # "zlog" /\ pc'[j] # "zlog"
                             /\ (pc'[j] = "commit" => j = i)
    BY <2>1, <2>3 DEF Closing, InTransaction
  <2>5. status[i] = file
    BY <2>1, <2>2 DEF LockInv, InTransaction
  <2>6. /\ file.date1 <= today /\ \A k \in LogIndex : zlog[k].date < file.date1
        /\ \A k, l \in LogIndex : k < l => Newer(k, l)
    BY <2>2, <2>4 DEF DayInv
  <2> QED BY <2>1, <2>4, <2>5, <2>6, Numbers DEF DayInv, Newer
<1>5. ASSUME NEW i \in Instances, beginday(i) \/ WriteZlog(i) PROVE DayInv'
  <2>1. /\ Logged /\ pc[i] \in {"tx", "zlog"} /\ op[i].kind = "beginday"
        /\ UNCHANGED <<file, op, today>>
        /\ \A j \in Instances \ {i} : pc'[j] = pc[j] /\ status'[j] = status[j]
    BY <1>5 DEF beginday, WriteZlog, InTx, Edit, LockInv, Logged, TypeOK, ghosts
  <2>2. \A j \in Instances \ {i} : ~InTransaction(j)
    BY <2>1, LoggedTags, Alone DEF InTransaction
  <2>3. status[i] = file
    BY <2>1, LoggedTags DEF LockInv, InTransaction
  <2>4. \A j \in Instances : ~Closing(j)
    BY <2>1, <2>2 DEF Closing, InTransaction
  <2>5. \A k \in LogIndex : zlog[k].date < file.date1
    BY <2>1, <2>4 DEF DayInv
  <2>6. \A j \in Instances \ {i} : pc'[j] \notin {"zlog", "commit"} /\ pc[j] \notin {"zlog", "commit"}
    BY <2>1, <2>2 DEF InTransaction
  <2>7. file.date1 < today
    <3>1. CASE beginday(i)
      <4>1. file.date1 # today
        BY <2>3, <3>1 DEF beginday, MaintenanceDue
      <4> QED BY <2>1, <4>1, Numbers DEF DayInv
    <3>2. CASE WriteZlog(i)
      BY <2>1, <3>2 DEF DayInv, WriteZlog
    <3> QED BY <1>5, <3>1, <3>2
  \* The log is moved on or wiped.
  <2>8. ASSUME pc'[i] = "zlog", pc[i] = "tx",
               zlog' = Shifted \/ zlog' = BlankLog
        PROVE  DayInv'
    <3>1. \A k, l \in LogIndex : k < l => Newer(k, l)
      <4>1. \A j \in Instances : pc[j] # "zlog"
        BY <2>6, <2>8
      <4> QED BY <2>1, <4>1 DEF DayInv
    <3>2. \A k \in LogIndex : zlog'[k].date < file.date1
      BY <2>5, <2>8, Logs, Numbers
    <3>3. \A k, l \in LogIndex : k < l /\ k > 1 => Newer(k, l)'
      BY <2>8, <3>1, Logs DEF Newer
    <3>4. ~(\A j \in Instances : pc'[j] # "zlog") /\ \A j \in Instances : pc'[j] # "commit"
      BY <2>6, <2>8
    <3> QED BY <2>1, <2>7, <3>2, <3>3, <3>4, Numbers DEF DayInv
  \* The day is closed.
  <2>9. ASSUME pc'[i] = "commit", status'[i].date1 = today,
               \A k \in LogIndex : zlog'[k].date < today,
               \A k, l \in LogIndex : k < l => Newer(k, l)'
        PROVE  DayInv'
    <3>1. Closing(i)'
      BY <2>1, <2>9 DEF Closing
    <3> QED BY <2>1, <2>6, <2>7, <2>9, <3>1, Numbers DEF DayInv
  <2>10. CASE beginday(i)
    <3>1. CASE pc'[i] = "zlog"
      BY <2>8, <2>10, <3>1 DEF beginday, InTx, Edit, TypeOK
    <3>2. CASE pc'[i] # "zlog"
      <4>1. /\ pc[i] = "tx" /\ pc'[i] = "commit" /\ zlog' = zlog
            /\ status'[i] = NewDay(status[i])
        BY <2>10, <3>2 DEF beginday, InTx, Edit, TypeOK
      <4>2. status'[i].date1 = today
        BY <4>1, Edits DEF TypeOK
      <4>3. \A k \in LogIndex : zlog'[k].date < today
        BY <2>5, <2>7, <4>1, Numbers
      <4>4. \A k, l \in LogIndex : k < l => Newer(k, l)'
        <5>1. \A j \in Instances : pc[j] # "zlog"
          BY <2>6, <4>1
        <5> QED BY <2>1, <4>1, <5>1 DEF DayInv, Newer
      <4> QED BY <2>9, <4>1, <4>2, <4>3, <4>4
    <3> QED BY <3>1, <3>2
  <2>11. CASE WriteZlog(i)
    <3>1. /\ pc[i] = "zlog" /\ pc'[i] = "commit" /\ status'[i] = NewDay(status[i])
          /\ zlog' = [zlog EXCEPT ![1] = [date |-> file.date1, calls |-> file.callstoday]]
      BY <2>3, <2>11 DEF WriteZlog, Edit, TypeOK
    <3>2. status'[i].date1 = today
      BY <3>1, Edits DEF TypeOK
    <3>3. zlog'[1].date = file.date1 /\ \A k \in LogIndex : k # 1 => zlog'[k] = zlog[k]
      BY <3>1, Logs DEF TypeOK
    <3>4. \A k \in LogIndex : zlog'[k].date < today
      BY <2>5, <2>7, <3>3, Numbers
    <3>5. \A k, l \in LogIndex : k < l /\ k > 1 => Newer(k, l)
      BY <2>1 DEF DayInv
    <3>6. \A k, l \in LogIndex : k < l => Newer(k, l)'
      BY <2>5, <3>3, <3>5, Logs DEF Newer
    <3> QED BY <2>9, <3>1, <3>2, <3>4, <3>6
  <2> QED BY <1>5, <2>10, <2>11
<1>6. ASSUME NEW i \in Instances, CommitTransaction(i) PROVE DayInv'
  <2>1. /\ Logged /\ pc[i] = "commit" /\ file' = status[i] /\ UNCHANGED <<zlog, status, op, today>>
        /\ pc'[i] \in {"read_names", "idle"} /\ \A j \in Instances \ {i} : pc'[j] = pc[j]
    BY <1>6 DEF CommitTransaction, Settle, Logged, TypeOK, bounds
  <2>2. \A j \in Instances \ {i} : ~InTransaction(j)
    BY <2>1, LoggedTags, Alone DEF InTransaction
  <2>3. \A j \in Instances : pc'[j] \notin {"zlog", "commit"} /\ pc[j] # "zlog"
    BY <2>1, <2>2 DEF InTransaction
  <2> QED BY <2>1, <2>3 DEF DayInv, Newer
<1>7. ASSUME NEW i \in Instances, CommitFails(i) PROVE DayInv'
  BY <1>7, LoggedTags DEF CommitFails, Settle, LockInv, InTransaction, Clean, Logged
<1>8. CASE UNCHANGED vars
  BY <1>8 DEF vars, disk, ghosts, DayInv, Logged, Closing, Newer
<1> QED BY <1>1, <1>2, <1>3, <1>4, <1>5, <1>6, <1>7, <1>8 DEF Next, Body

Whole == spoiled \cap (LogRisks \cup {"logWiped", "notLogged"}) = {}

\* The log has day d, or holds later days only; the same without its first entry.
Kept(d) == (\E k \in LogIndex : zlog[k].date = d) \/ (\A k \in LogIndex : zlog[k].date > d)
KeptShifted(d) ==
  \/ \E k \in LogIndex : k > 1 /\ zlog[k].date = d
  \/ \A k \in LogIndex : k > 1 => zlog[k].date > d

\* The record in the file, or the one about to be committed, has the calls of
\* its day, the one being counted included; each entry of the log has those of
\* its own; and a day with calls is in the log until it falls off.
CallsInv ==
  Whole =>
    /\ (\A i \in Instances : ~Closing(i)) => file.callstoday = logons[file.date1]
    /\ \A i \in Instances : pc[i] = "commit" =>
         status[i].callstoday
           = logons[status[i].date1] + (IF op[i].kind = "logon" THEN 1 ELSE 0)
    /\ \A k \in LogIndex : zlog[k] # Blank =>
         zlog[k].date \in Days /\ zlog[k].calls = logons[zlog[k].date]
    /\ \A d \in Days : d > file.date1 => logons[d] = 0
    /\ (\A i \in Instances : pc[i] # "zlog" /\ ~Closing(i)) =>
         \A d \in Days : d < file.date1 /\ logons[d] > 0 => Kept(d)
    /\ \A i \in Instances : pc[i] = "zlog" =>
         \A d \in Days : d < file.date1 /\ logons[d] > 0 => KeptShifted(d)
    /\ \A i \in Instances : Closing(i) =>
         \A d \in Days : d < status[i].date1 /\ logons[d] > 0 => Kept(d)

LEMMA WholeTags == /\ Whole => Logged /\ Clean
                   /\ "logWiped" \in spoiled => ~Whole
                   /\ "notLogged" \in spoiled => ~Whole
BY LoggedTags DEF Whole, Logged, LogRisks

\* The log moved on: of the days it had, only the last can fall off its end, and
\* then all that are left are later.
LEMMA ShiftKeeps ==
  ASSUME TypeOK, \A k, l \in LogIndex : k < l => Newer(k, l), zlog' = Shifted,
         NEW d \in Days, Kept(d)
  PROVE  KeptShifted(d)'
<1>1. \A k \in LogIndex : k > 1 => k - 1 \in LogIndex /\ zlog'[k] = zlog[k - 1]
  BY Logs
<1>2. CASE \A k \in LogIndex : zlog[k].date > d
  BY <1>1, <1>2 DEF KeptShifted
<1>3. ASSUME NEW k \in LogIndex, zlog[k].date = d PROVE KeptShifted(d)'
  <2>1. CASE k = LogSize
    <3>1. d # -1
      BY Numbers
    <3>2. \A l \in LogIndex : l < k => zlog[l].date > d
      BY <1>3, <3>1, Numbers, Logs DEF Newer
    <3>3. \A l \in LogIndex : l > 1 => l - 1 < k
      BY <2>1, LogAssumption DEF LogIndex
    <3> QED BY <1>1, <3>2, <3>3 DEF KeptShifted
  <2>2. CASE k # LogSize
    <3>1. k + 1 \in LogIndex /\ k + 1 > 1 /\ (k + 1) - 1 = k
      BY <2>2, LogAssumption DEF LogIndex
    <3>2. zlog'[k + 1].date = d
      BY <1>1, <1>3, <3>1
    <3> QED BY <3>1, <3>2 DEF KeptShifted
  <2> QED BY <2>1, <2>2
<1> QED BY <1>2, <1>3 DEF Kept

\* No step loses a call or counts one twice.
LEMMA NextCalls ==
  ASSUME Exclusive, TypeOK, LockInv, DayInv, CallsInv, [Next]_vars
  PROVE  CallsInv'
<1> SUFFICES ASSUME Whole' PROVE CallsInv'
  BY DEF CallsInv
<1>1. ASSUME Midnight \/ UNCHANGED vars PROVE CallsInv'
  <2>1. UNCHANGED <<file, zlog, status, pc, op, logons, spoiled>>
    BY <1>1 DEF Midnight, vars, disk, ghosts
  <2>2. Whole
    BY <2>1 DEF Whole
  <2>3. \A i \in Instances : Closing(i)' <=> Closing(i)
    BY <2>1 DEF Closing
  <2>4. \A d \in Days : (Kept(d)' <=> Kept(d)) /\ (KeptShifted(d)' <=> KeptShifted(d))
    BY <2>1 DEF Kept, KeptShifted
  <2> QED BY <2>1, <2>2, <2>3, <2>4 DEF CallsInv
<1>2. ASSUME NEW i \in Instances,
             \/ Start(i) \/ Crash(i) \/ RefreshStatusCache(i) \/ Load(i) \/ LoadFails(i)
             \/ read_names(i) \/ read_namesFails(i) \/ AbortTransaction(i)
             \/ \E o \in Ops \cup {Xinit} : BeginTransaction(i, o)
      PROVE  CallsInv'
  <2>1. /\ pc'[i] \notin {"write", "zlog", "commit"}
        /\ \A j \in Instances \ {i} : pc'[j] = pc[j] /\ status'[j] = status[j] /\ op'[j] = op[j]
        /\ UNCHANGED <<file, zlog, logons>>
    BY <1>2, LeavesLog
  <2>2. Whole /\ pc[i] # "zlog" /\ ~Closing(i)
    BY <1>2, LeavesLog DEF Whole, LogRisks
  <2>3. \A j \in Instances : /\ Closing(j)' <=> Closing(j)
                             /\ pc'[j] = "zlog" <=> pc[j] = "zlog"
    BY <2>1, <2>2 DEF Closing
  <2>4. \A d \in Days : (Kept(d)' <=> Kept(d)) /\ (KeptShifted(d)' <=> KeptShifted(d))
    BY <2>1 DEF Kept, KeptShifted
  <2>5. \A j \in Instances : pc'[j] = "commit" \/ Closing(j)' => j # i
    BY <2>1 DEF Closing
  <2> QED BY <2>1, <2>2, <2>3, <2>4, <2>5 DEF CallsInv
<1>3. ASSUME NEW i \in Instances, NEW o \in Ops \cup {Xinit}, BeginGivesUp(i, o) PROVE CallsInv'
  BY <1>3 DEF BeginGivesUp, Whole, LogRisks
<1>4. ASSUME NEW i \in Instances,
             \/ initialize(i) \/ post(i) \/ UpdateUserStatsForLogin(i) \/ begindayDone(i)
             \/ InsertSmallRecord(i) \/ DeleteSmallRecord(i) \/ WriteNames(i)
      PROVE  CallsInv'
  <2>1. /\ pc[i] \in {"tx", "write"} /\ pc'[i] \in {"write", "commit"}
        /\ \A j \in Instances \ {i} : pc'[j] = pc[j] /\ status'[j] = status[j]
        /\ status'[i].date1 = status[i].date1
        /\ status'[i].callstoday
             = status[i].callstoday + (IF op[i].kind = "logon" THEN 1 ELSE 0)
        /\ op[i].kind = "beginday" => status[i].date1 = today
        /\ UNCHANGED <<file, zlog, op, logons>>
    BY <1>4, Bodies
  <2>2. Whole /\ Clean
    BY <1>4, Bodies, WholeTags DEF Whole
  <2>3. \A j \in Instances \ {i} : ~InTransaction(j)
    BY <2>1, <2>2, Alone DEF InTransaction
  <2>4. \A j \in Instances : /\ ~Closing(j) /\ pc[j] # "zlog" /\ pc'[j] # "zlog"
                             /\ (pc'[j] = "commit" \/ Closing(j)' => j = i)
    BY <2>1, <2>3 DEF Closing, InTransaction
  <2>5. status[i] = file
    BY <2>1, <2>2 DEF LockInv, InTransaction
  <2>6. file.callstoday = logons[file.date1]
    BY <2>2, <2>4 DEF CallsInv
  <2>7. \A d \in Days : (Kept(d)' <=> Kept(d))
    BY <2>1 DEF Kept
  <2>8. \A d \in Days : d < file.date1 /\ logons[d] > 0 => Kept(d)'
    BY <2>2, <2>4, <2>7 DEF CallsInv
  <2>9. status'[i].callstoday = logons[file.date1] + (IF op[i].kind = "logon" THEN 1 ELSE 0)
    BY <2>1, <2>5, <2>6
  <2>10. (\A j \in Instances : ~Closing(j)') => file'.callstoday = logons'[file'.date1]
    BY <2>1, <2>6
  <2>11. \A j \in Instances : pc'[j] = "commit" =>
           status'[j].callstoday
             = logons'[status'[j].date1] + (IF op'[j].kind = "logon" THEN 1 ELSE 0)
    BY <2>1, <2>4, <2>5, <2>9
  <2>12. \A j \in Instances : Closing(j)' =>
           \A d \in Days : d < status'[j].date1 /\ logons'[d] > 0 => Kept(d)'
    BY <2>1, <2>4, <2>5, <2>8
  <2>13. /\ \A k \in LogIndex : zlog'[k] # Blank =>
              zlog'[k].date \in Days /\ zlog'[k].calls = logons'[zlog'[k].date]
         /\ \A d \in Days : d > file'.date1 => logons'[d] = 0
    BY <2>1, <2>2 DEF CallsInv
  <2> QED BY <2>1, <2>4, <2>8, <2>10, <2>11, <2>12, <2>13 DEF CallsInv
<1>5. ASSUME NEW i \in Instances, beginday(i) \/ WriteZlog(i) PROVE CallsInv'
  <2>1. /\ Whole /\ pc[i] \in {"tx", "zlog"} /\ op[i].kind = "beginday"
        /\ UNCHANGED <<file, op, logons>>
        /\ \A j \in Instances \ {i} : pc'[j] = pc[j] /\ status'[j] = status[j]
    BY <1>5 DEF beginday, WriteZlog, InTx, Edit, LockInv, Whole, TypeOK, ghosts
  <2>2. \A j \in Instances \ {i} : ~InTransaction(j)
    BY <2>1, WholeTags, Alone DEF InTransaction
  <2>3. status[i] = file
    BY <2>1, WholeTags DEF LockInv, InTransaction
  <2>4. \A j \in Instances : ~Closing(j)
    BY <2>1, <2>2 DEF Closing, InTransaction
  <2>5. \A j \in Instances \ {i} : pc'[j] \notin {"zlog", "commit"} /\ pc[j] \notin {"zlog", "commit"}
    BY <2>1, <2>2 DEF InTransaction
  <2>6. /\ file.callstoday = logons[file.date1]
        /\ \A k \in LogIndex : zlog[k] # Blank =>
             zlog[k].date \in Days /\ zlog[k].calls = logons[zlog[k].date]
        /\ \A d \in Days : d > file.date1 => logons[d] = 0
    BY <2>1, <2>4 DEF CallsInv
  <2>7. CASE beginday(i)
    <3>1. /\ pc[i] = "tx" /\ pc'[i] = "zlog" /\ zlog' = Shifted
      BY <2>7 DEF beginday, InTx, Whole, TypeOK
    <3>2. \A j \in Instances : pc[j] # "zlog"
      BY <2>5, <3>1
    <3>3. \A k, l \in LogIndex : k < l => Newer(k, l)
      BY <2>1, <3>2, WholeTags DEF DayInv
    <3>4. \A d \in Days : d < file.date1 /\ logons[d] > 0 => KeptShifted(d)'
      BY <2>1, <2>4, <3>1, <3>2, <3>3, ShiftKeeps DEF CallsInv
    <3>5. \A k \in LogIndex : zlog'[k] # Blank =>
            zlog'[k].date \in Days /\ zlog'[k].calls = logons[zlog'[k].date]
      BY <2>6, <3>1, Logs
    <3>6. \A j \in Instances : ~Closing(j)' /\ pc'[j] # "commit"
      BY <2>5, <3>1 DEF Closing
    <3> QED BY <2>1, <2>6, <3>1, <3>4, <3>5, <3>6 DEF CallsInv
  <2>8. CASE WriteZlog(i)
    <3>1. /\ pc[i] = "zlog" /\ pc'[i] = "commit" /\ status'[i] = NewDay(status[i])
          /\ zlog' = [zlog EXCEPT ![1] = [date |-> file.date1, calls |-> file.callstoday]]
      BY <2>3, <2>8 DEF WriteZlog, Edit, TypeOK
    <3>2. status'[i].date1 = today /\ status'[i].callstoday = 0
      BY <3>1, Edits, Counts DEF TypeOK
    <3>3. /\ zlog'[1].date = file.date1 /\ zlog'[1].calls = file.callstoday
          /\ \A k \in LogIndex : k # 1 => zlog'[k] = zlog[k]
      BY <3>1, Logs DEF TypeOK
    <3>4. file.date1 < today
      BY <2>1, <3>1, WholeTags DEF DayInv
    <3>5. logons[today] = 0
      BY <2>6, <3>4, Numbers
    <3>6. \A d \in Days : d < file.date1 /\ logons[d] > 0 => KeptShifted(d)
      BY <2>1, <3>1 DEF CallsInv
    <3>7. ASSUME NEW d \in Days, d < today, logons[d] > 0 PROVE Kept(d)'
      <4>1. d \in Nat /\ file.date1 \in Nat /\ d <= file.date1
        <5>1. ~(d > file.date1)
          BY <2>6, <3>7
        <5> QED BY <5>1, Numbers
      <4>2. CASE d = file.date1
        BY <3>3, <4>2, Logs DEF Kept
      <4>3. CASE d < file.date1
        <5>1. KeptShifted(d)
          BY <3>6, <3>7, <4>3
        <5>2. CASE \E k \in LogIndex : k > 1 /\ zlog[k].date = d
          BY <3>3, <5>2, Logs DEF Kept
        <5>3. CASE \A k \in LogIndex : k > 1 => zlog[k].date > d
          <6>1. \A k \in LogIndex : k = 1 \/ k > 1
            BY Logs
          <6>2. \A k \in LogIndex : zlog'[k].date > d
            BY <3>3, <4>1, <4>3, <5>3, <6>1
          <6> QED BY <6>2 DEF Kept
        <5> QED BY <5>1, <5>2, <5>3 DEF KeptShifted
      <4> QED BY <4>1, <4>2, <4>3
    <3>8. \A k \in LogIndex : zlog'[k] # Blank =>
            zlog'[k].date \in Days /\ zlog'[k].calls = logons[zlog'[k].date]
      BY <2>6, <3>3, Numbers
    <3>9. Closing(i)' /\ \A j \in Instances : pc'[j] # "zlog" /\ (pc'[j] = "commit" => j = i)
      BY <2>1, <2>5, <3>1 DEF Closing
    <3>10. \A j \in Instances : Closing(j)' => j = i
      BY <3>9 DEF Closing
    <3>11. \A j \in Instances : pc'[j] = "commit" =>
             status'[j].callstoday
               = logons'[status'[j].date1] + (IF op'[j].kind = "logon" THEN 1 ELSE 0)
      BY <2>1, <3>2, <3>5, <3>9
    <3>12. \A j \in Instances : Closing(j)' =>
             \A d \in Days : d < status'[j].date1 /\ logons'[d] > 0 => Kept(d)'
      BY <2>1, <3>2, <3>7, <3>10
    <3>13. \A d \in Days : d > file'.date1 => logons'[d] = 0
      BY <2>1, <2>6
    <3> QED BY <2>1, <3>8, <3>9, <3>11, <3>12, <3>13 DEF CallsInv
  <2> QED BY <1>5, <2>7, <2>8
<1>6. ASSUME NEW i \in Instances, CommitTransaction(i) PROVE CallsInv'
  <2> DEFINE day == status[i].date1
  <2>1. /\ Whole /\ pc[i] = "commit" /\ file' = status[i] /\ UNCHANGED <<zlog, status, op>>
        /\ pc'[i] \in {"read_names", "idle"} /\ \A j \in Instances \ {i} : pc'[j] = pc[j]
        /\ logons' = IF op[i].kind = "logon" THEN [logons EXCEPT ![day] = @ + 1] ELSE logons
    BY <1>6 DEF CommitTransaction, Settle, Whole, TypeOK
  <2>2. \A j \in Instances \ {i} : ~InTransaction(j)
    BY <2>1, WholeTags, Alone DEF InTransaction
  <2>3. \A j \in Instances : pc'[j] \notin {"zlog", "commit"} /\ pc[j] # "zlog" /\ ~Closing(j)'
    BY <2>1, <2>2 DEF InTransaction, Closing
  <2>4. \A j \in Instances \ {i} : ~Closing(j)
    BY <2>2 DEF InTransaction, Closing
  <2>5. /\ day \in Days /\ file.date1 <= day
        /\ \A k \in LogIndex : zlog[k].date < day
        /\ op[i].kind # "beginday" => day = file.date1
    BY <2>1, Numbers, WholeTags DEF DayInv
  <2>6. /\ logons'[day] = logons[day] + (IF op[i].kind = "logon" THEN 1 ELSE 0)
        /\ \A d \in Days : d # day => logons'[d] = logons[d]
    BY <2>1, <2>5 DEF TypeOK
  <2>7. file'.callstoday = logons'[file'.date1]
    BY <2>1, <2>6 DEF CallsInv
  <2>8. \A k \in LogIndex : zlog'[k] # Blank =>
          zlog'[k].date \in Days /\ zlog'[k].calls = logons'[zlog'[k].date]
    <3>1. \A k \in LogIndex : zlog[k].date # day
      BY <2>5, Numbers
    <3> QED BY <2>1, <2>6, <3>1 DEF CallsInv
  <2>9. \A d \in Days : d > file'.date1 => logons'[d] = 0
    <3>1. \A d \in Days : d > day => d > file.date1 /\ d # day
      BY <2>5, Numbers
    <3> QED BY <2>1, <2>6, <3>1 DEF CallsInv
  <2>10. \A d \in Days : d < day /\ logons[d] > 0 => Kept(d)
    <3>1. CASE op[i].kind = "beginday"
      BY <2>1, <3>1 DEF CallsInv, Closing
    <3>2. CASE op[i].kind # "beginday"
      <4>1. \A j \in Instances : pc[j] # "zlog" /\ ~Closing(j)
        BY <2>3, <2>4, <3>2 DEF Closing
      <4> QED BY <2>1, <2>5, <3>2, <4>1 DEF CallsInv
    <3> QED BY <3>1, <3>2
  <2>11. \A d \in Days : d < file'.date1 /\ logons'[d] > 0 => Kept(d)'
    <3>1. \A d \in Days : Kept(d)' <=> Kept(d)
      BY <2>1 DEF Kept
    <3>2. \A d \in Days : d < day => d # day
      BY <2>5, Numbers
    <3> QED BY <2>1, <2>6, <2>10, <3>1, <3>2
  <2> QED BY <2>3, <2>7, <2>8, <2>9, <2>11 DEF CallsInv
<1>7. ASSUME NEW i \in Instances, CommitFails(i) PROVE CallsInv'
  BY <1>7, WholeTags DEF CommitFails, Settle, LockInv, InTransaction, Clean, Whole
<1> QED BY <1>1, <1>2, <1>3, <1>4, <1>5, <1>6, <1>7 DEF Next, Body

-----------------------------------------------------------------------------
(* The theorems.                                                           *)

Inv ==
  TypeOK /\ LockInv /\ QScanInv /\ NamesInv /\ UsersInv /\ FlagInv /\ DayInv /\ CallsInv

\* The initial state: nobody has started, no file is open.
LEMMA InitInv == Init => Inv
<1> SUFFICES ASSUME Init PROVE Inv
  OBVIOUS
<1>1. TypeOK
  BY InitType
<1>2. \A i \in Instances : pc[i] = "down"
  BY DEF Init
<1>3. LockInv /\ QScanInv
  BY DEF Init, LockInv, WriteLock, InTransaction, QScanInv, IsInjective, StatusRec
<1>4. NamesInv
  BY <1>2 DEF Init, NamesInv, HasNames, InTransaction, Writing
<1>5. UsersInv
  BY <1>2 DEF Init, UsersInv, HasNames, Writing, StatusRec
<1>6. FlagInv
  <2>1. 0 % FlagMod = 0
    BY FlagAssumption
  <2> QED BY <1>2, <2>1 DEF Init, FlagInv, StatusRec
<1>7. file.date1 = 0 /\ today = 0 /\ file.callstoday = 0 /\ 0 \in Days
      /\ \A d \in Days : logons[d] = 0
  BY BoundAssumption DEF Init, StatusRec, Days
<1>8. \A k \in LogIndex : zlog[k] = Blank /\ zlog[k].date = -1
  BY DEF Init, BlankLog, Blank
<1>9. DayInv
  BY <1>2, <1>7, <1>8 DEF DayInv, Newer, Closing
<1>10. CallsInv
  BY <1>2, <1>7, <1>8, Numbers, <1>1 DEF CallsInv, Closing
<1> QED BY <1>1, <1>3, <1>4, <1>5, <1>6, <1>9, <1>10 DEF Inv

\* Exclusive share modes make the invariant inductive.
LEMMA NextInv ==
  ASSUME Exclusive PROVE Inv /\ [Next]_vars => Inv'
BY NextType, NextLock, NextQScan, NextNames, NextUsers, NextFlags, NextDay, NextCalls DEF Inv

\* Nobody is in a transaction when nobody has STATUS.DAT open.
LEMMA Outside ==
  ASSUME Inv, Clean, m_statusFile = {}
  PROVE  \A i \in Instances : ~InTransaction(i)
BY DEF Inv, LockInv

\* Two posts never get the same Q-scan number, on any number of instances,
\* as long as every BeginTransaction gets the file opened.
THEOREM QScanUnique ==
  ASSUME Exclusive PROVE Spec => []UniqueQScan
<1>1. Inv => UniqueQScan
  BY DEF Inv, QScanInv, Clean, UniqueQScan
<1> QED BY <1>1, InitInv, NextInv, PTL DEF Spec

\* No registered user drops out of NAMES.LST, whichever instance writes it from
\* its copy, can or cannot save it, or crashes, but for the named exceptions: no
\* instance gives up opening STATUS.DAT, misses a full turn of the flag, fails to
\* open NAMES.LST for reading, or crashes between cutting it and writing it.
THEOREM UsersKept ==
  ASSUME Exclusive PROVE Spec => []NoUserLost
<1>1. Inv => NoUserLost
  BY DEF Inv, NamesInv, Awake, NoUserLost
<1> QED BY <1>1, InitInv, NextInv, PTL DEF Spec

\* The daily maintenance enters a day in the log at most once, and not before it
\* is over, however many instances see the date change.
THEOREM MaintainedOnce ==
  ASSUME Exclusive PROVE Spec => []MaintenanceOnce
<1>1. Inv => MaintenanceOnce
  <2> SUFFICES ASSUME Inv, Logged, \A i \in Instances : pc[i] # "zlog"
               PROVE  /\ \A k \in LogIndex : zlog[k].date < today
                      /\ \A k, l \in LogIndex : k < l => Newer(k, l)
    BY DEF MaintenanceOnce, Logged, Newer
  <2>1. \A k, l \in LogIndex : k < l => Newer(k, l)
    BY DEF Inv, DayInv
  <2>2. CASE \A i \in Instances : ~Closing(i)
    BY <2>1, <2>2, Numbers DEF Inv, DayInv
  <2>3. ASSUME NEW i \in Instances, Closing(i)
        PROVE  \A k \in LogIndex : zlog[k].date < today
    BY <2>3, Numbers DEF Inv, DayInv, Closing
  <2> QED BY <2>1, <2>2, <2>3
<1> QED BY <1>1, InitInv, NextInv, PTL DEF Spec

\* Every logon is counted once, for its day, in the record of the day or in the
\* log until the day falls off it, on any number of instances, over any number
\* of days and for a log of any length, as long as no instance gives up opening
\* STATUS.DAT or ZLOG.DAT, or crashes between writing one and the other.
THEOREM CallsAreAccounted ==
  ASSUME Exclusive PROVE Spec => []CallsAccounted
<1>1. Inv => CallsAccounted
  <2> SUFFICES ASSUME Inv, Whole, m_statusFile = {}
               PROVE  /\ file.callstoday = logons[file.date1]
                      /\ \A k \in LogIndex : zlog[k] # Blank => zlog[k].calls = logons[zlog[k].date]
                      /\ \A d \in Days : d < file.date1 /\ logons[d] > 0 => Kept(d)
    BY DEF CallsAccounted, Whole, Kept
  <2>1. \A i \in Instances : pc[i] # "zlog" /\ ~Closing(i)
    BY Outside, WholeTags DEF InTransaction, Closing
  <2> QED BY <2>1 DEF Inv, CallsInv
<1> QED BY <1>1, InitInv, NextInv, PTL DEF Spec

\* Outside of transactions STATUS.DAT has the number of users in NAMES.LST, on
\* any number of instances, unless the list was spoiled or could not be saved,
\* or an instance crashed between the two files.
THEOREM UsersAreCounted ==
  ASSUME Exclusive PROVE Spec => []UsersCounted
<1>1. Inv => UsersCounted
  <2> SUFFICES ASSUME Inv, Sound, m_statusFile = {}
               PROVE  file.users = Cardinality(namesLst)
    BY DEF UsersCounted, Sound
  <2>1. \A i \in Instances : pc[i] # "write" /\ ~Writing(i)
    BY Outside, SoundTags, Tags DEF InTransaction, Writing
  <2> QED BY <2>1 DEF Inv, UsersInv
<1> QED BY <1>1, InitInv, NextInv, PTL DEF Spec

\* An idle instance whose copy of NAMES.LST is out of date finds a flag that is
\* not the one it remembers, unless it has slept for a full turn of the flag,
\* for every number of values a flag can have, with the exceptions of
\* UsersAreCounted: a load or a save of the list that failed among them.
THEOREM StaleAreFlagged ==
  ASSUME Exclusive PROVE Spec => []StaleIsFlagged
<1>1. Inv => StaleIsFlagged
  <2> SUFFICES ASSUME Inv, Sound, m_statusFile = {},
                      NEW i \in Instances, pc[i] = "idle", names[i] # namesLst,
                      ~(version - seen[i] >= FlagMod)
               PROVE  FlagChanged(i)
    BY DEF StaleIsFlagged, Sound
  <2>1. \A j \in Instances : pc[j] # "write" /\ ~Writing(j)
    BY Outside, SoundTags, Tags DEF InTransaction, Writing
  <2>2. seen[i] # version
    BY <2>1 DEF Inv, UsersInv, HasNames, OthersQuiet
  <2>3. seen[i] <= version /\ seen[i] \in Nat /\ version \in Nat
    BY SoundTags DEF Inv, NamesInv, TypeOK
  <2>4. version % FlagMod # seen[i] % FlagMod
    BY <2>2, <2>3, FlagAssumption, FlagShows
  <2>5. file.flag = version % FlagMod /\ status[i].flag = seen[i] % FlagMod
    BY <2>1 DEF Inv, FlagInv
  <2> QED BY <2>4, <2>5 DEF FlagChanged
<1> QED BY <1>1, InitInv, NextInv, PTL DEF Spec
=============================================================================
