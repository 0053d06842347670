----------------------------- MODULE MessageBase -----------------------------
(***************************************************************************)
(* One message area: the records of its posts in the .sub file             *)
(* (bbs/subacc.cpp), their texts in blocks of the .dat file                *)
(* (bbs/message_file.cpp), and the programs that write both: the nodes of  *)
(* the BBS (post, the sysop's delete, pack) and wwivutil through the SDK   *)
(* (sdk/msgapi/message_area_wwiv.cpp).                                     *)
(*                                                                         *)
(* The share modes are those of Windows: a file open for writing keeps     *)
(* everybody else out, and File::Open gives up after its tries.  savefile, *)
(* remove_link and readfile hold the .dat file from open to close, so each *)
(* is one step; the .sub file is opened once for several writes, and a     *)
(* program may crash between them.  What the code does when the .dat file  *)
(* cannot be opened is part of the steps: it wipes the GAT of the file, or *)
(* goes on without the file.                                               *)
(***************************************************************************)
EXTENDS Integers, FiniteSets, FiniteSetsExt

CONSTANTS
  Nodes,       \* the instances of the BBS
  Tool,        \* wwivutil
  Nobody,      \* the .sub file is not open
  MaxMsgs,     \* maxmsgs of the area
  Blocks,      \* blocks of the .dat file; the end of a chain is Blocks + 1
  Sizes,       \* the blocks a text may need
  MayGiveUp,   \* File::Open may run out of its TRIES
  Packs,       \* the sysop packs areas
  MaxPosts, MaxDeletes, MaxCrashes     \* bounds

ASSUME NamesAssumption == Tool \notin Nodes /\ Nobody \notin Nodes \cup {Tool}
ASSUME SizesAssumption == /\ MaxMsgs \in Nat \ {0} /\ Blocks \in Nat \ {0}
                          /\ Sizes \subseteq 1..Blocks
ASSUME SwitchAssumption == MayGiveUp \in BOOLEAN /\ Packs \in BOOLEAN
ASSUME BoundAssumption == /\ MaxPosts \in Nat \ {0}
                          /\ MaxDeletes \in Nat /\ MaxCrashes \in Nat

Programs == Nodes \cup {Tool}
Numbers == 1..MaxPosts + 1             \* records the .sub file has room for
End == Blocks + 1                      \* the (uint16_t) -1 that ends a chain

VARIABLES
  count, recs,     \* the .sub file: record 0 counts the posts, the records
  dat,             \* the .dat file: the GAT, whose text is in a block, and
                   \* whether the file is there
  packtmp,         \* PACKTMP$.dat
  qscanptr,        \* in STATUS.DAT
  lock,            \* who has the .sub file open for writing
  pc,              \* where a program is
  cur,             \* cur[p]: the post p is adding
  number,          \* number[p]: the number node p is at, or the tool is told to delete
  shown,           \* shown[i]: the post node i has shown to its user
  total,           \* total[i]: the number of posts as node i knows it while it
                   \* reads; total[Tool]: what number_of_messages told the tool
  posts, deletes, crashes,    \* how many of each there were: bounded
  posted, deleted, \* ghosts: the posts added, and those removed
  leaked,          \* ghost: blocks of texts that no post has
  spoiled          \* ghost: the exceptional events that have happened

bounds == <<posts, deletes, crashes>>
ghosts == <<posted, deleted, leaked, spoiled>>
files == <<count, recs, dat, packtmp, qscanptr>>
vars == <<files, lock, pc, cur, number, shown, total, bounds, ghosts>>

\* A postrec: who it is (title, owner, date), its Q-scan number, where its
\* text starts and, as a ghost, how many blocks the text has.
Post(id, qscan, link, size) == [id |-> id, qscan |-> qscan, link |-> link, size |-> size]
NoPost == Post(0, 0, 0, 0)

NoDat == [gat |-> [b \in 1..Blocks |-> 0], text |-> [b \in 1..Blocks |-> 0],
          there |-> FALSE]

\* An empty area; the SDK's Create makes a .dat file, the BBS only when it
\* saves the first text.
Init ==
  /\ count = 0 /\ recs = [k \in Numbers |-> NoPost]
  /\ dat \in {NoDat, [NoDat EXCEPT !.there = TRUE]} /\ packtmp = NoDat /\ qscanptr = 1
  /\ lock = Nobody
  /\ pc = [p \in Programs |-> "idle"]
  /\ cur = [p \in Programs |-> NoPost]
  /\ number = [p \in Programs |-> 0]
  /\ shown = [p \in Programs |-> NoPost]
  /\ total = [p \in Programs |-> 0]
  /\ posts = 0 /\ deletes = 0 /\ crashes = 0
  /\ posted = {} /\ deleted = {} /\ leaked = {} /\ spoiled = {}

-----------------------------------------------------------------------------
(* The .dat file *)

\* What OpenMessageFile of the BBS does.  A file that cannot be opened is
\* taken for one that does not exist, and created: if that succeeds, the GAT
\* is "wiped", and if it does not, the program goes on with an empty GAT in
\* memory and no file ("failed").
Openings == {"opened"} \cup (IF MayGiveUp THEN {"wiped", "failed"} ELSE {})

Wiped(d) == [NoDat EXCEPT !.text = d.text, !.there = TRUE]

\* The file afterwards, and the GAT the program has in memory.
Opened(d, how) ==
  CASE how = "opened" -> [d EXCEPT !.there = TRUE]
    [] how = "wiped"  -> Wiped(d)
    [] how = "failed" -> d
Seen(d, how) == IF how = "opened" THEN d ELSE Wiped(d)

\* mutant: the last block of a text counts as free.
FreeBlocksAndEnds(d) == {b \in 1..Blocks : d.gat[b] \in {0, End}}

FreeBlocks(d) == {b \in 1..Blocks : d.gat[b] = 0}

\* The blocks of the text that starts at link.
Chain(d, link) ==
  LET from[k \in 0..Blocks] ==
        IF k = 0 THEN {link} \cap 1..Blocks
        ELSE LET reached == from[k - 1]
             IN  reached \cup ({d.gat[b] : b \in reached} \cap 1..Blocks)
  IN  from[Blocks]

\* savefile: the first free blocks, chained in ascending order.
Gati(d, size) ==
  {b \in FreeBlocks(d) : Cardinality({c \in FreeBlocks(d) : c < b}) < size}
Saved(d, gati, id) ==
  [gat |-> [b \in 1..Blocks |->
              IF b \in gati
              THEN LET later == {c \in gati : b < c}
                   IN  IF later = {} THEN End ELSE Min(later)
              ELSE d.gat[b]],
   text |-> [b \in 1..Blocks |-> IF b \in gati THEN id ELSE d.text[b]],
   there |-> TRUE]
Room(d, size) == Cardinality(FreeBlocks(d)) >= size

\* mutant: only the first block of a text is given back.
UnlinkedFirst(d, link) ==
  [d EXCEPT !.gat = [b \in 1..Blocks |-> IF b = link THEN 0 ELSE d.gat[b]]]

\* remove_link: the blocks of the text are free again.
Unlinked(d, link) ==
  [d EXCEPT !.gat = [b \in 1..Blocks |-> IF b \in Chain(d, link) THEN 0 ELSE d.gat[b]]]

-----------------------------------------------------------------------------
(* The .sub file *)

Opens(p) == lock = Nobody /\ lock' = p
Goes(p, where) == pc' = [pc EXCEPT ![p] = where]

\* get_post: a number past the last is taken for the last.
GetPost(n, last) == IF n < 1 \/ last = 0 THEN NoPost ELSE recs[Min({n, last})]

SamePost(p, q) == p.id = q.id /\ p.qscan = q.qscan

\* mutant: the post at n itself is not looked at.
ResynchPast(n, p, last) ==
  LET above == {i \in n + 1..last : SamePost(p, recs[i]) \/ p.qscan <= recs[i].qscan}
  IN  IF above = {} THEN last ELSE Min(above)

\* resynch: from n, the number of post p, or of the one that took its place.
\* (With no p given it takes for p what it finds at n.)
Resynch(n, p, last) ==
  LET here == GetPost(n, last)
      below == {i \in 1..Min({n, last + 1}) - 1 :
                  SamePost(p, recs[i]) \/ p.qscan >= recs[i].qscan}
      above == {i \in n + 1..last : SamePost(p, recs[i]) \/ p.qscan <= recs[i].qscan}
  IN  IF SamePost(here, p) THEN n
      ELSE IF p.qscan < here.qscan
           THEN (IF below = {} THEN 0 ELSE Max(below))
           ELSE (IF above = {} THEN last ELSE Min(above))

\* mutant: the post after the deleted one is not moved down.
ShiftedLate(n, last) ==
  [k \in Numbers |-> IF k > n /\ k < last THEN recs[k + 1] ELSE recs[k]]

\* The records after n are moved down, those up to last.
Shifted(n, last) ==
  [k \in Numbers |-> IF k >= n /\ k < last THEN recs[k + 1] ELSE recs[k]]

-----------------------------------------------------------------------------
(* A node of the BBS *)

\* The user of node i enters the area (iscan1) and reads a post, or reads on.
Known(i) == IF shown[i] = NoPost THEN count ELSE total[i]
Read(i, n) ==
  /\ pc[i] = "idle" /\ lock = Nobody /\ n <= Known(i)
  /\ number' = [number EXCEPT ![i] = n]
  /\ shown' = [shown EXCEPT ![i] = recs[n]]
  /\ total' = [total EXCEPT ![i] = Known(i)]
  /\ UNCHANGED <<files, lock, pc, cur, bounds, ghosts>>

\* readfile: the text of the post is read, and the .dat file left open no
\* longer than that; it may be created or wiped.
ReadText(i) ==
  /\ pc[i] = "idle" /\ shown[i] # NoPost
  /\ \E how \in Openings \ {"failed"} :
       /\ dat' = Opened(dat, how)
       /\ spoiled' = spoiled \cup ({how} \ {"opened"})
  /\ UNCHANGED <<count, recs, packtmp, qscanptr, lock, pc, cur, number, shown, total,
                 bounds, posted, deleted, leaked>>

\* post: the text is saved first.
NewText(i, link, size) ==
  /\ pc[i] = "idle" /\ posts < MaxPosts
  /\ cur' = [cur EXCEPT ![i] = Post(posts + 1, 0, link, size)]
  /\ posts' = posts + 1
  /\ Goes(i, "number")
  /\ UNCHANGED <<count, recs, packtmp, qscanptr, lock, number, shown, total,
                 deletes, crashes, posted, deleted, leaked>>

SaveFile(i) ==
  \E size \in Sizes, how \in Openings \ {"failed"} :
    LET d    == Seen(dat, how)
        gati == Gati(d, size)
    IN  /\ Room(d, size)
        /\ dat' = Saved(d, gati, posts + 1)
        /\ spoiled' = spoiled \cup ({how} \ {"opened"})
        /\ NewText(i, Min(gati), size)

\* Without the file nothing is saved, and where the text starts is whatever
\* was in the memory of gati[0].
SaveNothing(i) ==
  /\ "failed" \in Openings
  /\ \E link \in 0..Blocks : NewText(i, link, 0)
  /\ spoiled' = spoiled \cup {"not saved"}
  /\ UNCHANGED dat

\* Then it gets its Q-scan number, in a transaction of its own.
NumberPost(i) ==
  /\ pc[i] = "number"
  /\ cur' = [cur EXCEPT ![i].qscan = qscanptr]
  /\ qscanptr' = qscanptr + 1
  /\ Goes(i, "open")
  /\ UNCHANGED <<count, recs, dat, packtmp, lock, number, shown, total, bounds, ghosts>>

\* Then the .sub file is opened; a full area loses its oldest post.
OpenToPost(i) ==
  /\ pc[i] = "open" /\ Opens(i)
  /\ Goes(i, IF count >= MaxMsgs THEN "unlink" ELSE "count")
  /\ UNCHANGED <<files, cur, number, shown, total, bounds, ghosts>>

\* The node goes on reading where it was, if it was reading.
Returns(i) ==
  IF shown[i] = NoPost
  THEN Goes(i, "idle") /\ number' = [number EXCEPT ![i] = 0]
  ELSE Goes(i, "resynch") /\ UNCHANGED number

\* Where p gives up or crashes, the text it has saved belongs to no post.
LeavesText(p) == leaked' = leaked \cup Chain(dat, cur[p].link)
Forgets(p) == cur' = [cur EXCEPT ![p] = NoPost]

\* add_post does nothing when the file cannot be opened.
GiveUp(p) ==
  /\ MayGiveUp /\ pc[p] \in {"open", "toolOpen"} /\ lock \notin {Nobody, p}
  /\ LeavesText(p) /\ Forgets(p)
  /\ Returns(p)
  /\ UNCHANGED <<files, lock, shown, total, bounds, posted, deleted, spoiled>>

\* delete_message's argument: the oldest post when p is adding one, else the
\* number p is at.
Victim(p) == IF cur[p] = NoPost THEN number[p] ELSE 1

\* delete_message: the text goes first ...
GoesToShift(p) ==
  /\ pc[p] \in {"unlink", "toolUnlink"}
  /\ Goes(p, IF p = Tool THEN "toolShift" ELSE "shift")
  /\ UNCHANGED <<count, recs, packtmp, qscanptr, lock, cur, number, shown, total,
                 bounds, posted, deleted>>

RemoveLink(p) ==
  /\ GoesToShift(p)
  /\ p = Tool => dat.there
  /\ dat' = Unlinked(Opened(dat, "opened"), recs[Victim(p)].link)
  /\ UNCHANGED <<leaked, spoiled>>

\* ... if its GAT can be read: without the file the blocks stay in use, and
\* the record is removed all the same.
RemoveNoLink(i) ==
  \E how \in Openings \ {"opened"} :
    /\ GoesToShift(i)
    /\ dat' = Opened(dat, how)
    /\ leaked' = leaked \cup Chain(dat', recs[Victim(i)].link)
    /\ spoiled' = spoiled \cup ({how} \ {"failed"})

\* ... then the record.
ShiftDown(i) ==
  /\ pc[i] = "shift"
  /\ recs' = Shifted(Victim(i), count)
  /\ count' = count - 1
  /\ deleted' = deleted \cup {recs[Victim(i)].id}
  /\ Goes(i, IF cur[i] = NoPost THEN "close" ELSE "count")
  /\ UNCHANGED <<dat, packtmp, qscanptr, lock, cur, number, shown, total, bounds,
                 posted, leaked, spoiled>>

\* add_post: the count goes first ...
WriteCount(i) ==
  /\ pc[i] = "count"
  /\ count' = count + 1
  /\ Goes(i, "record")
  /\ UNCHANGED <<recs, dat, packtmp, qscanptr, lock, cur, number, shown, total,
                 bounds, ghosts>>

\* ... then the record.
WriteRecord(i) ==
  /\ pc[i] = "record"
  /\ recs' = [recs EXCEPT ![count] = cur[i]]
  /\ posted' = posted \cup {cur[i].id}
  /\ Forgets(i) /\ Goes(i, "close")
  /\ UNCHANGED <<count, dat, packtmp, qscanptr, lock, number, shown, total, bounds,
                 deleted, leaked, spoiled>>

\* mutant: the file stays open.
CloseSubNot(i) ==
  /\ pc[i] = "close"
  /\ lock' = lock
  /\ Returns(i)
  /\ total' = [total EXCEPT ![i] = IF shown[i] = NoPost THEN 0 ELSE count]
  /\ UNCHANGED <<files, cur, shown, bounds, ghosts>>

\* While node i has the file open for writing, the number of posts it knows
\* is that in the file; from now on it may not be.
CloseSub(i) ==
  /\ pc[i] = "close"
  /\ lock' = Nobody
  /\ Returns(i)
  /\ total' = [total EXCEPT ![i] = IF shown[i] = NoPost THEN 0 ELSE count]
  /\ UNCHANGED <<files, cur, shown, bounds, ghosts>>

\* After a reply the node looks where the post it had shown is, and after a
\* delete where the deleted one would be.
ResynchShown(i) ==
  /\ pc[i] = "resynch" /\ lock = Nobody
  /\ number' = [number EXCEPT ![i] = Resynch(@, shown[i], total[i])]
  /\ shown' = [shown EXCEPT ![i] = GetPost(number'[i], total[i])]
  /\ Goes(i, "idle")
  /\ UNCHANGED <<files, lock, cur, total, bounds, ghosts>>

\* HandleMessageDelete: open_sub, resynch with no post given, and what is at
\* that number is deleted.
DeleteShown(i) ==
  /\ pc[i] = "idle" /\ shown[i] # NoPost /\ deletes < MaxDeletes
  /\ Opens(i)
  /\ deletes' = deletes + 1
  /\ number' = [number EXCEPT ![i] = Resynch(@, GetPost(@, count), count)]
  /\ shown' = [shown EXCEPT ![i] = GetPost(number'[i], count)]
  /\ Goes(i, IF number'[i] \in 1..count THEN "unlink" ELSE "close")
  /\ UNCHANGED <<files, cur, total, posts, crashes, ghosts>>

\* pack_sub: every text is copied to PACKTMP$.dat, every record changed ...
OpenToPack(i) ==
  /\ Packs /\ pc[i] = "idle" /\ shown[i] = NoPost /\ count > 0 /\ Opens(i)
  /\ Goes(i, "pack")
  /\ UNCHANGED <<files, cur, number, shown, total, bounds, ghosts>>

\* The text at link as readfile finds it; "??" (0) when there is none.
TextAt(d, link) ==
  LET found == {d.text[b] : b \in Chain(d, link)}
  IN  IF Cardinality(found) = 1 THEN CHOOSE id \in found : TRUE ELSE 0

\* One post copied: rd is how readfile opens the .dat file and sv how savefile
\* opens PACKTMP$.dat; without the latter the link is whatever it is.
Copied(acc, k, rd, sv, link) ==
  LET text == Seen(acc.dat, rd)
      size == Max({1, Cardinality(Chain(text, recs[k].link))})
      id   == IF rd = "failed" THEN 0 ELSE TextAt(text, recs[k].link)
      tmp  == Seen(acc.tmp, sv)
      gati == Gati(tmp, size)
  IN  [dat  |-> Opened(acc.dat, rd),
       tmp  |-> IF sv = "failed" THEN acc.tmp ELSE Saved(tmp, gati, id),
       recs |-> [acc.recs EXCEPT ![k].link = IF sv = "failed" THEN link ELSE Min(gati)]]

\* Bound: at most one opening of a pack fails.
Except(j, how) == [k \in 1..count |-> IF k = j THEN how ELSE "opened"]

Packed(j, rd, sv, link) ==
  LET packed[k \in 0..count] ==
        IF k = 0 THEN [dat |-> dat, tmp |-> packtmp, recs |-> recs]
        ELSE Copied(packed[k - 1], k, Except(j, rd)[k], Except(j, sv)[k], link)
  IN  packed[count]

PackCopy(i) ==
  /\ pc[i] = "pack"
  /\ \E j \in 1..count, rd, sv \in Openings :
     \E link \in IF sv = "failed" THEN 0..Blocks ELSE {0} :
       /\ "opened" \in {rd, sv}
       /\ LET done == Packed(j, rd, sv, link)
          IN  dat' = done.dat /\ packtmp' = done.tmp /\ recs' = done.recs
       /\ spoiled' = spoiled \cup (IF {rd, sv} = {"opened"} THEN {} ELSE {"not packed"})
  /\ Goes(i, "remove")
  /\ UNCHANGED <<count, qscanptr, lock, cur, number, shown, total, bounds, posted,
                 deleted, leaked>>

\* ... and then PACKTMP$.dat takes the place of the .dat file.  A text saved
\* by a program that has not added its post yet goes with the old file, which
\* stays if another program has it open.
PackRemove(i) ==
  /\ pc[i] = "remove"
  /\ \/ /\ dat' = NoDat /\ leaked' = {}
        /\ spoiled' = spoiled \cup
             (IF \E p \in Programs : cur[p].link # 0 THEN {"stray"} ELSE {})
     \/ MayGiveUp /\ UNCHANGED <<dat, leaked, spoiled>>
  /\ Goes(i, "rename")
  /\ UNCHANGED <<count, recs, packtmp, qscanptr, lock, cur, number, shown, total,
                 bounds, posted, deleted>>

\* A file of that name keeps it out: the old one, or one that another program
\* has created since.  The records say where the texts are in PACKTMP$.dat.
PackRename(i) ==
  /\ pc[i] = "rename"
  /\ IF dat.there
     THEN spoiled' = spoiled \cup {"not renamed"} /\ UNCHANGED <<dat, packtmp>>
     ELSE dat' = packtmp /\ packtmp' = NoDat /\ UNCHANGED spoiled
  /\ Goes(i, "close")
  /\ UNCHANGED <<count, recs, qscanptr, lock, cur, number, shown, total, bounds,
                 posted, deleted, leaked>>

-----------------------------------------------------------------------------
(* wwivutil *)

\* AddMessage: the Q-scan number, the text, then the record and the count.
ToolNumber ==
  /\ pc[Tool] = "idle" /\ posts < MaxPosts
  /\ cur' = [cur EXCEPT ![Tool] = Post(posts + 1, qscanptr, 0, 0)]
  /\ posts' = posts + 1
  /\ qscanptr' = qscanptr + 1
  /\ Goes(Tool, "toolSave")
  /\ UNCHANGED <<count, recs, dat, packtmp, lock, number, shown, total, deletes,
                 crashes, ghosts>>

ToolSave ==
  /\ pc[Tool] = "toolSave" /\ dat.there
  /\ \E size \in Sizes :
       /\ Room(dat, size)
       /\ LET gati == Gati(dat, size)
          IN  /\ dat' = Saved(dat, gati, cur[Tool].id)
              /\ cur' = [cur EXCEPT ![Tool] = Post(@.id, @.qscan, Min(gati), size)]
  /\ Goes(Tool, "toolOpen")
  /\ UNCHANGED <<count, recs, packtmp, qscanptr, lock, number, shown, total, bounds,
                 ghosts>>

ToolOpen ==
  /\ pc[Tool] = "toolOpen" /\ Opens(Tool)
  /\ Goes(Tool, "toolRecord")
  /\ UNCHANGED <<files, cur, number, shown, total, bounds, ghosts>>

ToolRecord ==
  /\ pc[Tool] = "toolRecord"
  /\ recs' = [recs EXCEPT ![count + 1] = cur[Tool]]
  /\ Goes(Tool, "toolHeader")
  /\ UNCHANGED <<count, dat, packtmp, qscanptr, lock, cur, number, shown, total,
                 bounds, ghosts>>

ToolHeader ==
  /\ pc[Tool] = "toolHeader"
  /\ count' = count + 1
  /\ posted' = posted \cup {cur[Tool].id}
  /\ Forgets(Tool) /\ lock' = Nobody /\ Goes(Tool, "idle")
  /\ UNCHANGED <<recs, dat, packtmp, qscanptr, number, shown, total, bounds,
                 deleted, leaked, spoiled>>

\* DeleteMessage: the number of posts is read, and the file closed again ...
ToolCount(n) ==
  /\ pc[Tool] = "idle" /\ lock = Nobody /\ n <= count /\ deletes < MaxDeletes
  /\ deletes' = deletes + 1
  /\ total' = [total EXCEPT ![Tool] = count]
  /\ number' = [number EXCEPT ![Tool] = n]
  /\ Goes(Tool, "toolDelete")
  /\ UNCHANGED <<files, lock, cur, shown, posts, crashes, ghosts>>

\* ... before it is opened for the delete.
ToolDelete ==
  /\ pc[Tool] = "toolDelete" /\ Opens(Tool)
  /\ Goes(Tool, "toolUnlink")
  /\ UNCHANGED <<files, cur, number, shown, total, bounds, ghosts>>

\* The number read before counts, not what is in the file.
ToolShift ==
  /\ pc[Tool] = "toolShift"
  /\ recs' = Shifted(number[Tool], total[Tool])
  /\ count' = total[Tool] - 1
  /\ deleted' = deleted \cup {recs[number[Tool]].id}
  /\ spoiled' = spoiled \cup (IF count # total[Tool] THEN {"stale total"} ELSE {})
  /\ total' = [total EXCEPT ![Tool] = 0]
  /\ number' = [number EXCEPT ![Tool] = 0]
  /\ lock' = Nobody /\ Goes(Tool, "idle")
  /\ UNCHANGED <<dat, packtmp, qscanptr, cur, shown, bounds, posted, leaked>>

-----------------------------------------------------------------------------
\* A program dies; its files are closed.
Dies(p) ==
  /\ lock' = IF lock = p THEN Nobody ELSE lock
  /\ LeavesText(p) /\ Forgets(p)
  /\ shown' = [shown EXCEPT ![p] = NoPost]
  /\ number' = [number EXCEPT ![p] = 0]
  /\ total' = [total EXCEPT ![p] = 0]
  /\ spoiled' = spoiled \cup
       (CASE pc[p] \in {"shift", "toolShift"} -> {"half deleted"}
          [] pc[p] = "record" -> {"half added"}
          [] pc[p] \in {"remove", "rename"} -> {"half packed"}
          [] OTHER -> {})
  /\ Goes(p, "idle")
  /\ UNCHANGED <<files, posts, deletes, posted, deleted>>

Crash(p) ==
  /\ pc[p] # "idle" /\ crashes < MaxCrashes
  /\ crashes' = crashes + 1
  /\ Dies(p)

\* The SDK's OpenMessageFile creates no file; it returns a null pointer, which
\* savefile and remove_link follow.
ToolDies ==
  /\ pc[Tool] \in {"toolSave", "toolUnlink"} /\ (MayGiveUp \/ ~dat.there)
  /\ Dies(Tool)
  /\ UNCHANGED crashes

Node(i) ==
  \/ \E n \in Numbers : Read(i, n)
  \/ ReadText(i) \/ SaveFile(i) \/ SaveNothing(i) \/ NumberPost(i) \/ OpenToPost(i)
  \/ RemoveLink(i) \/ RemoveNoLink(i) \/ ShiftDown(i) \/ WriteCount(i) \/ WriteRecord(i)
  \/ CloseSub(i) \/ ResynchShown(i) \/ DeleteShown(i)
  \/ OpenToPack(i) \/ PackCopy(i) \/ PackRemove(i) \/ PackRename(i)

Wwivutil ==
  \/ ToolNumber \/ ToolSave \/ ToolOpen \/ ToolRecord \/ ToolHeader
  \/ \E n \in Numbers : ToolCount(n)
  \/ ToolDelete \/ RemoveLink(Tool) \/ ToolShift \/ ToolDies

Next ==
  \/ \E i \in Nodes : Node(i)
  \/ Wwivutil
  \/ \E p \in Programs : GiveUp(p) \/ Crash(p)

Spec == Init /\ [][Next]_vars

\* Bound: after an exceptional event nothing is claimed, and nothing explored.
Unspoiled == spoiled = {}

-----------------------------------------------------------------------------
(* Properties *)

Listed == {recs[k] : k \in 1..count}
AtRest == lock = Nobody /\ spoiled = {}

NodeHolds == {"unlink", "shift", "count", "record", "close", "pack", "remove",
              "rename"}
ToolHolds == {"toolRecord", "toolHeader", "toolUnlink", "toolShift"}
Places == {"idle", "number", "open", "resynch", "toolSave", "toolOpen", "toolDelete"}

\* Types, and who has the .sub file open: exactly the program that is between
\* open_sub and close_sub.
TypeOK ==
  /\ count \in 0..MaxPosts
  /\ recs \in [Numbers -> [id : 0..MaxPosts, qscan : 0..MaxPosts, link : 0..Blocks,
                           size : 0..Blocks]]
  /\ {dat, packtmp} \subseteq [gat : [1..Blocks -> 0..End],
                               text : [1..Blocks -> 0..MaxPosts], there : BOOLEAN]
  /\ qscanptr \in 1..MaxPosts + 1
  /\ pc \in [Programs -> Places \cup NodeHolds \cup ToolHolds]
  /\ \A p \in Programs : lock = p <=> pc[p] \in NodeHolds \cup ToolHolds
  /\ lock \in Programs \cup {Nobody}
  /\ number \in [Programs -> 0..MaxPosts]
  /\ total \in [Programs -> 0..MaxPosts]

\* While nobody is writing, the chain of every post in the list holds the
\* text of that post, all of it and nothing else: savefile and remove_link of
\* several programs do not meet in the GAT, and a delete that cannot open the
\* .dat file touches no text.  The exceptions are the events of spoiled: a GAT
\* wiped by a program that took the file for missing, a text saved or copied
\* without the file, a pack whose rename was kept out by the old file, which
\* could not be removed, or by one made since, or that met a text saved before
\* it and added after it, a delete, add or pack cut in half by a crash, and
\* wwivutil's delete with a stale number of posts.
TextIntact ==
  AtRest => \A p \in Listed :
              LET blocks == Chain(dat, p.link)
              IN  /\ Cardinality(blocks) = p.size /\ blocks # {}
                  /\ \A b \in blocks : dat.text[b] = p.id

\* While nobody is writing, the list holds every post that was added and not
\* removed, each once, with the same exceptions.
NoPostLost ==
  AtRest => /\ {p.id : p \in Listed} = posted \ deleted
            /\ Cardinality(Listed) = count

\* While nobody is writing, a block is in use exactly when it belongs to a
\* post in the list, to one being added, or to a text left behind: given up on
\* the way, or of a post removed while the .dat file could not be opened.  The
\* same exceptions.
BlocksAccounted ==
  AtRest => 1..Blocks \ FreeBlocks(dat)
              = (UNION {Chain(dat, p.link) : p \in Listed})
                  \cup (UNION {Chain(dat, cur[p].link) : p \in Programs}) \cup leaked

\* After a reply the node is at the post it had shown (get_post finds it at
\* the node's number), if that is still in the list and the records resynch
\* looks at are in the order of the Q-scan numbers.  They may not be: two nodes
\* may add their posts in the other order than they got their numbers.  The
\* records are those of the list as long as it was when the node closed it;
\* when posts were deleted since, the last ones are left from longer lists.
InOrder(last) ==
  \A j, k \in 1..last :
    j < k => SamePost(recs[j], recs[k]) \/ recs[j].qscan < recs[k].qscan
ReplyReturns ==
  [][\A i \in Nodes : (/\ pc[i] = "resynch" /\ pc'[i] = "idle" /\ crashes' = crashes
                       /\ shown[i] \in Listed /\ InOrder(total[i]) /\ spoiled = {})
       => GetPost(number'[i], total[i]).id = shown[i].id]_vars

\* The comment in the SDK says what subchg is for: "so that resynch can work
\* right on multi node configs".  It does when the node deletes the post that
\* it has shown, and not one that has moved to its number since.
DeletesWhatWasShown ==
  [][\A i \in Nodes : (pc[i] = "idle" /\ pc'[i] = "unlink")
       => recs[number'[i]].id = shown[i].id]_vars
=============================================================================
