# WWIV: a TLA+ model of its concurrent parts

WWIV is a bulletin board system: a BBS program of which several instances
(*nodes*) run at once on one set of data files, a Windows server that hands
callers to those instances, and network programs that exchange mail with other
systems. Nothing in it is a server that owns the data: instances coordinate
through files, share modes and change flags, sessions between systems through a
protocol with timeouts. That is what this directory models, checks with TLC and
proves with TLAPS.

## 1. Inventory

| Component | State | Operations | Interacts with | What makes it hard |
|---|---|---|---|---|
| **networkb** (`networkb/binkp.cpp`, `cram.cpp`, `wfile_transfer_file.cpp`, `socket_connection.cpp`) | one `BinkP` object per process; `sN.net` out, an inbound file, `p1-0-i.net` pending, `CONTACT.NET` | the handlers of `BinkState`, `process_frames`, the command handlers, `rename_pending_files`, `process_network_files` | the other system over TCP; network1 through files | timeouts racing late answers, broken sessions, crashes, files that change while they are sent |
| **WWIV5TelnetServer** (`NodeManager.cs`, `TelnetServer.cs`, `SSHServer.cs`) | `NodeStatus.InUse` of every node | accept loop, `getNextNode`, `LaunchInstance`, `freeNode`, `Start`, `Stop` | the BBS processes it starts | two accept loops and many instance threads on one pool; exceptions and aborts half-way |
| **status manager** (`bbs/status.cpp`, `wstatus.h`) with its users `smallrecord.cpp`, `sysopf.cpp`, `lilo.cpp`, `msgbase1.cpp`, `sdk/names.cpp` | `STATUS.DAT`, a cache per instance, `NAMES.LST`, a copy per instance, `ZLOG.DAT` | `RefreshStatusCache`, `BeginTransaction`, `CommitTransaction`, `AbortTransaction`, and what callers do in between | every instance, through share modes and change flags | lost updates, stale caches, a flag that wraps, files that are cut before they are written, opens whose failure nobody looks at, crashes between two files, midnight |
| **message bases** (`bbs/message_file.cpp`, `subacc.cpp`, `msgbase1.cpp`, `msgscan.cpp`, `sdk/msgapi`) | `.dat` with its GAT, `.sub` with its count, the count and the post a reader knows | `savefile`, `remove_link`, `add_post`, `delete_message`, `resynch`, `pack_sub`, the SDK's `AddMessage` and `DeleteMessage` | status manager (change flag of posts, Q-scan pointer), other nodes and wwivutil through share modes | several programs in one GAT, a list that moves under a reader, crashes between the two files, a file that cannot be opened and is taken for a missing one |
| **inter-instance messages** (`bbs/instmsg.cpp`, `multinst.cpp`) | `TMSGsss.ddd`, `MSGnnnnn.ddd`, `INSTANCE.DAT`, the gate `iia` | `send_inst_msg`, `broadcast`, `process_inst_msgs`, `inst_msg_waiting`, `setiia`, `write_inst` | other instances through renames; every command that writes a line polls | names that are taken, files replaced while they are read, output that polls again |
| **chat room** (`bbs/chat.cpp`) | the channel of each instance in `INSTANCE.DAT`, lock files `CHANNEL.n` | entering, talking, whispering, `secure_ch`, `change_channels`, `cleanup_chat`, leaving | the messages above | check-then-act on the locks and on who is where, lost carriers |
| **XModem/YModem** (`bbs/srsend.cpp`, `srrcv.cpp`) | block number, position, error counts | `okstart`, `send_b`, `receive_block`, `xymodem_send`, `xymodem_receive` | the caller's terminal | lost, damaged, repeated and late blocks and answers; a block number of one byte; sockets that drop NULs |
| **nodemgr** | `nodeinuse.N` files | `main`, `launchNode` | other nodemgr processes | test, then create |
| the rest of the BBS, init, fix, wwivutil, legacy network programs, updater | records of their own | interactive commands, repair, configuration | – | single user, sequential; not modelled (section 7) |

What would make the components wrong is listed, line by line, under `hazards` in
`PROJECT.json`.

## 2. Modules

| Module | What it is |
|---|---|
| `BinkP` | both sides of BinkP sessions, the mail files and the environment |
| `MCBinkP` | the scenarios TLC runs it on |
| `BinkP_proofs` | proofs for any passwords, chunk sizes, bounds and environments |
| `BinkPMail_proofs` | proofs about the mail itself: nothing lost, nothing cut short, all of it delivered when nothing disturbs a session |
| `NatInduction` | induction and sums over naturals, for the proofs |
| `NodeManager` | the node pool, the accept loops and the instance threads |
| `MCNodeManager` | two servers, three callers, two nodes |
| `NodeManager_proofs` | proofs for any number of servers, callers and nodes |
| `StatusMgr` | `STATUS.DAT`, its caches, its transactions and their users |
| `MCStatusMgr` | two instances, two users, a flag of two values, a log of two days |
| `StatusMgr_proofs` | proofs for any number of instances, users and transactions |
| `MessageBase` | the posts and texts of one area, its nodes and wwivutil |
| `MCMessageBase` | two nodes and wwivutil, an area of two posts |
| `MessageBase_proofs` | proofs for any number of nodes, posts, blocks and crashes |
| `InstMsg` | messages between instances and `INSTANCE.DAT` |
| `Chat` | log-on, log-off, chat room and shutdowns, composed with `InstMsg` |
| `MCChat` | two instances, two channels, an invisible sysop |
| `Chat_proofs` | proofs for any number of instances, channels, commands and faults |
| `FileCopy` | what a file transfer promises: the abstract specification of `XYModem` |
| `XYModem` | both ends of an XMODEM or YMODEM transfer and the line |
| `MCXYModem` | block numbers that come round within the file, lines without NUL or without LF |
| `XYModem_proofs` | types, and the refinement of `FileCopy` |

Definitions named `...Always`, `...Unchecked`, `...Kept` and the like, marked
`mutant` in a comment, are wrong versions of the definition that follows them;
they are not part of the specification. `PROJECT.json` says which property each
of them breaks.

### 2.1 BinkP

`Run` is a loop over handlers; frames are only read inside `process_frames`,
which a handler calls for a bounded time. Those calls are the only points where
the two processes interleave, so a handler is cut into steps there: `pc[s]` is
`"handler"` at its beginning, the name of an inner window, or `"tail"` for the
`process_frames` at the bottom of `Run`. `state[s]` is the local `state` of
`Run`, `sess[s]` holds the members of the `BinkP` object, `chan[s]` the frames in
flight and `rst[s]` a TCP reset in flight. `ReceiveCommand`,
`HandleFileGotRequest`, `process_data` and `DropData` are `process_command` and
`process_data`; the other actions of `Handler(s)` are the handlers, in the order
of the source.

A mail file is a sequence of numbered packets, a data frame carries
`ChunkSize` of them (16384 bytes in the code). The disk (`out`, `inb`, `pend`,
`delivered`) survives crashes. `late` and `offers` are ghosts: packets appended
between the offer and its acknowledgement, and every content that was offered.
`conf` is the installation: passwords, whether each side knows the other's
address and has a record of it in `CONTACT.NET`, POSIX or Windows renames,
`--skip_net`, whether reads and deletions may fail, whether the link is *prompt*,
and the bounds. A sent file that resists its deletion is offered again by the
next call; that it is then taken in twice is not something the properties speak
of, `delivered` being a set.

Abstractions: a window may end at any moment unless the link is prompt; the
loops that call `process_frames` several times in a row with the same arguments
are one window; after a data frame without a current file the code leaves
`process_frames` once, the model stays, which only adds behaviours; digests do
not collide; every file is non-empty. `M_GET` is never sent by this code and its
handler is left out. network1 is external: it appends to `sN.net` and takes in
and deletes pending files. In `WrongSystem` the answering side may still offer
mail to a caller that has refused it; the property speaks of the caller only.

### 2.2 NodeManager

`inUse` is the flag under `nodeLock`, `pc[s]`, `socket[s]`, `node[s]` the
launcher thread of server `s`, `call[c]` the life of a caller: `away`,
`accepted`, then in its instance thread `launch`, `running`, `finally`.
`getNextNode` and `freeNode` are one step each because of the lock; reading
`RemoteEndPoint` is a step of its own since it can throw. `Stop` has two steps:
it closes the listening socket and sets `server` to null (`StopCloses`, the
servers in `closing`), and then aborts the launcher wherever it is
(`StopAborts`); instance threads go on. A launcher that comes back to `Accept`
in between calls it on null: `Run` catches only `SocketException`, so that the
`NullReferenceException` ends the program with all its threads (`AcceptOnNull`),
and the operator starts it anew with a fresh pool. What became of the BBS
processes of the old one is outside of the model, and `NodeExclusive` speaks of
one run of the program. A call is over as `served`, `busy`, `gone` (before its
address was read) or `cut` (its server was stopped). `dropped` is a ghost: nodes
a launcher forgot. TelnetServer.cs and SSHServer.cs are the same code, so that
`Servers` is a set.

### 2.3 StatusMgr

`file` is the record in `STATUS.DAT`, `status[i]` the global of instance `i`,
`m_statusFile` the instances that have the file open in a transaction. Opening
it for writing is exclusive on Windows (`Exclusive`), and on Unix is not: there
`flock` is always asked for a shared lock. `File::Open` retries and then gives
up (`MayGiveUp`): `BeginTransaction` then goes on with the record in the cache.
`pc[i]`: `down`, `start` (up to the first transaction), `read_names`, `idle`,
`load`/`loadTx` (a flag had changed; `Names::Load` runs after the file was
read, and in `RefreshStatusCache` after it was closed), `tx`, `write` (`NAMES.LST`
is cut to nothing and not written yet), `zlog` (the entries of `ZLOG.DAT` are
moved on and the closed day is not written yet), `commit`. An operation is
`BeginTransaction`, the caller's body, `CommitTransaction`; a crash may come
between any two steps.

The other two files can fail to open as well (`MayGiveUp`), and no caller looks:
- `Names::Load` that fails leaves the old copy under the new flag (`LoadFails`;
  at the start, an empty one: `read_namesFails`);
- `Names::Save` that fails leaves the list on disk, while the copy, the count and
  the flag go on (`SaveFails`); one that succeeds is `Truncate` and `WriteNames`;
- `beginday` that cannot open `ZLOG.DAT`, which `zlog` keeps open while it pages,
  opens it to create it: ninety-seven blank records over the log, or nothing at
  all, while the counters of the day are cleared. The three ways are the three
  disjuncts of `beginday`.

Of the seven change flags the one of `NAMES.LST` is modelled, since it guards a
file that is rewritten from a cache; of the counters `NewDay` resets, the calls
of the day. A user's record is claimed in `USER.LST` before its name is entered,
so that no two instances enter the same user, and released by `deluser`.
`BEGINDAYNODENUMBER` is 0, which lets every instance run the maintenance. The log
keeps `LogSize` days (97) and drops the oldest; moving its entries on is one
step, after which the newest is there twice. Transactions are not nested in the
code.

Ghosts: `posts` (numbers given out), `registered` (users entered and not
deleted), `logons`, `version` and `seen` (changes of `NAMES.LST`, and how many of
them instance `i` has had the chance to see), and `spoiled`, the exceptional
events that have happened:

| Tag | Event | Excused in |
|---|---|---|
| `gaveUp` | a transaction without `STATUS.DAT` | all but `TypeOK` |
| `slept` | the flag was found where it was although the file had changed | users |
| `notLoaded` | `NAMES.LST` could not be opened to load it | users |
| `emptied` | a crash between cutting `NAMES.LST` and writing it | users |
| `notSaved` | `NAMES.LST` could not be opened to save it | `UsersCounted`, `StaleIsFlagged` |
| `cut` | a crash between `NAMES.LST` and `STATUS.DAT` | `UsersCounted`, `StaleIsFlagged` |
| `cutLog` | a crash inside the maintenance | `MaintenanceOnce`, `CallsAccounted` |
| `logWiped` | `ZLOG.DAT` was created over the log | `CallsAccounted` |
| `notLogged` | `ZLOG.DAT` could not be opened at all | `CallsAccounted` |

*Users* are `NoUserLost`, `UsersCounted` and `StaleIsFlagged`. Each excuse is
necessary: without it TLC finds the property violated. `NoUserLost` holds
through `notSaved` and `cut`: what may be lost is the user being entered, who
is not counted as `registered` from then on, and nobody else, although the next instance rewrites the file
from its own copy.

### 2.4 MessageBase

One area. `count` and `recs` are the `.sub` file (record 0 and the posts), `dat`
the GAT of one section and, as the text of each block, whose it is. `Chain` is
what `readfile` and `remove_link` follow; `Saved` is `savefile`, which takes the
first free blocks. A program is at `pc[p]` between two file operations. The
`.dat` file is open from the first read of the GAT to its write, and share modes
keep other programs out, so `savefile`, `remove_link` and `readfile` are one
step each. The `.sub` file is held (`lock`) over several writes, which are
steps of their own: a crash can come between the text and the record of a
delete, or between the count and the record of an add. `bbs` and the SDK write
the two in different orders, and the model keeps each order.

`OpenMessageFile` of the BBS takes every file it cannot open for one that does
not exist (message_file.cpp:62), creates it and clears the GAT. With `how` in
`Openings` a step says which of three things happened: `opened` (the file, or a
new one where there was none: `dat.there`), `wiped` (the first open failed and the
second did not: the GAT of an existing file is gone) or `failed` (both did: the
program has an empty GAT in memory and no file). Then `savefile` saves nothing
and hands back whatever the memory of `gati` held (`SaveNothing`), `remove_link`
frees nothing and the record is removed all the same (`RemoveNoLink`), and
`readfile` shows "??" or an old text (`ReadText`, which may wipe as well). The
SDK's `OpenMessageFile` creates nothing and returns a null pointer, which
`savefile` and `remove_link` follow: `ToolDies`. `pack_sub` copies text by text,
with these failures (`Packed`), then removes the `.dat` file and renames its copy,
two calls whose results it drops (`PackRemove`, `PackRename`).

A reading node knows the number it is at, the post it has shown and a number of
posts that may be old. `Resynch` is `resynch`; the several `get_post` calls of
one `resynch` are one step, and the test of `subchg` in front of it is left out
(without a change `resynch` finds the post where it was). Full areas lose their
oldest post; posts marked `no_delete` are not modelled. A node whose `open_sub`
gives up before `add_post` does not get the file later in the same `add_post`.
`remove_post` of `msgbase1.cpp` is a delete by number by its author and adds
nothing to `HandleMessageDelete`.

`spoiled` names the events that do damage, which the properties except:

| Tag | Event |
|---|---|
| `wiped` | an existing `.dat` file that could not be opened was created anew |
| `not saved` | a text was saved without the file |
| `not packed` | a pack read or wrote a text without its file |
| `not renamed` | a pack could not put its copy in place: the old file was not removed, or a new one had been made |
| `stray` | a text saved before a pack and posted after it |
| `half deleted`, `half added`, `half packed` | a crash in the middle |
| `stale total` | wwivutil's delete with an old number of posts |

TLC finds a counterexample without each of them: these are losses the code does
not guard against, and no property here catches them. What does not need an
exception is a delete that cannot open the `.dat` file: it only leaves blocks in
use. Those, and the blocks of texts whose post was never added, are in `leaked`:
the code frees them only by packing.

### 2.5 InstMsg and Chat

`InstMsg` has the state and the steps of `instmsg.cpp`: a *round* is the loop of
`send_inst_msg` over the addressees of a broadcast; for each it looks at
`INSTANCE.DAT`, appends to `TMSGsss.ddd` and renames that to `MSG00000.ddd`. The
loop over a thousand names leaves after the first, so that there is one name.
What the rename does when the name is taken depends on the platform, which is a
variable: on POSIX it replaces the file, and an unread message is lost; on
Windows it fails, and the message stays in `TMSG` until the sender's next one
for the same instance. `Poll` is `inst_msg_waiting` and the opening of the file
in `process_inst_msgs`, `HandleString`, `HandleShutdown` and `DeleteFile` the
rest of it. A file that `FindNextFile` would find is what the next `Poll` finds.

`Chat` EXTENDS `InstMsg` and says when those steps are taken: an instance polls
where it writes lines (waiting for a call, at the menu, in the room, at the
question of `/c`), and not in the middle of a round or of a message. Commands
are cut where another instance can come between: `WriteInst` and the broadcast
are two steps; `cleanup_chat` looks at a channel and removes its lock in two;
the lock is tested in `Choose` and the channel entered in `Enter`. `hangup` is
set by a lost carrier or by a log-off; with it every question returns.

Abstractions: `CH_PROMPT` is 0, as `chat.ini` ships; the tests of `check_ch`
other than the lock, actions, pages and channel names are left out. A message is
its sender, a number and a kind; `EMAIL`, `SYSMSG` and the others are handled as
`STRING` is. `due`, `last`, `redo`, `owed` and `insiders` are ghosts. The
`continue` after a failed open in `process_inst_msgs` would repeat for ever; with
the file there the open succeeds in the model. So do the opens of `TMSG` and of
`INSTANCE.DAT` and the deletion of a file that was read: the code passes over an
addressee in silence when one of the former fails, and would handle the file
again after the latter. `NothingLost` speaks of messages written; `EveryoneTold`
and `InOrder` are promises only as long as those calls succeed. A chatop whose carrier is lost at
the question goes to channel 0, which exists nowhere else.

### 2.6 XYModem and FileCopy

A file is counted in units, unit i being the number i. A block of 128 bytes is
`Small` units, one of 1024 `Large`; a block number is taken modulo `BlockMod`
(256). `fwd` and `rep` are the two directions of the line with the input buffer
at its end, at most `LineCap` things each; what does not fit is lost. The
sender's actions are `okstart`, `send_block`, and the answer, the time-out, the
keyboard and the lost carrier inside `send_b`; the receiver's are its start
loop and one action per result of `receive_block`. `purgeIn` drops what has
arrived and leaves what is under way, which is any suffix of the line.

Unless `prompt`, either end may time out at any moment: an answer that comes
late is taken for the answer to what was sent since (`stale`, a ghost). Faults of
the line, at most `MaxFaults`, lose, damage or make up a character or a block, or
drop the carrier; ESC at either end is counted with them. A key pressed at either
end is read by `bgetchraw` like a character of the line when nothing has come
in, which is `Noise`; ESC gives the transfer up only in the branch of
`gettimeout` that looks at the keyboard itself. Left out: the block
type 0x81, which is never sent; a carrier lost inside a block (it is taken for a
time-out by the code's `modemkey` loop); damage that the check sum or CRC does
not show; `terr` and the percentages shown; the
name and date in the header. A file without bytes is sent as one byte.

Not every character gets through. `RemoteSocketIO::put` sends `strlen` of a
one-character string, so that a NUL is never sent, and `AddStringToInputBuffer`
drops NULs unless `binary_mode` is set, which only the Zmodem code does: over
telnet or SSH (Windows) no NUL passes in either direction. `WIOUnix::getW` makes a
CR of each LF. `lost` is the set of characters a line does not carry, and
`Carries` what follows for a block: over a line without NUL YMODEM's header, a
last block padded with NULs and the block numbers 0 and 255 never arrive whole,
so that no YMODEM transfer begins and none of any kind gets past block 254;
over a line without LF blocks 10 and 245 do not. `mangled` is a block that holds
such a character among its bytes or in its check. The clean line (`lost = {}`) is
what the same code has where the caller's own program does the input.
`PromptOutcome` says what this leaves of the promise: on a prompt line that only
loses and damages, both ends report the file as delivered, and it is, exactly
when the line carries every block it is sent as; otherwise both report that it
failed. Answers (ACK, NAK, CAN, C) contain neither character. Plain `XMODEM` is
modelled though `ok_prot` does not offer it.

`FileCopy` is the abstract specification: a copy that grows by the next units of
the file, and two reports. `CopyingSpec` is `XYModem`'s refinement of it, with
`copy <- rfile`, `outcome <- received`, `claim <- sent`. `spoiled` is what the
protocol cannot see: an ACK taken for that of another block, an EOT made up by
the line (the first one is believed), and a lost carrier, after which the
receiver keeps what it has (`*received` is TRUE) and a sender that waits for the
ACK of its EOT, or has the ACK in its buffer, reports the file as sent. Spoiled
or not, the copy is always a prefix of the file, padding included: no unit is
ever written in a wrong place.

## 3. Runs

All numbers are for two TLC workers.

| Run | States | Shows |
|---|---|---|
| `binkp_safety` | 1.8 million | `NoLoss`, `PendingIsWhole`, `NoFilesToStrangers`, `EobAfterFiles`, `PendingKept` over eight scenarios: three calls with mail one way and a crash and a reset; two with mail both ways and the same; a single pending name, `--skip_net` and a sent file that may not be deletable; POSIX with appends during a session; three calls with appends; differing passwords; a caller that reached the wrong system; a caller nobody knows |
| `binkp_live` | 54 000 | undisturbed, the first session delivers everything both ways and every session, a second one included, counts as a contact without failure (`PromptDelivers`); on any link every session ends (`SessionEnds`) |
| `binkp_bad_chunk` | violated | a chunk that could not be read is sent and taken in as mail |
| `binkp_numfails` | violated | `numfails` is not what `sdk/net.h` says |
| `nodes` | 34 000 | exclusive nodes, no early release, leaks only where the launcher forgets a node; a caller gets an instance or BUSY unless it had gone or its server was stopped; a node in use is free again in the end, or runs a process, or was forgotten |
| `nodes_blacklist` | violated | black-listed callers use up the pool |
| `status` | 2.9 million | the seven invariants of `StatusMgr` with Windows share modes, one crash, three midnights, and opens of any of the three files that fail |
| `status_unix` | violated | two instances in a transaction at once with the Unix lock |
| `messages` | 910 000 | while nobody writes, every post has its text and no other (`TextIntact`), no post is lost or doubled, no block is lost or shared; a node that replies comes back to the post it had shown |
| `messages_delete` | violated | the sysop's delete takes the post that has moved to the number |
| `chat` | 390 000 | on Windows no message is lost, messages are handled in order and once, rounds reach everybody, secured channels stay closed; files are taken and a lost carrier always leads back to waiting for a call |
| `xymodem` | 630 000 | a transfer implements `FileCopy`; both calls return (`Ends`); on a prompt line that only loses and damages both ends say the same, and the file arrives when the line carries all its blocks (`PromptOutcome`) |

**Bounds.** BinkP: up to three packets with chunks of one or two, so
that a file has one or two data frames, the last one partly filled; three calls
(two where mail goes both ways), so that a session follows one that broke, and
another follows the repair; one crash and one reset, which may hit different sessions. Pending names: one or two
instead of 1000, so that they run out. NodeManager: two nodes for three callers
and two servers, so that the pool is full and both launchers race for the last
node. StatusMgr: five transactions by two instances, which includes both
starting, one crashing and starting again, a flag of two values that comes
round after two changes (256 in the code), three midnights and a log of two
days, so that a day falls off its end. After one exceptional event the run goes
on, so that what it does *not* excuse is seen; after a second one it does not
(`OneMishap`). MessageBase: texts of
one and two blocks in a file of three, so that it fills up and blocks are used
again; an area of two posts and three posts made, so that the oldest goes; two
nodes and wwivutil with at most four events (posts, deletes, crashes), so that
each pair of writers meets; in a pack at most one open fails. States after a
`spoiled` event are not explored
(`Bound`), since every property excepts them. Chat: two instances, each
addressee and sender of the other, three commands and one fault: one can secure a channel that the
other is about to enter, or fill the other's file while it is read. The initial
states are those with everybody waiting for a call and with everybody in the
room, so that three commands go far enough. XYModem: a byte of three values and
a file of five units in blocks of two and four, so that numbers come round
before the file ends, and files of nothing and of exactly one block; two tries
instead of ten, one fault, two things on the line in each direction. Lines that
carry everything, no NUL, or no LF, the block with number two standing for those
with an LF in their number, and at most one block, the header or the first, with
such a character in what it holds. Timers that fire early are explored on the clean line
with the long file only (`LateOrPrompt`): for files of less than a round of
block numbers `Implements` has proved the refinement whatever the line drops, and
longer ones do not get past block 254 without NUL nor past block 10 without LF.

**Exceptions stated in the properties.** `NoLoss` excuses packets appended
between offer and `M_GOT` (the code deletes the file whatever length was
acknowledged), POSIX systems that skip or miss network1, where `rename`
replaces a pending file, and, with `PendingIsWhole`, a file that cannot be read
(finding 1: the buffer goes out as if it had been). `ReplyReturns` asks that the
records `resynch` looks at are in the order of their Q-scan numbers, which two
nodes that post at the same time can upset; those are as many as the list had
when the node closed it, so that after deletes some are left from a longer list
and can mislead `resynch` as well. The attempt to prove the property with the
order of the shorter list only showed this. `StatusMgr`'s invariants name the `spoiled` events they
excuse, in the table of 2.3. `AcceptedIsAnswered` excuses a caller that had gone
before its address was read and one whose server was stopped at that moment.

**Fairness.** `BinkP!FairSpec`: a networkb process that can step does, because
every read has a timeout and the process is scheduled; nothing is assumed of the
link, of callers, of network1. `NodeManager!FairSpec`: the launcher and
instance threads are scheduled, and a `Stop` that has closed the socket goes on
to the abort; no fairness for callers, BBS processes or the
operator. `StatusMgr` and `MessageBase` have no liveness property.
`Chat!FairSpec`: an instance that is up runs (`Process`: every wait in the code
looks at `hangup` and polls); nobody has to type, and nothing crashes or hangs
up by fairness. `XYModem!FairSpec`: both programs run, and their timers fire; the
line may lose everything it is given, since its faults are not fair.

**Deadlock** is checked for `NodeManager`. The other runs stop when the bounds
on calls, transactions, posts or commands are used up, or when both ends of a
transfer have returned.

## 4. Proofs

TLAPS checks these for every value of the constants, bounds included (they are
arbitrary naturals).

`BinkP_proofs`, from `ScenarioAssumption` (passwords are not empty, a chunk has
at least one packet): `TypeCorrect`, `StrangersGetNothing` (`NoFilesToStrangers`),
`EobIsLast` (`EobAfterFiles`) and `PendingIsKept` (`PendingKept`). The types need `ChunkInv`: while a file is read out it is
at least as long as `SendFileData` found it, so that a chunk is never read past
its end. For strangers the inductive invariant gives each side the set of states
it may be in (`MayBe`), the frames that may be on their way to it (`MayCome`) and
what its members may say (`Unproved`), as functions of the scenario: when the
passwords differ no frame that reaches the answering side carries its password,
so that `PasswordAck` never sends `M_OK`, so that the caller's `ok_received` stays
false; and an answering side that does not know the caller never gets to
`WAIT_PWD`. For `EobIsLast` the inductive invariant `EobInv` says that, as long as
a file is offered to a side or half received by it, neither `M_EOB` nor `M_GOT` says
it is over, that the sender then still has `to_send` set, and that each direction
sees one offer per session; before the sender's offer nothing is under way. For
`PendingIsKept` the invariant `PendInv` says that where POSIX renames replace files,
no process crashes and `network1` is always run, a pending file exists only between
the rename and `network1`'s turn. No timeout is assumed to be long enough anywhere
in these four arguments.

`BinkPMail_proofs`, from the same assumption: `NothingIsLost` (`NoLoss`),
`PendingFilesAreWhole` (`PendingIsWhole`) and `SessionsDeliver`
(`PromptDelivers`). The first two rest on `MailInv`, which follows
one file across the connection. `FlowOf(r)` says that there are an offer O, a file
F that O is a prefix of (the file may have grown since), and an offset for each
place in the channel to r, such that every data frame under way is the chunk of F
at its offset, `M_FILE` announces the length of O, what r has written in this
session is the beginning of F, and the sender goes on where the last frame ends.
Frames read, added or lost by a reset, and packets appended to the file, change the
offsets in ways that are lemmas of their own (`Shifted`, `Extended`, `Lengthened`);
an action that does none of them is `Calm`. `DataOf(r)` says that an inbound file completed
in this session starts with an offered file, and that while an `M_GOT` is on its way
to a sender, all of the sender's file is on r's disk or late. `LinkInv` says when a side is open and which way a reset
travels. `NothingIsLost` then needs `PendInv` for what a rename replaces.

`SessionsDeliver` is about the scenarios that are `Undisturbed`: the link is
faster than the timeouts (`conf.Prompt`), nothing crashes or breaks, the two
systems know each other and the password and have each other in `CONTACT.NET`,
files can be read and deleted and do not change during a session, and `network1`
is run with a name to find them under. Its
inductive invariant is `SmoothInv` (`Undisturbed => Smooth`), for each side a
conjunction. `PlaceOf`: which states a side may be in, and what its members say
there. `TurnOf`: the sides take turns; a side that is not reading has read
everything, and the other one waits. `ChanOf`: at most one frame is on the line,
but for the greeting of the answering side. `HeardOf` and `KnowsOf`: what a side
has sent the other one has heard, or it is on the line. From these follows
`NoLongTimeout`, the heart of the proof: if both sides waited, each would have
heard from the other what it waits for, so that no long wait ends by its timeout,
and the only reads that do are those that wait for nothing. `MailAt` follows a
file: at home before the session (`Home`), offered, being sent, sent and answered
(`Transit`), and on the other system when it is over (`Over`). `CountOf` has the
contacts: a session is counted by each side once, and never as a failure.

`NodeManager_proofs`, from the assumptions that the node range is a non-empty
range of naturals and that `None` is neither a node nor a caller:
`TypeCorrect`, `NeverShared`, `NeverFreedEarly`, `OnlyLaunchersLeak`. The
inductive invariant is the conjunction of the type, the three safety invariants
and `LoopInv`, which says what the local variables of the accept loop hold at
each of its points and that a caller was accepted by one server only; without it
the step that starts an instance thread could give one caller two threads.
`FirstFree` (the least element of a non-empty set of naturals is in it) carries
`getNextNode`.

`StatusMgr_proofs`: `TypeCorrect` without conditions; `QScanUnique`,
`UsersKept`, `MaintainedOnce`, `CallsAreAccounted`, `UsersAreCounted` and `StaleAreFlagged` assume
`Exclusive` – `status_unix` shows why. They except the tags of 2.3 as named
conditions, each lemma only those it needs: `Clean` (nobody gave up), `Awake`
(what no invariant of the users survives), `Sound` (what the count does not
survive), `Logged` and `Whole` (the same for the log). The argument is one lock
and what it protects. `LockInv`: if `Clean`, the instances between begin and
commit are those that have the file open, at most one, and its cache equals the
file until it edits it. On top of it:
- `QScanInv`: all numbers given out are below the pointer in the file; whoever
  commits has that pointer, plus one if it took a number.
- `NamesInv`: `NAMES.LST` has all registered users except between its truncation
  and its write, when the instance at `write` has all who are to be registered in
  its copy (which is why only a crash there loses anybody); every other copy that
  has seen the last change has all but the user being entered or deleted.
- `UsersInv`: outside of `write`, `NAMES.LST` is the registered users and nobody
  else; at `write` the copy is what it is about to be (`Entered`); the
  record in the file, or the one about to be committed, has its size.
- `FlagInv`: the flag is the number of changes, modulo the values of a flag: the
  file's of all, a cache's of those seen. That it shows less than a full turn is
  arithmetic, `FlagShows`.
- `DayInv`: the days in the log precede the date in the file, or in the record
  about to be committed, newest first; at `zlog` the newest is there twice.
- `CallsInv`: the calls of the day in the file, or in the record about to be
  committed, and those in the log are the log-ons, the one being counted
  included; each day with log-ons is in the log or older than all of it (`Kept`,
  and `KeptShifted` for an entry that falls off).

Each has a lemma with one step per action.

`XYModem_proofs`: `TypeCorrect`, and `Implements`, which is the refinement
`CopyingSpec`, on the assumption `FewBlocks`: no file has as many blocks as
there are block numbers, less two. It holds for lines that drop any set of
characters: a block such a line does not carry arrives as a bad one. The run is
the complement: its file goes round the numbers. What makes the refinement inductive is `RInv`:
both ends are `Placed`, that is, the position of an end is the start of the block
it counts, or both are past the end of the file (`SendInv`, `ReceiveInv`, which
also say that what is written ends at that position); the sender is not ahead of
the receiver (`AheadInv`), and the receiver stops at the end of the file
(`EndInv`), unless an answer was taken that was not for the block just sent, an
end of file was made up by noise, or the carrier is gone (`Spoiled`, which is
`spoiled` of `FileCopy`); and a data block on the line has
the number and the position that belong together, and an ACK is for a position
already written (`LinesInv`). For longer files nothing is proved: there a number
may come again that is of a block of another round.

`Chat_proofs`, from the assumptions that channels, instances and sysops are
named apart: `TypeCorrect`, `ToldWhenThrough`, `SecuredIsSecure`, `NeverLost`
and `HandledInOrder`. The first three share `IInv`: `RoundsOK` (a round has
somebody to go to, or is over), `OwedOK` (whoever is owed a message is still to
come in the round and is where it goes), `ReadingOK` (an instance that reads
does nothing else and does not poll), `SecuredOK` (whoever is in a secured
channel, or past the check and on the way, is an insider) and `ChannelOK`. The
last two need `MInv` on top. `SentOf`: the numbers in the files of d are of
messages sent to d by now -- of earlier rounds, or of this one if the round has
been to d (`Stamped`); it makes the next number newer than all that is there.
`OrderOf`: within a file the numbers of one sender rise, what is unread is
newer than what was handled last, and what waits in `TMSG` is newer than what is
in `MSG` or being read. `DueOK`: what is due is in one of the two files, and on
Windows the file being read is the one that will be deleted. An instance that
died in the middle of its file (`redo`) reads it again, which is the exception in
`InOrder`.

`MessageBase_proofs`, from the assumptions that programs are named apart, that sizes
and bounds are positive: `TypeCorrect`, `TextsAreIntact`, `NoPostIsLost`, `BlocksAreAccounted`
and `RepliesReturn`. The first is stated for undamaged areas only, that is up to
the first `spoiled` event, since a pack that copies chains damaged by a crash may
not find room for them. A delete that could not open the `.dat` file does not end
this: its blocks are accounted for as leaked. A chain in the
GAT only ever leads to higher blocks, because `savefile` takes the free blocks in
order: that makes the recursion along it provable, and in an undamaged area
`Chain` is the set of used blocks with the text of the post (`HasText`). On top of
the types and of what each program has done at each of its points (`Stages`) the
inductive invariant has `IdInv` (the list is the posts added and not deleted, once
each; a post on the way to it is a new one), `DatInv` (used blocks are of known
posts, those of no post are the leaked ones; a post on the way has its text once
it is saved), `ListInv` (every listed post has its text, but for one between the
two halves of its delete, which has it still or never will again) and `PackInv`
(the copy that is about to be renamed holds the same texts, both while the old
file is there and after it was removed, when `PackRename` is the only step that
makes a `.dat` file of it). A pack has room because copies
need no more blocks than the originals. `Doomed` is wwivutil about to delete with
a number of posts that has changed: nothing is said there, since its next step
is the `spoiled` one. The number of posts never exceeds its bound by counting: ids
below the counter are each listed, deleted or on the way (`CountBound`). For
`RepliesReturn`, `ReadInv` says that the post a node has shown, if it is listed
at all, stands at or below the number of posts the node knows: deletes only move
posts down, and what is added has an id that nobody has shown; `ResynchFinds` is
about the two loops of `resynch`.

`NatInduction` restates induction and finite sums for *sets* of naturals, so that
what a recursive function computes (the chain of a text, the copies of a pack,
the calls in a log) can be proved although the provers cannot instantiate the
predicate of the library's induction theorems.

Only model-checked: liveness (`SessionEnds`, and the other leads-to and
eventuality properties), which is out of the prover's reach. `SessionsDeliver` is
no exception: it says what has happened by the time both sides are through, and
`SessionEnds` that they get there.

## 5. Findings

1. `SendFileData` has an empty branch under "Bad chunk. Abort" (binkp.cpp:655):
   the buffer goes out as it is.
2. `numfails` (sdk/net.h:124) is incremented only after an `M_ERR` and never
   zeroed.
3. A black-listed caller's node is marked in use and forgotten
   (TelnetServer.cs:98).
4. On Unix a transaction on `STATUS.DAT` takes a shared lock (core/file.cpp:168
   with file_unix.cpp:50).
5. `HandleMessageDelete` resynchronises without a post to go by, after
   `open_sub` has read the changed list: the post deleted is the one that has
   moved to the number, not the one that was shown (msgscan.cpp:920).

## 6. Where to go on

1. `StatusMgr` and `MessageBase` composed: the Q-scan pointer of the one is
   taken by the posts of the other.
2. *nodemgr*, as a variant of the node pool without a lock.

## 7. Not modelled

Interactive commands, editors, menus, games and the sysop's screens work on
records of one caller; what they share passes through the components above.
`init`, `fix` and `wwivutil` (but for its adding and deleting of posts) are run
by hand on a system that is down. The legacy `network` programs, the updater and
the vendored libraries are I/O around other programs. These make up most of the
lines of the repository, which is why the definitions here stand for a small
part of them.

Failures left out where others of their kind are modelled: opens of `TMSG` and
`INSTANCE.DAT`, and deletions of a message file, that fail (2.5); a `STATUS.DAT`
that wwivutil cannot open, in which case its post gets the Q-scan number 0; a
`.sub` file that the SDK cannot open; a second failed open within one pack; a
crash among the ninety-six moves of `ZLOG.DAT`, which is one step that a crash
may follow (`cutLog`, excepted either way); damage that neither check sum nor CRC
shows.

Within the modelled parts: the byte-level framing of BinkP and its
loss of synchronisation after a timeout in the middle of a frame, address
parsing, byte counters and time stamps of `CONTACT.NET` and two networkb
processes updating it at once, the windows of the telnet server, the six other
change flags; posts that may not be deleted, validated or moved, off-line
scans of a sub (`qwk.cpp` compares a post's number with a pointer read earlier),
FidoNet and mail files; the messages of `instmsg.cpp` other than strings and
shutdowns, actions and pages of the chat room, and the chat
room's `cleanup_chat` as it is called from outside of it; Zmodem, batch queues and external
protocols.
