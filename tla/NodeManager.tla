------------------------------ MODULE NodeManager ------------------------------
(***************************************************************************)
(* The node pool of the WWIV5TelnetServer (NodeManager.cs) and the two     *)
(* accept loops that share it: TelnetServer.cs and SSHServer.cs, which are *)
(* the same code under two names.  Every server has one launcher thread    *)
(* (Run); every caller that gets a node is served by an instance thread    *)
(* (LaunchInstance), which starts the BBS process, waits for it, and gives *)
(* the node back.  All threads share the nodes' InUse flags.               *)
(***************************************************************************)
EXTENDS Naturals, FiniteSets, FiniteSetsExt

CONSTANTS
  Servers,      \* the accept loops sharing the NodeManager
  Callers,      \* the remote ends that may call
  lowNode,      \* node range the NodeManager is built with
  highNode,
  Blacklisted,  \* the callers whose address is on the hard-coded black list
  MayHangUp,    \* TRUE: a caller may be gone before its address is read
  MayStop,      \* TRUE: the operator may stop (abort) and restart a server
  None          \* C#'s null

ASSUME RangeAssumption == lowNode \in Nat /\ highNode \in Nat /\ lowNode <= highNode
ASSUME CallersAssumption == Blacklisted \subseteq Callers
ASSUME NoneAssumption == None \notin lowNode .. highNode /\ None \notin Callers
ASSUME SwitchAssumption == MayHangUp \in BOOLEAN /\ MayStop \in BOOLEAN

VARIABLES
  inUse,      \* inUse[n]: NodeStatus.InUse of node n
  pc,         \* pc[s]: where the launcher thread of server s is
  socket,     \* socket[s]: the caller accepted by s, or None
  node,       \* node[s]: the local variable node of Run, or None
  closing,    \* the servers whose socket Stop has closed, the launcher not aborted yet
  call,       \* call[c]: what became of caller c, and the node it runs on
  dropped     \* ghost: nodes a launcher thread forgot while they were marked InUse

vars == <<inUse, pc, socket, node, closing, call, dropped>>

Nodes == lowNode .. highNode

\* A caller without a connection: not yet called, or the way its call ended:
\* its instance ended, it got BUSY, it had gone, its server was stopped.
Idle == {"away", "served", "busy", "gone", "cut"}
Ended(how) == [at |-> how, on |-> None]

\* A node held by the launcher thread of s: {} or a singleton.
Holding(s) == {node[s]} \ {None}

Init ==
  /\ inUse  = [n \in Nodes |-> FALSE]
  /\ pc     = [s \in Servers |-> "stopped"]
  /\ socket = [s \in Servers |-> None]
  /\ node   = [s \in Servers |-> None]
  /\ closing = {}
  /\ call   = [c \in Callers |-> Ended("away")]
  /\ dropped = {}

-----------------------------------------------------------------------------
(* The launcher thread of server s.                                        *)

Start(s) ==
  /\ pc[s] = "stopped"
  /\ pc' = [pc EXCEPT ![s] = "Accept"]
  /\ UNCHANGED <<inUse, socket, node, call, dropped, closing>>

Accept(s, c) ==
  /\ pc[s] = "Accept" /\ s \notin closing /\ call[c].at \in Idle
  /\ socket' = [socket EXCEPT ![s] = c]
  /\ call' = [call EXCEPT ![c].at = "accepted"]
  /\ pc' = [pc EXCEPT ![s] = "getNextNode"]
  /\ UNCHANGED <<inUse, node, dropped, closing>>

\* The first node of the list that is not in use, marked under nodeLock.
FreeNodesAll == Nodes  \* mutant: the InUse test is dropped
FreeNodes == {n \in Nodes : ~inUse[n]}

\* mutant: the node is returned without being marked
getNextNodeUnmarked(s) ==
  /\ pc[s] = "getNextNode"
  /\ node' = [node EXCEPT ![s] = IF FreeNodes = {} THEN None ELSE Min(FreeNodes)]
  /\ pc' = [pc EXCEPT ![s] = "RemoteEndPoint"]
  /\ UNCHANGED <<inUse, socket, call, dropped, closing>>

getNextNode(s) ==
  /\ pc[s] = "getNextNode"
  /\ IF FreeNodes = {}
       THEN /\ node' = [node EXCEPT ![s] = None]
            /\ UNCHANGED inUse
       ELSE /\ node' = [node EXCEPT ![s] = Min(FreeNodes)]
            /\ inUse' = [inUse EXCEPT ![Min(FreeNodes)] = TRUE]
  /\ pc' = [pc EXCEPT ![s] = "RemoteEndPoint"]
  /\ UNCHANGED <<socket, call, dropped, closing>>

\* The address check: a black-listed caller is refused by dropping the node.
CheckRemoteEndPoint(s) ==
  /\ pc[s] = "RemoteEndPoint"
  /\ node' = [node EXCEPT ![s] = IF socket[s] \in Blacklisted THEN None ELSE @]
  /\ dropped' = IF socket[s] \in Blacklisted THEN dropped \cup Holding(s) ELSE dropped
  /\ pc' = [pc EXCEPT ![s] = "dispatch"]
  /\ UNCHANGED <<inUse, socket, call, closing>>

\* Reading RemoteEndPoint of a socket whose peer is gone throws
\* SocketException, caught at the bottom of the loop.
RemoteEndPointThrows(s) ==
  /\ MayHangUp
  /\ pc[s] = "RemoteEndPoint"
  /\ call' = [call EXCEPT ![socket[s]] = Ended("gone")]
  /\ socket' = [socket EXCEPT ![s] = None]
  /\ node' = [node EXCEPT ![s] = None]
  /\ dropped' = dropped \cup Holding(s)
  /\ pc' = [pc EXCEPT ![s] = "Accept"]
  /\ UNCHANGED <<inUse, closing>>

\* mutant: the test of node for null is dropped
StartInstanceThreadUnchecked(s) ==
  /\ pc[s] = "dispatch"
  /\ call' = [call EXCEPT ![socket[s]] = [at |-> "launch", on |-> node[s]]]
  /\ socket' = [socket EXCEPT ![s] = None]
  /\ node' = [node EXCEPT ![s] = None]
  /\ pc' = [pc EXCEPT ![s] = "Accept"]
  /\ UNCHANGED <<inUse, dropped, closing>>

StartInstanceThread(s) ==
  /\ pc[s] = "dispatch" /\ node[s] # None
  /\ call' = [call EXCEPT ![socket[s]] = [at |-> "launch", on |-> node[s]]]
  /\ socket' = [socket EXCEPT ![s] = None]
  /\ node' = [node EXCEPT ![s] = None]
  /\ pc' = [pc EXCEPT ![s] = "Accept"]
  /\ UNCHANGED <<inUse, dropped, closing>>

\* mutant: the socket of a caller without a node is closed without a word
SendBusyMissing(s) ==
  /\ pc[s] = "dispatch" /\ node[s] = None
  /\ call' = [call EXCEPT ![socket[s]] = Ended("away")]
  /\ socket' = [socket EXCEPT ![s] = None]
  /\ pc' = [pc EXCEPT ![s] = "Accept"]
  /\ UNCHANGED <<inUse, node, dropped, closing>>

SendBusy(s) ==
  /\ pc[s] = "dispatch" /\ node[s] = None
  /\ call' = [call EXCEPT ![socket[s]] = Ended("busy")]
  /\ socket' = [socket EXCEPT ![s] = None]
  /\ pc' = [pc EXCEPT ![s] = "Accept"]
  /\ UNCHANGED <<inUse, node, dropped, closing>>

\* Stop(), on the operator's thread: it closes the listening socket and sets
\* server to null...
StopCloses(s) ==
  /\ MayStop
  /\ pc[s] # "stopped" /\ s \notin closing
  /\ closing' = closing \cup {s}
  /\ UNCHANGED <<inUse, pc, socket, node, call, dropped>>

\* ... and then aborts the launcher thread wherever it is; the instance
\* threads already started go on.
StopAborts(s) ==
  /\ s \in closing
  /\ closing' = closing \ {s}
  /\ pc' = [pc EXCEPT ![s] = "stopped"]
  /\ call' = IF socket[s] = None THEN call
             ELSE [call EXCEPT ![socket[s]] = Ended("cut")]
  /\ socket' = [socket EXCEPT ![s] = None]
  /\ node' = [node EXCEPT ![s] = None]
  /\ dropped' = dropped \cup Holding(s)
  /\ UNCHANGED inUse

\* A launcher that gets back to Accept in between calls it on null.  Nothing
\* catches the NullReferenceException, so that the program ends, with every
\* thread; the operator starts it again with a fresh pool.
AcceptOnNull(s) ==
  /\ pc[s] = "Accept" /\ s \in closing
  /\ inUse' = [n \in Nodes |-> FALSE]
  /\ pc' = [t \in Servers |-> "stopped"]
  /\ socket' = [t \in Servers |-> None]
  /\ node' = [t \in Servers |-> None]
  /\ closing' = {}
  /\ call' = [c \in Callers |-> IF call[c].at \in Idle THEN call[c] ELSE Ended("cut")]
  /\ dropped' = {}

-----------------------------------------------------------------------------
(* The instance thread of caller c.                                        *)

LaunchNode(c) ==
  /\ call[c].at = "launch"
  /\ call' = [call EXCEPT ![c].at = "running"]
  /\ UNCHANGED <<inUse, pc, socket, node, dropped, closing>>

\* launchTelnetNode throws (no executable, bad handle): straight to finally.
LaunchThrows(c) ==
  /\ call[c].at = "launch"
  /\ call' = [call EXCEPT ![c].at = "finally"]
  /\ UNCHANGED <<inUse, pc, socket, node, dropped, closing>>

\* The BBS process exits; Shutdown and Close of the socket may throw, which
\* is caught: in both cases the finally block is next.
ProcessExits(c) ==
  /\ call[c].at = "running"
  /\ call' = [call EXCEPT ![c].at = "finally"]
  /\ UNCHANGED <<inUse, pc, socket, node, dropped, closing>>

\* mutant: the finally block forgets freeNode
freeNodeForgotten(c) ==
  /\ call[c].at = "finally"
  /\ call' = [call EXCEPT ![c] = Ended("served")]
  /\ UNCHANGED <<inUse, pc, socket, node, dropped, closing>>

freeNode(c) ==
  /\ call[c].at = "finally"
  /\ inUse' = [inUse EXCEPT ![call[c].on] = FALSE]
  /\ call' = [call EXCEPT ![c] = Ended("served")]
  /\ UNCHANGED <<pc, socket, node, dropped, closing>>

Loop(s) ==
  \/ getNextNode(s) \/ CheckRemoteEndPoint(s) \/ RemoteEndPointThrows(s)
  \/ StartInstanceThread(s) \/ SendBusy(s) \/ AcceptOnNull(s)

Instance(c) == LaunchNode(c) \/ LaunchThrows(c) \/ freeNode(c)

Next ==
  \/ \E s \in Servers : Start(s) \/ Loop(s) \/ StopCloses(s) \/ StopAborts(s)
  \/ \E s \in Servers, c \in Callers : Accept(s, c)
  \/ \E c \in Callers : Instance(c) \/ ProcessExits(c)

Spec == Init /\ [][Next]_vars

\* The launcher and instance threads are scheduled by the runtime, and a Stop
\* once begun goes on; nothing makes a caller call, a BBS process exit or an operator stop a server.
FairSpec ==
  /\ Spec
  /\ \A s \in Servers : WF_vars(Loop(s)) /\ WF_vars(StopAborts(s))
  /\ \A c \in Callers : WF_vars(Instance(c))

-----------------------------------------------------------------------------
(* Properties.                                                             *)

CallStates == Idle \cup {"accepted", "launch", "running", "finally"}
Serving(c) == call[c].at \in {"launch", "running", "finally"}
Owned(n) ==
  \/ \E s \in Servers : n \in Holding(s)
  \/ \E c \in Callers : Serving(c) /\ call[c].on = n

\* The values the variables of the two classes range over.
TypeOK ==
  /\ inUse \in [Nodes -> BOOLEAN]
  /\ pc \in [Servers -> {"stopped", "Accept", "getNextNode", "RemoteEndPoint", "dispatch"}]
  /\ socket \in [Servers -> Callers \cup {None}]
  /\ node \in [Servers -> Nodes \cup {None}]
  /\ call \in [Callers -> [at : CallStates, on : Nodes \cup {None}]]
  /\ \A c \in Callers : Serving(c) => call[c].on \in Nodes
  /\ closing \subseteq Servers
  /\ dropped \subseteq Nodes

\* Two BBS processes never run on one node number in one run of the program,
\* whichever server took the calls: their instance threads own different nodes, and no launcher
\* thread holds a node that an instance thread still owns (getNextNode).
NodeExclusive ==
  /\ \A c, d \in Callers : c # d /\ Serving(c) /\ Serving(d) => call[c].on # call[d].on
  /\ \A s \in Servers, c \in Callers : Serving(c) => call[c].on # node[s]
  /\ \A s, t \in Servers : s # t => Holding(s) \cap Holding(t) = {}

\* No node is given back while somebody still has it: a node that a launcher
\* or an instance thread has is marked InUse (freeNode runs once per caller).
OwnedIsInUse ==
  /\ \A s \in Servers : \A n \in Holding(s) : inUse[n]
  /\ \A c \in Callers : Serving(c) => inUse[call[c].on]

\* The ways a node can leak are the three the launcher thread has to forget
\* one: a black-listed caller, a caller gone before its address is read, a
\* server stopped in between.  Any other node marked InUse is held by a
\* launcher or an instance thread; no caller that got a node leaks it.
InUseIsOwned == \A n \in Nodes : inUse[n] => Owned(n) \/ n \in dropped

\* What the comment on getNextNode says, "Gets the next free node or null of
\* none exists": it answers null only when somebody has every node.
NullOnlyWhenNoneFree ==
  [][\A s \in Servers : getNextNode(s) /\ node'[s] = None => \A n \in Nodes : Owned(n)]_vars

\* Every accepted caller is answered: it gets an instance or the busy signal.
\* The exceptions are the two ways the launcher thread has to lose it without
\* a word: it had gone before its address was read, and the server (or with it
\* the program) was stopped at that moment.
AcceptedIsAnswered ==
  \A c \in Callers :
    call[c].at = "accepted" ~> call[c].at \in {"launch", "busy", "gone", "cut"}

\* A node that is marked InUse comes back to the pool: again and again it is
\* free, or a BBS process runs on it, or a launcher thread has forgotten it.
\* So the end of the process, and a process that could not be started, give
\* the node back (the finally block of LaunchInstance).
EndedIsFreed ==
  \A n \in Nodes :
    inUse[n] ~> \/ ~inUse[n] \/ n \in dropped
                \/ \E c \in Callers : call[c] = [at |-> "running", on |-> n]
=============================================================================
