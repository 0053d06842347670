--------------------------- MODULE NodeManager_proofs ---------------------------
(***************************************************************************)
(* Proofs about NodeManager: whatever the number of servers, callers and   *)
(* nodes, two callers never share a node, a node somebody has is marked    *)
(* InUse, and only a launcher thread can forget one.                       *)
(***************************************************************************)
EXTENDS NodeManager, WellFoundedInduction, TLAPS

Accepting == {"getNextNode", "RemoteEndPoint", "dispatch"}

\* What the local variables of Run hold at each point of the loop, and that
\* a caller has been accepted by one server only.
LoopInv ==
  /\ \A s \in Servers : pc[s] \notin {"RemoteEndPoint", "dispatch"} => node[s] = None
  /\ \A s \in Servers : pc[s] \in Accepting <=> socket[s] # None
  /\ \A s \in Servers : socket[s] # None => call[socket[s]].at = "accepted"
  /\ \A s, t \in Servers : socket[s] # None /\ socket[s] = socket[t] => s = t

Inv == TypeOK /\ LoopInv /\ NodeExclusive /\ OwnedIsInUse /\ InUseIsOwned

\* The node getNextNode marks was free: the least element of a non-empty set
\* of node numbers is one of its elements.
LEMMA FirstFree ==
  ASSUME FreeNodes # {}
  PROVE  Min(FreeNodes) \in FreeNodes
<1> DEFINE R == OpToRel(<, Nat)
<1>1. FreeNodes \subseteq Nat
  BY RangeAssumption DEF FreeNodes, Nodes
<1>2. \E x \in FreeNodes : \A y \in FreeNodes : ~ (<<y, x>> \in R)
  <2> HIDE DEF R
  <2>1. IsWellFoundedOn(R, Nat)
    BY NatLessThanWellFounded DEF R
  <2> QED BY <1>1, <2>1, WFMin
<1>3. \A x, y \in Nat : y < x => <<y, x>> \in R
  BY DEF OpToRel
<1>4. \E x \in FreeNodes : \A y \in FreeNodes : x =< y
  <2> HIDE DEF R
  <2>1. PICK x \in FreeNodes : \A y \in FreeNodes : ~ (<<y, x>> \in R)
    BY <1>2
  <2>2. ASSUME NEW y \in FreeNodes PROVE x =< y
    <3>1. ~(y < x) BY <1>1, <1>3, <2>1
    <3> QED BY <1>1, <3>1
  <2> QED BY <2>2
<1> QED BY <1>4 DEF Min

\* The initial state of NodeManager and of the stopped servers.
LEMMA InitInv == Init => Inv
  BY RangeAssumption, NoneAssumption
  DEF Init, Inv, TypeOK, LoopInv, NodeExclusive, OwnedIsInUse, InUseIsOwned, Holding, Serving,
      Ended, Idle, CallStates, Accepting, Nodes

\* One step of one thread keeps the invariant.
LEMMA NextInv == Inv /\ [Next]_vars => Inv'
<1> SUFFICES ASSUME Inv, [Next]_vars PROVE Inv'
  OBVIOUS
<1>1. ASSUME NEW s \in Servers, Start(s) PROVE Inv'
  <2> USE <1>1, NoneAssumption DEF Inv, Start
  <2>1. TypeOK'
    BY DEF TypeOK, LoopInv, Accepting, Serving, CallStates, Ended, Idle
  <2>2. LoopInv'
    BY DEF TypeOK, LoopInv, Accepting, Serving, Ended, Idle
  <2>3. NodeExclusive'
    BY DEF TypeOK, LoopInv, Accepting, NodeExclusive, OwnedIsInUse, Holding, Serving,
          Ended, Idle, Nodes
  <2>4. OwnedIsInUse'
    BY DEF TypeOK, LoopInv, Accepting, OwnedIsInUse, NodeExclusive, Holding, Serving, Ended, Idle
  <2>5. InUseIsOwned'
    BY DEF TypeOK, LoopInv, Accepting, InUseIsOwned, Owned, Holding, Serving, Ended, Idle
  <2> QED BY <2>1, <2>2, <2>3, <2>4, <2>5
<1>2. ASSUME NEW s \in Servers, NEW c \in Callers, Accept(s, c) PROVE Inv'
  <2> USE <1>2, NoneAssumption DEF Inv, Accept
  <2>1. TypeOK'
    BY DEF TypeOK, LoopInv, Accepting, Serving, CallStates, Ended, Idle
  <2>2. LoopInv'
    BY DEF TypeOK, LoopInv, Accepting, Serving, Ended, Idle
  <2>3. NodeExclusive'
    BY DEF TypeOK, LoopInv, Accepting, NodeExclusive, OwnedIsInUse, Holding, Serving,
          Ended, Idle, Nodes
  <2>4. OwnedIsInUse'
    BY DEF TypeOK, LoopInv, Accepting, OwnedIsInUse, NodeExclusive, Holding, Serving, Ended, Idle
  <2>5. InUseIsOwned'
    BY DEF TypeOK, LoopInv, Accepting, InUseIsOwned, Owned, Holding, Serving, Ended, Idle
  <2> QED BY <2>1, <2>2, <2>3, <2>4, <2>5
<1>3. ASSUME NEW s \in Servers, getNextNode(s) PROVE Inv'
  <2> USE <1>3, NoneAssumption DEF Inv
  <2>1. CASE FreeNodes = {}
    <3> USE <2>1 DEF getNextNode
    <3>1. TypeOK'
      BY DEF TypeOK, LoopInv, Accepting, Serving, CallStates, Ended, Idle
    <3>2. LoopInv'
      BY DEF TypeOK, LoopInv, Accepting, Serving, Ended, Idle
    <3>3. NodeExclusive'
      BY DEF TypeOK, LoopInv, Accepting, NodeExclusive, OwnedIsInUse, Holding, Serving,
          Ended, Idle, Nodes
    <3>4. OwnedIsInUse'
      BY DEF TypeOK, LoopInv, Accepting, OwnedIsInUse, NodeExclusive, Holding, Serving, Ended, Idle
    <3>5. InUseIsOwned'
      BY DEF TypeOK, LoopInv, Accepting, InUseIsOwned, Owned, Holding, Serving, Ended, Idle
    <3> QED BY <3>1, <3>2, <3>3, <3>4, <3>5
  <2>2. CASE FreeNodes # {}
    <3> DEFINE n == Min(FreeNodes)
    <3>1. /\ n \in Nodes /\ n # None /\ ~inUse[n]
          /\ pc[s] = "getNextNode" /\ pc' = [pc EXCEPT ![s] = "RemoteEndPoint"]
          /\ node' = [node EXCEPT ![s] = n]
          /\ inUse' = [inUse EXCEPT ![n] = TRUE]
          /\ UNCHANGED <<socket, call, dropped, closing>>
      BY <2>2, FirstFree DEF getNextNode, FreeNodes, Nodes
    <3> HIDE DEF n
    <3>2. TypeOK'
      BY <3>1 DEF TypeOK, LoopInv, Accepting, Serving, CallStates, Ended, Idle
    <3>3. LoopInv'
      BY <3>1 DEF TypeOK, LoopInv, Accepting, Serving, Ended, Idle
    <3>4. NodeExclusive'
      BY <3>1 DEF TypeOK, LoopInv, Accepting, NodeExclusive, OwnedIsInUse, Holding, Serving,
          Ended, Idle, Nodes
    <3>5. OwnedIsInUse'
      BY <3>1 DEF TypeOK, LoopInv, Accepting, OwnedIsInUse, NodeExclusive, Holding, Serving, Ended, Idle
    <3>6. InUseIsOwned'
      BY <3>1 DEF TypeOK, LoopInv, Accepting, InUseIsOwned, Owned, Holding, Serving, Ended, Idle
    <3> QED BY <3>2, <3>3, <3>4, <3>5, <3>6
  <2> QED BY <2>1, <2>2
<1>4. ASSUME NEW s \in Servers, CheckRemoteEndPoint(s) PROVE Inv'
  <2> USE <1>4, NoneAssumption DEF Inv, CheckRemoteEndPoint
  <2>1. TypeOK'
    <3>1. Holding(s) \subseteq Nodes
      BY DEF TypeOK, Holding
    <3>2. dropped' \subseteq Nodes
      BY <3>1 DEF TypeOK
    <3> QED BY <3>2 DEF TypeOK, LoopInv, Accepting, Serving, CallStates, Ended, Idle
  <2>2. LoopInv'
    BY DEF TypeOK, LoopInv, Accepting, Serving, Ended, Idle
  <2>3. NodeExclusive'
    BY DEF TypeOK, LoopInv, Accepting, NodeExclusive, OwnedIsInUse, Holding, Serving,
          Ended, Idle, Nodes
  <2>4. OwnedIsInUse'
    BY DEF TypeOK, LoopInv, Accepting, OwnedIsInUse, NodeExclusive, Holding, Serving, Ended, Idle
  <2>5. InUseIsOwned'
    BY DEF TypeOK, LoopInv, Accepting, InUseIsOwned, Owned, Holding, Serving, Ended, Idle
  <2> QED BY <2>1, <2>2, <2>3, <2>4, <2>5
<1>5. ASSUME NEW s \in Servers, RemoteEndPointThrows(s) PROVE Inv'
  <2> USE <1>5, NoneAssumption DEF Inv, RemoteEndPointThrows
  <2>1. TypeOK'
    <3>1. Holding(s) \subseteq Nodes
      BY DEF TypeOK, Holding
    <3>2. dropped' \subseteq Nodes
      BY <3>1 DEF TypeOK
    <3> QED BY <3>2 DEF TypeOK, LoopInv, Accepting, Serving, CallStates, Ended, Idle
  <2>2. LoopInv'
    BY DEF TypeOK, LoopInv, Accepting, Serving, Ended, Idle
  <2>3. NodeExclusive'
    BY DEF TypeOK, LoopInv, Accepting, NodeExclusive, OwnedIsInUse, Holding, Serving,
          Ended, Idle, Nodes
  <2>4. OwnedIsInUse'
    BY DEF TypeOK, LoopInv, Accepting, OwnedIsInUse, NodeExclusive, Holding, Serving, Ended, Idle
  <2>5. InUseIsOwned'
    BY DEF TypeOK, LoopInv, Accepting, InUseIsOwned, Owned, Holding, Serving, Ended, Idle
  <2> QED BY <2>1, <2>2, <2>3, <2>4, <2>5
<1>6. ASSUME NEW s \in Servers, StartInstanceThread(s) PROVE Inv'
  <2> USE <1>6, NoneAssumption DEF Inv, StartInstanceThread
  <2>1. TypeOK'
    BY DEF TypeOK, LoopInv, Accepting, Serving, CallStates, Ended, Idle
  <2>2. LoopInv'
    BY DEF TypeOK, LoopInv, Accepting, Serving, Ended, Idle
  <2>3. NodeExclusive'
    BY DEF TypeOK, LoopInv, Accepting, NodeExclusive, OwnedIsInUse, Holding, Serving,
          Ended, Idle, Nodes
  <2>4. OwnedIsInUse'
    BY DEF TypeOK, LoopInv, Accepting, OwnedIsInUse, NodeExclusive, Holding, Serving, Ended, Idle
  <2>5. InUseIsOwned'
    BY DEF TypeOK, LoopInv, Accepting, InUseIsOwned, Owned, Holding, Serving, Ended, Idle
  <2> QED BY <2>1, <2>2, <2>3, <2>4, <2>5
<1>7. ASSUME NEW s \in Servers, SendBusy(s) PROVE Inv'
  <2> USE <1>7, NoneAssumption DEF Inv, SendBusy
  <2>1. TypeOK'
    BY DEF TypeOK, LoopInv, Accepting, Serving, CallStates, Ended, Idle
  <2>2. LoopInv'
    BY DEF TypeOK, LoopInv, Accepting, Serving, Ended, Idle
  <2>3. NodeExclusive'
    BY DEF TypeOK, LoopInv, Accepting, NodeExclusive, OwnedIsInUse, Holding, Serving,
          Ended, Idle, Nodes
  <2>4. OwnedIsInUse'
    BY DEF TypeOK, LoopInv, Accepting, OwnedIsInUse, NodeExclusive, Holding, Serving, Ended, Idle
  <2>5. InUseIsOwned'
    BY DEF TypeOK, LoopInv, Accepting, InUseIsOwned, Owned, Holding, Serving, Ended, Idle
  <2> QED BY <2>1, <2>2, <2>3, <2>4, <2>5
<1>8. ASSUME NEW s \in Servers, StopAborts(s) PROVE Inv'
  <2> USE <1>8, NoneAssumption DEF Inv, StopAborts
  <2>1. TypeOK'
    <3>1. Holding(s) \subseteq Nodes
      BY DEF TypeOK, Holding
    <3>2. dropped' \subseteq Nodes
      BY <3>1 DEF TypeOK
    <3> QED BY <3>2 DEF TypeOK, LoopInv, Accepting, Serving, CallStates, Ended, Idle
  <2>2. LoopInv'
    BY DEF TypeOK, LoopInv, Accepting, Serving, Ended, Idle
  <2>3. NodeExclusive'
    BY DEF TypeOK, LoopInv, Accepting, NodeExclusive, OwnedIsInUse, Holding, Serving,
          Ended, Idle, Nodes
  <2>4. OwnedIsInUse'
    BY DEF TypeOK, LoopInv, Accepting, OwnedIsInUse, NodeExclusive, Holding, Serving, Ended, Idle
  <2>5. InUseIsOwned'
    BY DEF TypeOK, LoopInv, Accepting, InUseIsOwned, Owned, Holding, Serving, Ended, Idle
  <2> QED BY <2>1, <2>2, <2>3, <2>4, <2>5
<1>14. ASSUME NEW s \in Servers, StopCloses(s) PROVE Inv'
  <2> USE <1>14, NoneAssumption DEF Inv, StopCloses
  <2>1. TypeOK'
    BY DEF TypeOK, LoopInv, Accepting, Serving, CallStates, Ended, Idle
  <2>2. LoopInv'
    BY DEF TypeOK, LoopInv, Accepting, Serving, Ended, Idle
  <2>3. NodeExclusive'
    BY DEF TypeOK, LoopInv, Accepting, NodeExclusive, OwnedIsInUse, Holding, Serving,
          Ended, Idle, Nodes
  <2>4. OwnedIsInUse'
    BY DEF TypeOK, LoopInv, Accepting, OwnedIsInUse, NodeExclusive, Holding, Serving, Ended, Idle
  <2>5. InUseIsOwned'
    BY DEF TypeOK, LoopInv, Accepting, InUseIsOwned, Owned, Holding, Serving, Ended, Idle
  <2> QED BY <2>1, <2>2, <2>3, <2>4, <2>5
<1>15. ASSUME NEW s \in Servers, AcceptOnNull(s) PROVE Inv'
  <2> USE <1>15, NoneAssumption DEF Inv, AcceptOnNull
  <2>1. TypeOK'
    BY DEF TypeOK, LoopInv, Accepting, Serving, CallStates, Ended, Idle
  <2>2. LoopInv'
    BY DEF TypeOK, LoopInv, Accepting, Serving, Ended, Idle
  <2>3. NodeExclusive'
    BY DEF TypeOK, LoopInv, Accepting, NodeExclusive, OwnedIsInUse, Holding, Serving,
          Ended, Idle, Nodes
  <2>4. OwnedIsInUse'
    BY DEF TypeOK, LoopInv, Accepting, OwnedIsInUse, NodeExclusive, Holding, Serving, Ended, Idle
  <2>5. InUseIsOwned'
    BY DEF TypeOK, LoopInv, Accepting, InUseIsOwned, Owned, Holding, Serving, Ended, Idle
  <2> QED BY <2>1, <2>2, <2>3, <2>4, <2>5
<1>9. ASSUME NEW c \in Callers, LaunchNode(c) PROVE Inv'
  <2> USE <1>9, NoneAssumption DEF Inv, LaunchNode
  <2>1. TypeOK'
    BY DEF TypeOK, LoopInv, Accepting, Serving, CallStates, Ended, Idle
  <2>2. LoopInv'
    BY DEF TypeOK, LoopInv, Accepting, Serving, Ended, Idle
  <2>3. NodeExclusive'
    BY DEF TypeOK, LoopInv, Accepting, NodeExclusive, OwnedIsInUse, Holding, Serving,
          Ended, Idle, Nodes
  <2>4. OwnedIsInUse'
    BY DEF TypeOK, LoopInv, Accepting, OwnedIsInUse, NodeExclusive, Holding, Serving, Ended, Idle
  <2>5. InUseIsOwned'
    BY DEF TypeOK, LoopInv, Accepting, InUseIsOwned, Owned, Holding, Serving, Ended, Idle
  <2> QED BY <2>1, <2>2, <2>3, <2>4, <2>5
<1>10. ASSUME NEW c \in Callers, LaunchThrows(c) PROVE Inv'
  <2> USE <1>10, NoneAssumption DEF Inv, LaunchThrows
  <2>1. TypeOK'
    BY DEF TypeOK, LoopInv, Accepting, Serving, CallStates, Ended, Idle
  <2>2. LoopInv'
    BY DEF TypeOK, LoopInv, Accepting, Serving, Ended, Idle
  <2>3. NodeExclusive'
    BY DEF TypeOK, LoopInv, Accepting, NodeExclusive, OwnedIsInUse, Holding, Serving,
          Ended, Idle, Nodes
  <2>4. OwnedIsInUse'
    BY DEF TypeOK, LoopInv, Accepting, OwnedIsInUse, NodeExclusive, Holding, Serving, Ended, Idle
  <2>5. InUseIsOwned'
    BY DEF TypeOK, LoopInv, Accepting, InUseIsOwned, Owned, Holding, Serving, Ended, Idle
  <2> QED BY <2>1, <2>2, <2>3, <2>4, <2>5
<1>11. ASSUME NEW c \in Callers, ProcessExits(c) PROVE Inv'
  <2> USE <1>11, NoneAssumption DEF Inv, ProcessExits
  <2>1. TypeOK'
    BY DEF TypeOK, LoopInv, Accepting, Serving, CallStates, Ended, Idle
  <2>2. LoopInv'
    BY DEF TypeOK, LoopInv, Accepting, Serving, Ended, Idle
  <2>3. NodeExclusive'
    BY DEF TypeOK, LoopInv, Accepting, NodeExclusive, OwnedIsInUse, Holding, Serving,
          Ended, Idle, Nodes
  <2>4. OwnedIsInUse'
    BY DEF TypeOK, LoopInv, Accepting, OwnedIsInUse, NodeExclusive, Holding, Serving, Ended, Idle
  <2>5. InUseIsOwned'
    BY DEF TypeOK, LoopInv, Accepting, InUseIsOwned, Owned, Holding, Serving, Ended, Idle
  <2> QED BY <2>1, <2>2, <2>3, <2>4, <2>5
<1>12. ASSUME NEW c \in Callers, freeNode(c) PROVE Inv'
  <2> USE <1>12, NoneAssumption DEF Inv, freeNode
  <2>1. TypeOK'
    BY DEF TypeOK, LoopInv, Accepting, Serving, CallStates, Ended, Idle
  <2>2. LoopInv'
    BY DEF TypeOK, LoopInv, Accepting, Serving, Ended, Idle
  <2>3. NodeExclusive'
    BY DEF TypeOK, LoopInv, Accepting, NodeExclusive, OwnedIsInUse, Holding, Serving,
          Ended, Idle, Nodes
  <2>4. OwnedIsInUse'
    BY DEF TypeOK, LoopInv, Accepting, OwnedIsInUse, NodeExclusive, Holding, Serving, Ended, Idle
  <2>5. InUseIsOwned'
    BY DEF TypeOK, LoopInv, Accepting, InUseIsOwned, Owned, Holding, Serving, Ended, Idle
  <2> QED BY <2>1, <2>2, <2>3, <2>4, <2>5
<1>13. CASE UNCHANGED vars
  BY <1>13 DEF vars, Inv, TypeOK, LoopInv, NodeExclusive, OwnedIsInUse, InUseIsOwned,
              Holding, Serving, Owned, Accepting
<1> QED
  BY <1>1, <1>2, <1>3, <1>4, <1>5, <1>6, <1>7, <1>8, <1>9, <1>10, <1>11, <1>12, <1>13, <1>14, <1>15
  DEF Next, Loop, Instance

\* The values of the variables, for every number of servers, callers, nodes.
THEOREM TypeCorrect == Spec => []TypeOK
<1>1. Inv => TypeOK
  BY DEF Inv
<1> QED BY <1>1, InitInv, NextInv, PTL DEF Spec

\* Two BBS processes never run on one node number, on however many servers
\* the callers arrive and whenever these are stopped and restarted.
THEOREM NeverShared == Spec => []NodeExclusive
<1>1. Inv => NodeExclusive
  BY DEF Inv
<1> QED BY <1>1, InitInv, NextInv, PTL DEF Spec

\* A node that somebody has is marked InUse.
THEOREM NeverFreedEarly == Spec => []OwnedIsInUse
<1>1. Inv => OwnedIsInUse
  BY DEF Inv
<1> QED BY <1>1, InitInv, NextInv, PTL DEF Spec

\* A node marked InUse that nobody has was forgotten by a launcher thread;
\* the finally block of LaunchInstance leaks none.
THEOREM OnlyLaunchersLeak == Spec => []InUseIsOwned
<1>1. Inv => InUseIsOwned
  BY DEF Inv
<1> QED BY <1>1, InitInv, NextInv, PTL DEF Spec
=============================================================================
