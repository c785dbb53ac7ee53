-------------------------- MODULE DirectRpc_proofs --------------------------
(***************************************************************************)
(* Proofs about DirectRpc, for any addresses, calls and bounds.            *)
(*                                                                         *)
(* ClientIsForNode is inductive together with TypeOK: the insert into      *)
(* routeIdToRpcClient and the lookup of the node it is made from are one   *)
(* critical section, and every change of the node empties the entry.       *)
(***************************************************************************)
EXTENDS DirectRpc, TLAPS

IInv == TypeOK /\ ClientIsForNode

\* The empty table of a process that has just started.
LEMMA InitIInv == Init => IInv
  BY DirectAssumption DEF Init, IInv, TypeOK, ClientIsForNode, Inst, None

\* A change of the table, a call, a response or a lost connection keeps the
\* types and the agreement of the two maps.
LEMMA StepIInv == IInv /\ [Next]_vars => IInv'
<1> SUFFICES ASSUME IInv, [Next]_vars PROVE IInv'
  OBVIOUS
<1> USE DirectAssumption
        DEF IInv, TypeOK, ClientIsForNode, Inst, None, Returned, At, Goto,
            tableVars, instVars, wireVars, callVars, futureVars
<1>1. ASSUME NEW a \in Addr, UpsertRouteNode(a) PROVE IInv'
  BY <1>1 DEF UpsertRouteNode
<1>2. CASE RemoveRouteNode
  <2>1. node' = NoAddr /\ current' = None /\ changes' \in 0..MaxChange
    BY <1>2 DEF RemoveRouteNode
  <2>2. CASE current # None /\ conn[current] # "nil"
    <3>1. EndConn(current, "closed")
      BY <1>2, <2>2 DEF RemoveRouteNode
    <3>2. /\ conn' \in [Inst -> {"nil", "up", "dead", "closed"}]
          /\ wire' \in [Inst -> SUBSET Call]
          /\ back' \in [Inst -> SUBSET Call]
      BY <2>2, <3>1 DEF EndConn
    <3> QED
      BY <1>2, <2>1, <3>2 DEF RemoveRouteNode
  <2>3. CASE ~(current # None /\ conn[current] # "nil")
    <3>1. UNCHANGED <<conn, wire, back>>
      BY <1>2, <2>3 DEF RemoveRouteNode
    <3> QED
      BY <1>2, <2>1, <3>1 DEF RemoveRouteNode
  <2> QED
    BY <2>2, <2>3
<1>3. ASSUME NEW c \in Call, GetOrCreateRpcClient(c) PROVE IInv'
  <2>1. CASE current # None
    <3>1. /\ via' = [via EXCEPT ![c] = current]
          /\ pc' = [pc EXCEPT ![c] = "send"]
          /\ UNCHANGED <<tableVars, instVars, wireVars, futureVars>>
      BY <1>3, <2>1 DEF GetOrCreateRpcClient
    <3> QED
      BY <2>1, <3>1
  <2>2. CASE current = None /\ node = NoAddr
    BY <1>3, <2>2 DEF GetOrCreateRpcClient
  <2>3. CASE current = None /\ node # NoAddr
    <3>1. made' = made + 1 /\ made' \in Inst
      BY <1>3, <2>3 DEF GetOrCreateRpcClient
    <3>2. /\ current' = made' /\ node' = node
          /\ addr' = [addr EXCEPT ![made'] = node]
          /\ start' = [start EXCEPT ![made'] = "dial"]
          /\ via' = [via EXCEPT ![c] = made']
          /\ pc' = [pc EXCEPT ![c] = "send"]
          /\ UNCHANGED <<changes, conn, wire, back, futures, done>>
      BY <1>3, <2>3 DEF GetOrCreateRpcClient
    <3> QED
      BY <2>3, <3>1, <3>2
  <2> QED
    BY <2>1, <2>2, <2>3
<1>4. ASSUME NEW c \in Call, SendRpcMessage(c) PROVE IInv'
  <2>1. pc' \in [Call -> {"idle", "send", "register", "wait"} \cup Returned]
    BY <1>4 DEF SendRpcMessage
  <2>2. wire' \in [Inst -> SUBSET Call]
    BY <1>4 DEF SendRpcMessage
  <2>3. UNCHANGED <<tableVars, instVars, back, via, futureVars>>
    BY <1>4 DEF SendRpcMessage
  <2> QED
    BY <2>1, <2>2, <2>3
<1>5. ASSUME NEW c \in Call, Register(c) \/ AwaitResult(c) \/ AwaitTimeout(c)
      PROVE  IInv'
  <2>1. CASE Register(c)
    BY <2>1 DEF Register
  <2>2. CASE AwaitResult(c)
    BY <2>2 DEF AwaitResult
  <2>3. CASE AwaitTimeout(c)
    BY <2>3 DEF AwaitTimeout
  <2> QED
    BY <1>5, <2>1, <2>2, <2>3
<1>6. ASSUME NEW i \in Inst, Dial(i) \/ DialFails(i) PROVE IInv'
  BY <1>6 DEF Dial, DialFails
<1>7. ASSUME NEW i \in Inst, ReadError(i) \/ PeerLost(i) PROVE IInv'
  BY <1>7 DEF ReadError, PeerLost, EndConn
<1>8. ASSUME NEW i \in Inst, NEW c \in Call, Receive(i, c) PROVE IInv'
  BY <1>8 DEF Receive
<1>9. ASSUME NEW i \in Inst, NEW c \in Call, Serve(i, c) PROVE IInv'
  BY <1>9 DEF Serve
<1>10. CASE UNCHANGED vars
  BY <1>10 DEF vars
<1> QED
  BY <1>1, <1>2, <1>3, <1>4, <1>5, <1>6, <1>7, <1>8, <1>9, <1>10
     DEF Next, StartStep, CallStep

\* The table never hands out a DirectClient for an address that its target
\* has left, whatever lists and removals arrive between the calls.
THEOREM TableIsCurrent == Spec => []ClientIsForNode
<1>1. IInv => ClientIsForNode
  BY DEF IInv
<1> QED
  BY <1>1, InitIInv, StepIInv, PTL DEF Spec

\* The table, the DirectClients and the calls keep their types; that a call
\* under way holds a DirectClient rests on the map never holding one that
\* was not made.
THEOREM TypeCorrect == Spec => []TypeOK
<1>1. IInv => TypeOK
  BY DEF IInv
<1> QED
  BY <1>1, InitIInv, StepIInv, PTL DEF Spec

=============================================================================
