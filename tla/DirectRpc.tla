----------------------------- MODULE DirectRpc ------------------------------
(***************************************************************************)
(* RPC in direct mode, from the caller's process: its RouteTable, the      *)
(* DirectClients it makes for one target, the goroutine Start of each, and *)
(* the goroutines that call.  The target's StubServer answers every        *)
(* request it reads.  The table is fed by the read loop of RouterClient    *)
(* with the target's address, which changes when the target moves, and     *)
(* with its removal.                                                       *)
(*                                                                         *)
(* c.conn of a DirectClient is set once, by Start, and never cleared.  The *)
(* timeout of a call is passed on to Await as it is, and Await sets no     *)
(* timer for one that is zero or negative: such a call waits for its       *)
(* response however long that takes, also when it will never come.         *)
(***************************************************************************)
EXTENDS Naturals

CONSTANTS Addr,       \* addresses the target may announce
          NoAddr,     \* no node in routeIdToNodeMap
          Call,       \* the calls made in a behaviour, each once
          Untimed,    \* those made with a timeout that is not positive
          MaxClient,  \* bound: DirectClients made in a behaviour
          MaxChange   \* bound: changes of the table in a behaviour

ASSUME DirectAssumption ==
  /\ NoAddr \notin Addr
  /\ Untimed \subseteq Call
  /\ MaxClient \in Nat /\ MaxChange \in Nat

Inst == 1..MaxClient
None == 0  \* no entry in routeIdToRpcClient

VARIABLES
  node,      \* routeIdToNodeMap[target]
  current,   \* routeIdToRpcClient[target]
  made,      \* DirectClients made so far
  addr,      \* host and port of a DirectClient
  conn,      \* its c.conn
  start,     \* where its goroutine Start is
  wire,      \* requests and
  back,      \*   responses under way on its connection
  pc,        \* where a call is
  via,       \* the DirectClient a call uses
  futures,   \* WaitResultManager
  done,      \* calls whose future has been completed
  changes    \* changes of the table so far

vars == <<node, current, made, addr, conn, start, wire, back, pc, via,
          futures, done, changes>>

tableVars == <<node, current, changes>>
instVars == <<made, addr, conn, start>>
wireVars == <<wire, back>>
callVars == <<pc, via>>
futureVars == <<futures, done>>

Init ==
  /\ node = NoAddr
  /\ current = None
  /\ made = 0
  /\ addr = [i \in Inst |-> NoAddr]
  /\ conn = [i \in Inst |-> "nil"]
  /\ start = [i \in Inst |-> "none"]
  /\ wire = [i \in Inst |-> {}]
  /\ back = [i \in Inst |-> {}]
  /\ pc = [c \in Call |-> "idle"]
  /\ via = [c \in Call |-> None]
  /\ futures = {}
  /\ done = {}
  /\ changes = 0

At(c, p) == pc[c] = p
Goto(c, p) == pc' = [pc EXCEPT ![c] = p]
Returned == {"ok", "failed", "timeout"}

\* The frames on a connection that ends are lost.
EndConn(i, state) ==
  /\ conn' = [conn EXCEPT ![i] = state]
  /\ wire' = [wire EXCEPT ![i] = {}]
  /\ back' = [back EXCEPT ![i] = {}]

-----------------------------------------------------------------------------
(* RouteTable.                                                             *)

\* Variant: the DirectClient for the old address stays in the map.
UpsertRouteNode_Keep(a) ==
  /\ changes < MaxChange
  /\ a # node
  /\ changes' = changes + 1
  /\ node' = a
  /\ UNCHANGED <<current, instVars, wireVars, callVars, futureVars>>

\* A node that differs replaces the old one; the DirectClient made for the
\* old one leaves the map.  It is not closed.
UpsertRouteNode(a) ==
  /\ changes < MaxChange
  /\ a # node
  /\ changes' = changes + 1
  /\ node' = a
  /\ current' = IF node = NoAddr THEN current ELSE None
  /\ UNCHANGED <<instVars, wireVars, callVars, futureVars>>

\* Close does nothing to a DirectClient that has not connected yet.
RemoveRouteNode ==
  /\ changes < MaxChange
  /\ node # NoAddr
  /\ changes' = changes + 1
  /\ node' = NoAddr
  /\ current' = None
  /\ IF current # None /\ conn[current] # "nil"
       THEN EndConn(current, "closed")
       ELSE UNCHANGED <<conn, wireVars>>
  /\ UNCHANGED <<made, addr, start, callVars, futureVars>>

GetOrCreateRpcClient(c) ==
  /\ At(c, "idle")
  /\ \/ /\ current # None
        /\ via' = [via EXCEPT ![c] = current]
        /\ Goto(c, "send")
        /\ UNCHANGED <<current, made, addr, start>>
     \/ /\ current = None /\ node = NoAddr
        /\ Goto(c, "failed")
        /\ UNCHANGED <<via, current, made, addr, start>>
     \/ /\ current = None /\ node # NoAddr
        /\ made < MaxClient
        /\ made' = made + 1
        /\ current' = made'
        /\ addr' = [addr EXCEPT ![made'] = node]
        /\ start' = [start EXCEPT ![made'] = "dial"]
        /\ via' = [via EXCEPT ![c] = made']
        /\ Goto(c, "send")
  /\ UNCHANGED <<node, changes, conn, wireVars, futureVars>>

-----------------------------------------------------------------------------
(* DirectClient.Start.                                                     *)

Dial(i) ==
  /\ start[i] = "dial"
  /\ conn' = [conn EXCEPT ![i] = "up"]
  /\ start' = [start EXCEPT ![i] = "read"]
  /\ UNCHANGED <<tableVars, made, addr, wireVars, callVars, futureVars>>

\* Start returns; the DirectClient stays in the map and never dials again.
DialFails(i) ==
  /\ start[i] = "dial"
  /\ start' = [start EXCEPT ![i] = "done"]
  /\ UNCHANGED <<tableVars, made, addr, conn, wireVars, callVars, futureVars>>

\* Pop the future of the response and complete it; a response that finds
\* none, because its call has yet to register it, is thrown away.
Receive(i, c) ==
  /\ start[i] = "read"
  /\ c \in back[i]
  /\ back' = [back EXCEPT ![i] = @ \ {c}]
  /\ futures' = futures \ {c}
  /\ done' = done \cup ({c} \cap futures)
  /\ UNCHANGED <<tableVars, instVars, wire, callVars>>

\* A read error; the deferred Close.
ReadError(i) ==
  /\ start[i] = "read"
  /\ conn[i] \in {"dead", "closed"}
  /\ start' = [start EXCEPT ![i] = "done"]
  /\ EndConn(i, "closed")
  /\ UNCHANGED <<tableVars, made, addr, callVars, futureVars>>

-----------------------------------------------------------------------------
(* DirectClient.GetOrCreateProxy: send, then register, then wait.          *)

\* Variant: a call waits for the connection of its DirectClient.
SendRpcMessage_Wait(c) ==
  LET i == via[c] IN
  /\ At(c, "send")
  /\ conn[i] # "nil"
  /\ \/ /\ conn[i] = "up"
        /\ wire' = [wire EXCEPT ![i] = @ \cup {c}]
        /\ Goto(c, "register")
     \/ /\ conn[i] # "up"
        /\ Goto(c, "failed")
        /\ UNCHANGED wire
  /\ UNCHANGED <<tableVars, instVars, back, via, futureVars>>

SendRpcMessage(c) ==
  LET i == via[c] IN
  /\ At(c, "send")
  /\ \/ /\ conn[i] = "up"
        /\ wire' = [wire EXCEPT ![i] = @ \cup {c}]
        /\ Goto(c, "register")
     \/ /\ conn[i] = "dead"      \* accepted by the kernel, and lost
        /\ Goto(c, "register")
        /\ UNCHANGED wire
     \/ /\ conn[i] # "up"
        /\ Goto(c, "failed")
        /\ UNCHANGED wire
  /\ UNCHANGED <<tableVars, instVars, back, via, futureVars>>

Register(c) ==
  /\ At(c, "register")
  /\ futures' = futures \cup {c}
  /\ Goto(c, "wait")
  /\ UNCHANGED <<tableVars, instVars, wireVars, via, done>>

AwaitResult(c) ==
  /\ At(c, "wait")
  /\ c \in done
  /\ Goto(c, "ok")
  /\ UNCHANGED <<tableVars, instVars, wireVars, via, futureVars>>

\* The timer of Await, for a call that has one; the future stays in the map.
AwaitTimeout(c) ==
  /\ At(c, "wait")
  /\ c \notin Untimed
  /\ Goto(c, "timeout")
  /\ UNCHANGED <<tableVars, instVars, wireVars, via, futureVars>>

-----------------------------------------------------------------------------
(* The target.                                                             *)

\* StubServer.handleConn: read, Invoke, write the response.
Serve(i, c) ==
  /\ conn[i] = "up"
  /\ c \in wire[i]
  /\ wire' = [wire EXCEPT ![i] = @ \ {c}]
  /\ back' = [back EXCEPT ![i] = @ \cup {c}]
  /\ UNCHANGED <<tableVars, instVars, callVars, futureVars>>

PeerLost(i) ==
  /\ conn[i] = "up"
  /\ EndConn(i, "dead")
  /\ UNCHANGED <<tableVars, made, addr, start, callVars, futureVars>>

-----------------------------------------------------------------------------
StartStep(i) ==
  Dial(i) \/ DialFails(i) \/ ReadError(i) \/ \E c \in Call : Receive(i, c)

CallStep(c) ==
  SendRpcMessage(c) \/ Register(c) \/ AwaitResult(c) \/ AwaitTimeout(c)

Next ==
  \/ \E a \in Addr : UpsertRouteNode(a)
  \/ RemoveRouteNode
  \/ \E c \in Call : GetOrCreateRpcClient(c) \/ CallStep(c)
  \/ \E i \in Inst :
       \/ StartStep(i)
       \/ \E c \in Call : Serve(i, c)
       \/ PeerLost(i)

Spec == Init /\ [][Next]_vars

\* Goroutines run, timers fire and the target answers; nobody has to call,
\* the table need not change and no connection has to be lost.
Fairness ==
  /\ \A c \in Call : WF_vars(CallStep(c))
  /\ \A i \in Inst :
       WF_vars(StartStep(i)) /\ \A c \in Call : WF_vars(Serve(i, c))

FairSpec == Spec /\ Fairness

-----------------------------------------------------------------------------
(* Properties.                                                             *)

\* The values the table, the DirectClients and the calls range over.
TypeOK ==
  /\ node \in Addr \cup {NoAddr}
  /\ current \in Inst \cup {None}
  /\ made \in 0..MaxClient
  /\ addr \in [Inst -> Addr \cup {NoAddr}]
  /\ conn \in [Inst -> {"nil", "up", "dead", "closed"}]
  /\ start \in [Inst -> {"none", "dial", "read", "done"}]
  /\ wire \in [Inst -> SUBSET Call]
  /\ back \in [Inst -> SUBSET Call]
  /\ pc \in [Call -> {"idle", "send", "register", "wait"} \cup Returned]
  /\ via \in [Call -> Inst \cup {None}]
  /\ futures \subseteq Call
  /\ done \subseteq Call
  /\ changes \in 0..MaxChange

\* The two maps of the table agree after any mix of lists, removals and
\* concurrent calls: the DirectClient handed out for a target was made for
\* the address the target has now, never for one it has left.
ClientIsForNode ==
  current # None => node # NoAddr /\ addr[current] = node

\* Every call made with a timeout returns, though its DirectClient may be
\* dropped from the map, closed or never connected while the call is using
\* it, and its response may come before the future it is for.
EveryCallReturns ==
  \A c \in Call \ Untimed : At(c, "send") ~> pc[c] \in Returned

=============================================================================
