----------------------------- MODULE RouteSync ------------------------------
(***************************************************************************)
(* The route tables.  The Router Center answers each heartbeat with the    *)
(* list of the registered nodes and tells the sessions that are left of    *)
(* every removal; a client merges both into its RouteTable.  This module   *)
(* adds to the steps of RouterCenter what they carry: the list between     *)
(* GetAllRouteNodeList and the write, and the table of the client behind   *)
(* each connection once it has applied all that was written to it, in the  *)
(* order in which it was written (one stream, one writeMu per connection). *)
(* Forwarding and Shutdown, which read no table and write none, are left   *)
(* to RouterCenter.                                                        *)
(***************************************************************************)
EXTENDS RouterCenter

VARIABLES
  snapshot,  \* ids in the route list handleHeartBeat is about to write
  table      \* ids in the RouteTable of the client behind a connection

syncVars == <<snapshot, table>>

SyncInit ==
  /\ Init
  /\ snapshot = [c \in Conn |-> {}]
  /\ table = [c \in Conn |-> {}]

\* The RouteTable is the client process's: one that dials again keeps it.
Inherited(r) ==
  {{}} \cup {table[d] : d \in {e \in Conn : owner[e] = r /\ link[e] # "up"}}

SyncAccept(c) ==
  /\ Accept(c)
  /\ \E t \in Inherited(owner'[c]) : table' = [table EXCEPT ![c] = t]
  /\ UNCHANGED snapshot

\* Variant: the list is made of the sessions, not of their ids.
SyncList_Sessions(c) ==
  /\ GetAllRouteNodeList(c)
  /\ snapshot' = [snapshot EXCEPT ![c] = {sessions[r] : r \in Registered}]
  /\ UNCHANGED table

SyncList(c) ==
  /\ GetAllRouteNodeList(c)
  /\ snapshot' = [snapshot EXCEPT ![c] = Registered]
  /\ UNCHANGED table

\* Variant: the client applies the first list of a connection only.
SyncWriteTable_First(c) ==
  /\ WriteTable(c)
  /\ table' = [table EXCEPT ![c] = IF link[c] = "up" /\ ~acked[c]
                                     THEN @ \cup snapshot[c]
                                     ELSE @]
  /\ snapshot' = [snapshot EXCEPT ![c] = {}]

\* UpsertRouteNode adds or overwrites the nodes of the list, deletes none.
SyncWriteTable(c) ==
  /\ WriteTable(c)
  /\ table' = [table EXCEPT ![c] = IF link[c] = "up" THEN @ \cup snapshot[c]
                                                     ELSE @]
  /\ snapshot' = [snapshot EXCEPT ![c] = {}]

\* RemoveRouteNode on every client that has a session at this moment.
NotifyAlive(ids) ==
  table' = [c \in Conn |->
              IF link[c] = "up" /\ \E r \in RouteId : sessions[r] = c
                THEN table[c] \ ids
                ELSE table[c]]

SyncHandlerNotify(c) ==
  /\ HandlerNotify(c)
  /\ NotifyAlive({routeId[c]})
  /\ UNCHANGED snapshot

SyncCheckNotify ==
  /\ CheckNotify
  /\ NotifyAlive(offline)
  /\ UNCHANGED snapshot

SilentStep(c) ==
  ReadError(c) \/ UpsertSession(c) \/ Refuse(c) \/ HandlerRemove(c)

SyncHandlerStep(c) ==
  \/ SyncList(c)
  \/ SyncWriteTable(c)
  \/ SyncHandlerNotify(c)
  \/ SilentStep(c) /\ UNCHANGED syncVars

SyncCheckerStep ==
  \/ SyncCheckNotify
  \/ (CheckCollect \/ CheckRemove) /\ UNCHANGED syncVars

SyncReadHeartbeat(c) == ReadHeartbeat(c) /\ UNCHANGED syncVars

SyncExpire(r) == Expire(r) /\ UNCHANGED syncVars

SyncNext ==
  \/ SyncCheckerStep
  \/ \E c \in Conn :
       \/ SyncAccept(c)
       \/ SyncReadHeartbeat(c)
       \/ ReadIgnored(c) /\ UNCHANGED syncVars
       \/ SyncHandlerStep(c)
       \/ (PeerClose(c) \/ Vanish(c)) /\ UNCHANGED syncVars
  \/ \E r \in RouteId : SyncExpire(r)

SyncSpec == SyncInit /\ [][SyncNext]_<<vars, syncVars>>

\* The fairness of RouterCenter, on the same steps.
SyncFairSpec ==
  /\ SyncSpec
  /\ \A c \in Conn :
       /\ WF_<<vars, syncVars>>(SyncHandlerStep(c))
       /\ SF_<<vars, syncVars>>(SyncReadHeartbeat(c))
  /\ WF_<<vars, syncVars>>(SyncCheckerStep)
  /\ \A r \in RouteId :
       WF_<<vars, syncVars>>(SyncExpire(r) /\ link[sessions[r]] # "up")

-----------------------------------------------------------------------------
(* Properties.                                                             *)

\* The values the lists and the tables range over.
SyncTypeOK ==
  /\ TypeOK
  /\ snapshot \in [Conn -> SUBSET RouteId]
  /\ table \in [Conn -> SUBSET RouteId]

\* A connected client ends up listing every id that stays registered, though
\* the notice of an old removal may be written after the new route list.
TablesCatchUp ==
  \A r \in RouteId, c \in Conn :
    (sessions[r] # NoConn /\ link[c] = "up")
      ~> (r \in table[c] \/ sessions[r] = NoConn \/ link[c] # "up")

=============================================================================
