---------------------------- MODULE RouterCenter ----------------------------
(***************************************************************************)
(* The Router Center: the accept loop, one goroutine per TCP connection    *)
(* (Server.handleConn), the session map shared by all of them              *)
(* (RouterSessionManager) and the goroutine that expires silent sessions   *)
(* (heartbeatLoop).  One action is one critical section of the code or one *)
(* blocking call; everything between two of them is local to a goroutine.  *)
(*                                                                         *)
(* A member of Conn is one accepted TCP connection, never used twice, so   *)
(* its identity stands for the remote address the code compares.  The peer *)
(* is the client library, which puts one fixed routeId on all it sends.    *)
(* Reaching EOF is one event with the peer's close: frames still buffered  *)
(* ahead of it are read before that event.  A write never blocks.          *)
(***************************************************************************)

CONSTANTS Conn,     \* TCP connections
          RouteId,  \* route ids of the clients
          NoConn,   \* a missing map entry
          NoId      \* the empty routeId

ASSUME NoConnAssumption == NoConn \notin Conn
ASSUME NoIdAssumption == NoId \notin RouteId

VARIABLES
  accepting,  \* shutdownCh is open and the listener accepts
  link,       \* the socket of a connection, as its handler will find it
  owner,      \* the routeId the peer puts on its messages
  pc,         \* where the handler of a connection is
  routeId,    \* handleConn's local of that name
  dest,       \* ToRouteId of the message being forwarded
  target,     \* session that forwardToTarget found for it
  sessions,   \* RouterSessionManager.sessions; a session is its connection
  stale,      \* the session's last heartbeat is older than sessionTimeout
  checker,    \* where heartbeatLoop is
  offline,    \* the ids checkHeartbeat collected, then those it removed
  acked       \* the peer has been sent a route list

vars == <<accepting, link, owner, pc, routeId, dest, target, sessions, stale,
          checker, offline, acked>>

handlerVars == <<owner, dest, target>>
checkerVars == <<checker, offline>>

LinkState == {"none", "up", "silent", "reset", "closed"}

HandlerState == {"none", "read", "heartbeat", "table", "reply", "refuse",
                 "forward", "write", "remove", "notify", "done"}

CheckerState == {"sleep", "remove", "notify"}

\* A server that has just been started, before its first connection.
Init ==
  /\ accepting = TRUE
  /\ link = [c \in Conn |-> "none"]
  /\ owner = [c \in Conn |-> NoId]
  /\ pc = [c \in Conn |-> "none"]
  /\ routeId = [c \in Conn |-> NoId]
  /\ dest = [c \in Conn |-> NoId]
  /\ target = [c \in Conn |-> NoConn]
  /\ sessions = [r \in RouteId |-> NoConn]
  /\ stale = [r \in RouteId |-> FALSE]
  /\ checker = "sleep"
  /\ offline = {}
  /\ acked = [c \in Conn |-> FALSE]

Registered == {r \in RouteId : sessions[r] # NoConn}

At(c, p) == pc[c] = p

Goto(c, p) == pc' = [pc EXCEPT ![c] = p]

-----------------------------------------------------------------------------
(* The accept loop and Shutdown.                                           *)

Accept(c) ==
  /\ accepting
  /\ link[c] = "none"
  /\ link' = [link EXCEPT ![c] = "up"]
  /\ \E r \in RouteId : owner' = [owner EXCEPT ![c] = r]
  /\ Goto(c, "read")
  /\ UNCHANGED <<accepting, routeId, dest, target, sessions, stale,
                 checker, offline, acked>>

\* Closes the listener and nothing else: open connections are still served.
Shutdown ==
  /\ accepting
  /\ accepting' = FALSE
  /\ UNCHANGED <<link, owner, pc, routeId, dest, target, sessions,
                 stale, checker, offline, acked>>

-----------------------------------------------------------------------------
(* The read loop of handleConn.  Every decoded message sets routeId.       *)

\* Variant: the read loop does not keep FromRouteId.
ReadMessage_NoId(c, next) ==
  /\ At(c, "read")
  /\ link[c] = "up"
  /\ Goto(c, next)
  /\ UNCHANGED <<accepting, link, owner, routeId, target, sessions, stale,
                 checker, offline, acked>>

ReadMessage(c, next) ==
  /\ At(c, "read")
  /\ link[c] = "up"
  /\ routeId' = [routeId EXCEPT ![c] = owner[c]]
  /\ Goto(c, next)
  /\ UNCHANGED <<accepting, link, owner, target, sessions, stale,
                 checker, offline, acked>>

ReadHeartbeat(c) ==
  /\ ReadMessage(c, "heartbeat")
  /\ UNCHANGED dest

\* MESSAGE_DATA, RPC_REQUEST or RPC_RESPONSE for another client.
ReadData(c) ==
  /\ ReadMessage(c, "forward")
  /\ \E r \in RouteId : dest' = [dest EXCEPT ![c] = r]

\* A type the server ignores, or a message without a ToRouteId.
ReadIgnored(c) ==
  /\ ReadMessage(c, "read")
  /\ UNCHANGED dest

\* Variant: a socket closed by the server itself is taken for a clean exit.
ReadError_CleanExit(c) ==
  /\ At(c, "read")
  /\ link[c] \in {"reset", "closed"}
  /\ IF routeId[c] = NoId \/ link[c] = "closed"
       THEN /\ Goto(c, "done")
            /\ link' = [link EXCEPT ![c] = "closed"]
       ELSE /\ Goto(c, "remove")
            /\ UNCHANGED link
  /\ UNCHANGED <<accepting, routeId, handlerVars, sessions, stale,
                 checkerVars, acked>>

\* EOF, or the socket was closed by some goroutine of the server.
ReadError(c) ==
  /\ At(c, "read")
  /\ link[c] \in {"reset", "closed"}
  /\ IF routeId[c] = NoId
       THEN /\ Goto(c, "done")
            /\ link' = [link EXCEPT ![c] = "closed"]
       ELSE /\ Goto(c, "remove")
            /\ UNCHANGED link
  /\ UNCHANGED <<accepting, routeId, handlerVars, sessions, stale,
                 checkerVars, acked>>

-----------------------------------------------------------------------------
(* handleHeartBeat.  A session leaves the map in the critical section that *)
(* marks it closed, so the mapped session always IsActive.                 *)

\* Variant: the newcomer wins, without a look at the session in the map.
UpsertSession_LastWins(c) ==
  LET r == routeId[c] IN
  /\ At(c, "heartbeat")
  /\ sessions' = [sessions EXCEPT ![r] = c]
  /\ stale' = [stale EXCEPT ![r] = FALSE]
  /\ Goto(c, "table")
  /\ UNCHANGED <<accepting, link, routeId, handlerVars, checkerVars, acked>>

UpsertSession(c) ==
  LET r == routeId[c] IN
  /\ At(c, "heartbeat")
  /\ IF sessions[r] \in {NoConn, c}
       THEN /\ sessions' = [sessions EXCEPT ![r] = c]
            /\ stale' = [stale EXCEPT ![r] = FALSE]
            /\ Goto(c, "table")
       ELSE /\ Goto(c, "refuse")
            /\ UNCHANGED <<sessions, stale>>
  /\ UNCHANGED <<accepting, link, routeId, handlerVars, checkerVars, acked>>

GetAllRouteNodeList(c) ==
  /\ At(c, "table")
  /\ Goto(c, "reply")
  /\ UNCHANGED <<accepting, link, owner, routeId, dest, target, sessions,
                 stale, checkerVars, acked>>

WriteTable(c) ==
  /\ At(c, "reply")
  /\ acked' = [acked EXCEPT ![c] = @ \/ link[c] = "up"]
  /\ Goto(c, "read")
  /\ UNCHANGED <<accepting, link, routeId, handlerVars, sessions, stale,
                 checkerVars>>

\* Variant: the connection of the session in the map is closed.
Refuse_Incumbent(c) ==
  /\ At(c, "refuse")
  /\ link' = [d \in Conn |-> IF sessions[routeId[c]] = d THEN "closed"
                                                       ELSE link[d]]
  /\ Goto(c, "read")
  /\ UNCHANGED <<accepting, routeId, handlerVars, sessions, stale,
                 checkerVars, acked>>

\* SystemError to the peer, then conn.Close().
Refuse(c) ==
  /\ At(c, "refuse")
  /\ link' = [link EXCEPT ![c] = "closed"]
  /\ Goto(c, "read")
  /\ UNCHANGED <<accepting, routeId, handlerVars, sessions, stale,
                 checkerVars, acked>>

-----------------------------------------------------------------------------
(* forwardToTarget: GetSession, then a write whose error is dropped.       *)

\* Variant: the lookup uses FromRouteId.
GetSession_From(c) ==
  LET found == sessions[routeId[c]] IN
  /\ At(c, "forward")
  /\ IF found = NoConn
       THEN /\ dest' = [dest EXCEPT ![c] = NoId]
            /\ Goto(c, "read")
            /\ UNCHANGED target
       ELSE /\ target' = [target EXCEPT ![c] = found]
            /\ Goto(c, "write")
            /\ UNCHANGED dest
  /\ UNCHANGED <<accepting, link, owner, routeId, sessions, stale,
                 checkerVars, acked>>

GetSession(c) ==
  LET found == sessions[dest[c]] IN
  /\ At(c, "forward")
  /\ IF found = NoConn
       THEN /\ dest' = [dest EXCEPT ![c] = NoId]
            /\ Goto(c, "read")
            /\ UNCHANGED target
       ELSE /\ target' = [target EXCEPT ![c] = found]
            /\ Goto(c, "write")
            /\ UNCHANGED dest
  /\ UNCHANGED <<accepting, link, owner, routeId, sessions, stale,
                 checkerVars, acked>>

WriteTarget(c) ==
  /\ At(c, "write")
  /\ dest' = [dest EXCEPT ![c] = NoId]
  /\ target' = [target EXCEPT ![c] = NoConn]
  /\ Goto(c, "read")
  /\ UNCHANGED <<accepting, link, owner, routeId, sessions, stale,
                 checkerVars, acked>>

-----------------------------------------------------------------------------
(* RemoveSessions, in its two critical sections: delete and close under    *)
(* the write lock, then tell the sessions that are left under a read lock  *)
(* (RouteSync models what the lists and the notices do to their readers).  *)

Delete(ids) ==
  /\ sessions' = [r \in RouteId |-> IF r \in ids THEN NoConn ELSE sessions[r]]
  /\ stale' = [r \in RouteId |-> r \notin ids /\ stale[r]]

\* Variant: RemoveSessions deletes without closing.
Closing_None(ids) == {}

Closing(ids) == {c \in Conn : \E r \in ids : sessions[r] = c}

CloseAll(conns) ==
  link' = [c \in Conn |-> IF c \in conns THEN "closed" ELSE link[c]]

\* RemoveSession(routeId) of handleConn: by id, whoever holds it now.
HandlerRemove(c) ==
  LET r == routeId[c] IN
  /\ At(c, "remove")
  /\ Delete({r})
  /\ IF sessions[r] # NoConn
       THEN /\ CloseAll(Closing({r}))
            /\ Goto(c, "notify")
       ELSE /\ CloseAll({c})
            /\ Goto(c, "done")
  /\ UNCHANGED <<accepting, routeId, handlerVars, checkerVars, acked>>

HandlerNotify(c) ==
  /\ At(c, "notify")
  /\ CloseAll({c})
  /\ Goto(c, "done")
  /\ UNCHANGED <<accepting, routeId, handlerVars, sessions, stale,
                 checkerVars, acked>>

-----------------------------------------------------------------------------
(* heartbeatLoop and checkHeartbeat.                                       *)

\* Variant: the comparison with the cutoff is the wrong way round.
CheckCollect_Fresh ==
  LET late == {r \in Registered : ~stale[r]} IN
  /\ checker = "sleep"
  /\ offline' = late
  /\ checker' = IF late = {} THEN "sleep" ELSE "remove"
  /\ UNCHANGED <<accepting, link, pc, routeId, handlerVars, sessions, stale,
                 acked>>

\* Variant: sessions are collected where RemoveSessions expects ids.
CheckCollect_Sessions ==
  LET late == {sessions[r] : r \in {q \in Registered : stale[q]}} IN
  /\ checker = "sleep"
  /\ offline' = late
  /\ checker' = IF late = {} THEN "sleep" ELSE "remove"
  /\ UNCHANGED <<accepting, link, pc, routeId, handlerVars, sessions, stale,
                 acked>>

CheckCollect ==
  LET late == {r \in Registered : stale[r]} IN
  /\ checker = "sleep"
  /\ offline' = late
  /\ checker' = IF late = {} THEN "sleep" ELSE "remove"
  /\ UNCHANGED <<accepting, link, pc, routeId, handlerVars, sessions, stale,
                 acked>>

CheckRemove ==
  /\ checker = "remove"
  /\ Delete(offline)
  /\ CloseAll(Closing(offline))
  /\ offline' = offline \cap Registered
  /\ checker' = IF offline' = {} THEN "sleep" ELSE "notify"
  /\ UNCHANGED <<accepting, pc, routeId, handlerVars, acked>>

CheckNotify ==
  /\ checker = "notify"
  /\ offline' = {}
  /\ checker' = "sleep"
  /\ UNCHANGED <<accepting, link, pc, routeId, handlerVars, sessions, stale,
                 acked>>

-----------------------------------------------------------------------------
(* The environment: the peer's process, the network and the clock.         *)

PeerClose(c) ==
  /\ link[c] = "up"
  /\ link' = [link EXCEPT ![c] = "reset"]
  /\ UNCHANGED <<accepting, pc, routeId, handlerVars, sessions, stale,
                 checkerVars, acked>>

\* The host or the path to it dies: the socket stays open and nothing comes.
Vanish(c) ==
  /\ link[c] = "up"
  /\ link' = [link EXCEPT ![c] = "silent"]
  /\ UNCHANGED <<accepting, pc, routeId, handlerVars, sessions, stale,
                 checkerVars, acked>>

\* sessionTimeout passes without a heartbeat being handled.
Expire(r) ==
  /\ sessions[r] # NoConn
  /\ ~stale[r]
  /\ stale' = [stale EXCEPT ![r] = TRUE]
  /\ UNCHANGED <<accepting, link, pc, routeId, handlerVars, sessions,
                 checkerVars, acked>>

-----------------------------------------------------------------------------
HandlerStep(c) ==
  \/ ReadError(c)
  \/ UpsertSession(c) \/ GetAllRouteNodeList(c) \/ WriteTable(c) \/ Refuse(c)
  \/ GetSession(c) \/ WriteTarget(c)
  \/ HandlerRemove(c) \/ HandlerNotify(c)

CheckerStep == CheckCollect \/ CheckRemove \/ CheckNotify

Next ==
  \/ Shutdown
  \/ CheckerStep
  \/ \E c \in Conn :
       \/ Accept(c)
       \/ ReadHeartbeat(c) \/ ReadData(c) \/ ReadIgnored(c)
       \/ HandlerStep(c)
       \/ PeerClose(c) \/ Vanish(c)
  \/ \E r \in RouteId : Expire(r)

Spec == Init /\ [][Next]_vars

\* Goroutines are scheduled; a peer whose socket is up keeps sending
\* heartbeats whatever else it sends; time passes for a peer that is gone.
Fairness ==
  /\ \A c \in Conn : WF_vars(HandlerStep(c)) /\ SF_vars(ReadHeartbeat(c))
  /\ WF_vars(CheckerStep)
  /\ \A r \in RouteId :
       WF_vars(Expire(r) /\ sessions[r] \in Conn /\ link[sessions[r]] # "up")

FairSpec == Spec /\ Fairness

-----------------------------------------------------------------------------
(* Properties.                                                             *)

\* The values the server's state and its goroutines' locals range over.
TypeOK ==
  /\ accepting \in BOOLEAN
  /\ link \in [Conn -> LinkState]
  /\ owner \in [Conn -> RouteId \cup {NoId}]
  /\ pc \in [Conn -> HandlerState]
  /\ routeId \in [Conn -> RouteId \cup {NoId}]
  /\ dest \in [Conn -> RouteId \cup {NoId}]
  /\ target \in [Conn -> Conn \cup {NoConn}]
  /\ sessions \in [RouteId -> Conn \cup {NoConn}]
  /\ stale \in [RouteId -> BOOLEAN]
  /\ checker \in CheckerState
  /\ offline \in SUBSET RouteId
  /\ acked \in [Conn -> BOOLEAN]

\* Every session in the map belongs to a handler that is still going to run
\* RemoveSession for its id: no exit path of handleConn, however it races
\* with the checker or with a refused duplicate, leaves a session behind.
NoOrphanSession ==
  \A r \in RouteId, c \in Conn :
    sessions[r] = c => /\ owner[c] = r
                       /\ routeId[c] = r
                       /\ pc[c] \notin {"none", "notify", "done"}

\* A client that was answered with a route list is in the map under its id
\* until the server closes its connection: eviction by another handler, by
\* the checker or in the middle of its own heartbeat is never silent.
AckedIsReachable ==
  \A c \in Conn :
    acked[c] /\ link[c] # "closed" => sessions[owner[c]] = c

\* forwardToTarget holds on to a session after GetSession has released the
\* lock; whatever became of the map since, what it writes to is a connection
\* of the client the message is addressed to.
NoMisdelivery ==
  \A c \in Conn :
    At(c, "write") => /\ target[c] \in Conn
                      /\ owner[target[c]] = dest[c]

\* What ties a handler's locals to the shared state between two of its
\* critical sections.  The last two are the ones that matter: a handler that
\* is refusing its peer has no session that the close would strand, and one
\* that has upserted and not yet answered still holds its id, or the server
\* has closed its socket, so the answer it is about to write is not a lie.
HandlersInStep ==
  \A c \in Conn :
    /\ pc[c] = "none" <=> link[c] = "none"
    /\ pc[c] = "none" => routeId[c] = NoId
    /\ pc[c] # "none" => owner[c] \in RouteId
    /\ acked[c] => pc[c] # "none"
    /\ routeId[c] \in {NoId, owner[c]}
    /\ pc[c] \notin {"none", "read", "done"} => routeId[c] = owner[c]
    /\ pc[c] \in {"forward", "write"} => dest[c] \in RouteId
    /\ pc[c] = "write" => pc[target[c]] # "none"
    /\ pc[c] = "refuse" => sessions[owner[c]] # c
    /\ pc[c] \in {"table", "reply"} /\ link[c] # "closed"
         => sessions[owner[c]] = c

\* An id goes from one connection to another only through a removal: the
\* check in UpsertSession and the insert are one critical section.
NoTakeover ==
  [][\A r \in RouteId :
       sessions[r] # NoConn => sessions'[r] \in {sessions[r], NoConn}]_vars

Abstract == INSTANCE Registry WITH
  Id <- RouteId, Node <- Conn, None <- NoConn,
  holder <- sessions,
  told <- {c \in Conn : acked[c]},
  closed <- {c \in Conn : link[c] = "closed"}

\* The server, with the critical sections of its handlers and its checker
\* interleaved, is a registry: an id has one holder, only a holder is ever
\* answered with a list, and a session leaves the map only in the step that
\* closes its own connection; a refusal or the end of another handler closes
\* no connection that is in the map.
ImplementsRegistry == Abstract!RegistrySpec

\* What session_manager.go:76 tells a duplicate, that the id is taken and it
\* must change its own configuration: the session that holds an id loses it
\* only to its own handler or for missing its heartbeats.
IncumbentKept ==
  [][\A r \in RouteId :
       sessions[r] # NoConn /\ sessions'[r] = NoConn
         => pc[sessions[r]] = "remove" \/ r \in offline]_vars

\* A session whose peer is gone, by a close, by a network that went silent
\* or because the server closed the socket, leaves the map.
DeadSessionsGoAway ==
  \A r \in RouteId, c \in Conn :
    (sessions[r] = c /\ link[c] # "up") ~> (sessions[r] # c)

=============================================================================
