------------------------ MODULE RouterCenter_proofs -------------------------
(***************************************************************************)
(* Proofs about RouterCenter, and about RouteSync, which adds the route    *)
(* lists to its steps, for any sets of connections and ids.                *)
(*                                                                         *)
(* NoOrphanSession, AckedIsReachable and NoMisdelivery are proved together *)
(* with TypeOK and HandlersInStep: the conjunction is inductive, none of   *)
(* the three is by itself (what UpsertSession writes into the map depends  *)
(* on a local that the read loop set, and an answer is written two         *)
(* critical sections after the insert it reports).                         *)
(***************************************************************************)
EXTENDS RouteSync, TLAPS

IInv ==
  /\ TypeOK
  /\ NoOrphanSession
  /\ AckedIsReachable
  /\ NoMisdelivery
  /\ HandlersInStep

-----------------------------------------------------------------------------
(* Type correctness.                                                       *)

\* In the initial state every variable has a value of its type.
LEMMA InitTypeOK == Init => TypeOK
  BY DEF Init, TypeOK, LinkState, HandlerState, CheckerState

\* Every step keeps the types; that GetSession finds a connection or nothing
\* rests on the destination a handler holds while it forwards.
LEMMA StepTypeOK == TypeOK /\ HandlersInStep /\ [Next]_vars => TypeOK'
<1> SUFFICES ASSUME TypeOK, HandlersInStep, [Next]_vars PROVE TypeOK'
  OBVIOUS
<1> USE DEF TypeOK, LinkState, HandlerState, CheckerState, Goto, At,
            handlerVars, checkerVars
<1>1. CASE Shutdown
  BY <1>1 DEF Shutdown
<1>2. CASE CheckCollect
  BY <1>2 DEF CheckCollect, Registered
<1>3. CASE CheckRemove
  BY <1>3 DEF CheckRemove, Registered, Delete, CloseAll
<1>4. CASE CheckNotify
  BY <1>4 DEF CheckNotify
<1>5. ASSUME NEW c \in Conn, Accept(c) PROVE TypeOK'
  BY <1>5 DEF Accept
<1>6. ASSUME NEW c \in Conn, ReadHeartbeat(c) \/ ReadData(c) \/ ReadIgnored(c)
      PROVE TypeOK'
  BY <1>6 DEF ReadHeartbeat, ReadData, ReadIgnored, ReadMessage
<1>7. ASSUME NEW c \in Conn, ReadError(c) PROVE TypeOK'
  BY <1>7 DEF ReadError
<1>8. ASSUME NEW c \in Conn, UpsertSession(c) PROVE TypeOK'
  BY <1>8 DEF UpsertSession
<1>9. ASSUME NEW c \in Conn, GetAllRouteNodeList(c) PROVE TypeOK'
  BY <1>9 DEF GetAllRouteNodeList
<1>10. ASSUME NEW c \in Conn, WriteTable(c) PROVE TypeOK'
  BY <1>10 DEF WriteTable
<1>11. ASSUME NEW c \in Conn, Refuse(c) PROVE TypeOK'
  BY <1>11 DEF Refuse
<1>12. ASSUME NEW c \in Conn, GetSession(c) PROVE TypeOK'
  BY <1>12 DEF GetSession, HandlersInStep
<1>13. ASSUME NEW c \in Conn, WriteTarget(c) PROVE TypeOK'
  BY <1>13 DEF WriteTarget
<1>14. ASSUME NEW c \in Conn, HandlerRemove(c) PROVE TypeOK'
  BY <1>14 DEF HandlerRemove, Delete, CloseAll
<1>15. ASSUME NEW c \in Conn, HandlerNotify(c) PROVE TypeOK'
  BY <1>15 DEF HandlerNotify, CloseAll
<1>16. ASSUME NEW c \in Conn, PeerClose(c) \/ Vanish(c) PROVE TypeOK'
  BY <1>16 DEF PeerClose, Vanish
<1>17. ASSUME NEW r \in RouteId, Expire(r) PROVE TypeOK'
  BY <1>17 DEF Expire
<1>18. CASE UNCHANGED vars
  BY <1>18 DEF vars
<1> QED
  BY <1>1, <1>2, <1>3, <1>4, <1>5, <1>6, <1>7, <1>8, <1>9, <1>10, <1>11,
     <1>12, <1>13, <1>14, <1>15, <1>16, <1>17, <1>18
     DEF Next, HandlerStep, CheckerStep

-----------------------------------------------------------------------------
(* The inductive invariant.                                                *)

\* Nothing is registered, answered or forwarded in the initial state.
LEMMA InitIInv == Init => IInv
  BY InitTypeOK, NoConnAssumption
     DEF Init, IInv, TypeOK, NoOrphanSession, AckedIsReachable, NoMisdelivery,
         HandlersInStep, At

\* The part of IInv that is not about types.
Rest ==
  /\ NoOrphanSession
  /\ AckedIsReachable
  /\ NoMisdelivery
  /\ HandlersInStep

\* Each step of the server, its peers or the clock keeps the invariant.  The
\* conjuncts are separate goals for the actions that can disturb several.
LEMMA StepIInv == IInv /\ [Next]_vars => IInv'
<1> SUFFICES ASSUME TypeOK, Rest, TypeOK', [Next]_vars
             PROVE  Rest'
  BY StepTypeOK DEF IInv, Rest
<1> USE NoConnAssumption, NoIdAssumption
        DEF TypeOK, Rest, NoOrphanSession, AckedIsReachable, NoMisdelivery,
            HandlersInStep, LinkState, HandlerState, CheckerState, Goto, At,
            handlerVars, checkerVars
<1>1. CASE CheckCollect
  BY <1>1 DEF CheckCollect
<1>2. CASE CheckRemove
  <2>1. NoOrphanSession'
    BY <1>2 DEF CheckRemove, Delete, CloseAll, Closing
  <2>2. AckedIsReachable'
    BY <1>2 DEF CheckRemove, Delete, CloseAll, Closing
  <2>3. NoMisdelivery'
    BY <1>2 DEF CheckRemove, Delete, CloseAll, Closing
  <2>4. HandlersInStep'
    BY <1>2 DEF CheckRemove, Delete, CloseAll, Closing
  <2> QED
    BY <2>1, <2>2, <2>3, <2>4 DEF Rest
<1>3. CASE CheckNotify
  BY <1>3 DEF CheckNotify
<1>4. CASE Shutdown
  BY <1>4 DEF Shutdown
<1>5. ASSUME NEW c \in Conn, Accept(c) PROVE Rest'
  <2>1. NoOrphanSession'
    BY <1>5 DEF Accept
  <2>2. AckedIsReachable'
    BY <1>5 DEF Accept
  <2>3. NoMisdelivery'
    BY <1>5 DEF Accept
  <2>4. HandlersInStep'
    BY <1>5 DEF Accept
  <2> QED
    BY <2>1, <2>2, <2>3, <2>4 DEF Rest
<1>6. ASSUME NEW c \in Conn, ReadHeartbeat(c) \/ ReadData(c) \/ ReadIgnored(c)
      PROVE  Rest'
  BY <1>6 DEF ReadHeartbeat, ReadData, ReadIgnored, ReadMessage
<1>7. ASSUME NEW c \in Conn, ReadError(c) PROVE Rest'
  <2>1. NoOrphanSession'
    BY <1>7 DEF ReadError
  <2>2. AckedIsReachable'
    BY <1>7 DEF ReadError
  <2>3. NoMisdelivery'
    BY <1>7 DEF ReadError
  <2>4. HandlersInStep'
    BY <1>7 DEF ReadError
  <2> QED
    BY <2>1, <2>2, <2>3, <2>4 DEF Rest
<1>8. ASSUME NEW c \in Conn, UpsertSession(c) PROVE Rest'
  <2>1. NoOrphanSession'
    BY <1>8 DEF UpsertSession
  <2>2. AckedIsReachable'
    BY <1>8 DEF UpsertSession
  <2>3. NoMisdelivery'
    BY <1>8 DEF UpsertSession
  <2>4. HandlersInStep'
    BY <1>8 DEF UpsertSession
  <2> QED
    BY <2>1, <2>2, <2>3, <2>4 DEF Rest
<1>9. ASSUME NEW c \in Conn, GetAllRouteNodeList(c) PROVE Rest'
  BY <1>9 DEF GetAllRouteNodeList
<1>10. ASSUME NEW c \in Conn, WriteTable(c) PROVE Rest'
  <2>1. NoOrphanSession'
    BY <1>10 DEF WriteTable
  <2>2. AckedIsReachable'
    BY <1>10 DEF WriteTable
  <2>3. NoMisdelivery'
    BY <1>10 DEF WriteTable
  <2>4. HandlersInStep'
    BY <1>10 DEF WriteTable
  <2> QED
    BY <2>1, <2>2, <2>3, <2>4 DEF Rest
<1>11. ASSUME NEW c \in Conn, Refuse(c) PROVE Rest'
  BY <1>11 DEF Refuse
<1>12. ASSUME NEW c \in Conn, GetSession(c) PROVE Rest'
  <2>1. NoOrphanSession'
    BY <1>12 DEF GetSession
  <2>2. AckedIsReachable'
    BY <1>12 DEF GetSession
  <2>3. NoMisdelivery'
    BY <1>12 DEF GetSession
  <2>4. HandlersInStep'
    BY <1>12 DEF GetSession
  <2> QED
    BY <2>1, <2>2, <2>3, <2>4 DEF Rest
<1>13. ASSUME NEW c \in Conn, WriteTarget(c) PROVE Rest'
  BY <1>13 DEF WriteTarget
<1>14. ASSUME NEW c \in Conn, HandlerRemove(c) PROVE Rest'
  <2>1. NoOrphanSession'
    BY <1>14 DEF HandlerRemove, Delete, CloseAll, Closing
  <2>2. AckedIsReachable'
    BY <1>14 DEF HandlerRemove, Delete, CloseAll, Closing
  <2>3. NoMisdelivery'
    BY <1>14 DEF HandlerRemove, Delete, CloseAll, Closing
  <2>4. HandlersInStep'
    BY <1>14 DEF HandlerRemove, Delete, CloseAll, Closing
  <2> QED
    BY <2>1, <2>2, <2>3, <2>4 DEF Rest
<1>15. ASSUME NEW c \in Conn, HandlerNotify(c) PROVE Rest'
  BY <1>15 DEF HandlerNotify, CloseAll
<1>16. ASSUME NEW c \in Conn, PeerClose(c) \/ Vanish(c) PROVE Rest'
  BY <1>16 DEF PeerClose, Vanish
<1>17. ASSUME NEW r \in RouteId, Expire(r) PROVE Rest'
  BY <1>17 DEF Expire
<1>18. CASE UNCHANGED vars
  BY <1>18 DEF vars
<1> QED
  BY <1>1, <1>2, <1>3, <1>4, <1>5, <1>6, <1>7, <1>8, <1>9, <1>10, <1>11,
     <1>12, <1>13, <1>14, <1>15, <1>16, <1>17, <1>18
     DEF Next, HandlerStep, CheckerStep

-----------------------------------------------------------------------------
(* Theorems.                                                               *)

\* The conjunction of the invariants holds in every reachable state.
LEMMA Invariance == Spec => []IInv
  BY InitIInv, StepIInv, PTL DEF Spec

\* Between two of its critical sections a handler is in step with the map:
\* the list it is about to write is for a session that is still there.
THEOREM HandlersStayInStep == Spec => []HandlersInStep
<1>1. IInv => HandlersInStep
  BY DEF IInv
<1> QED
  BY <1>1, Invariance, PTL

\* Every reachable state of the Router Center is well typed.
THEOREM TypeCorrect == Spec => []TypeOK
<1>1. IInv => TypeOK
  BY DEF IInv
<1> QED
  BY <1>1, Invariance, PTL

\* No exit path of handleConn leaves a session behind in the map.
THEOREM NoOrphans == Spec => []NoOrphanSession
<1>1. IInv => NoOrphanSession
  BY DEF IInv
<1> QED
  BY <1>1, Invariance, PTL

\* A client that was answered is in the map until its socket is closed.
THEOREM AckedStaysReachable == Spec => []AckedIsReachable
<1>1. IInv => AckedIsReachable
  BY DEF IInv
<1> QED
  BY <1>1, Invariance, PTL

\* What is forwarded goes to a connection of the client it is addressed to.
THEOREM Delivery == Spec => []NoMisdelivery
<1>1. IInv => NoMisdelivery
  BY DEF IInv
<1> QED
  BY <1>1, Invariance, PTL

\* A step that changes the holder of an id removes the session it had: the
\* only other writer of the map, UpsertSession, writes where there is none.
THEOREM IdsAreNotTakenOver == Spec => NoTakeover
<1> DEFINE Kept == \A r \in RouteId :
                     sessions[r] # NoConn =>
                       sessions'[r] \in {sessions[r], NoConn}
<1>1. TypeOK /\ [Next]_vars => [Kept]_vars
  <2> SUFFICES ASSUME TypeOK, Next PROVE Kept
    OBVIOUS
  <2> USE DEF TypeOK, handlerVars, checkerVars
  <2>1. ASSUME NEW c \in Conn, UpsertSession(c) PROVE Kept
    BY <2>1 DEF UpsertSession
  <2>2. ASSUME NEW c \in Conn, HandlerRemove(c) PROVE Kept
    BY <2>2 DEF HandlerRemove, Delete
  <2>3. CASE CheckRemove
    BY <2>3 DEF CheckRemove, Delete
  <2>4. CASE UNCHANGED sessions
    BY <2>4
  <2>5. \/ UNCHANGED sessions
        \/ CheckRemove
        \/ \E c \in Conn : UpsertSession(c) \/ HandlerRemove(c)
    BY DEF Next, HandlerStep, CheckerStep, Shutdown, CheckCollect,
           CheckNotify, Accept, ReadHeartbeat, ReadData, ReadIgnored,
           ReadMessage, ReadError, GetAllRouteNodeList, WriteTable, Refuse,
           GetSession, WriteTarget, HandlerNotify, PeerClose, Vanish, Expire
  <2> QED
    BY <2>1, <2>2, <2>3, <2>4, <2>5
<1> QED
  BY <1>1, TypeCorrect, PTL DEF Spec, NoTakeover

-----------------------------------------------------------------------------
(* RouterCenter implements Registry.                                       *)

AnsweredConns == {c \in Conn : acked[c]}
ClosedConns == {c \in Conn : link[c] = "closed"}

\* The initial state of the server is that of an empty registry.
LEMMA InitRefines == Init => Abstract!RegistryInit
  BY DEF Init, Abstract!RegistryInit

\* A step of the server is a step of the registry or does not show in it.
\* The map changes in UpsertSession and in the two removals; a list is
\* written for a connection that is still in the map; the connection that
\* Refuse, ReadError or the end of a handler closes is not in the map.
LEMMA StepRefines ==
  IInv /\ IInv' /\ [Next]_vars =>
    [Abstract!RegistryNext]_(Abstract!registryVars)
<1> DEFINE Step == Abstract!RegistryNext
           Same == UNCHANGED <<sessions, AnsweredConns, ClosedConns>>
<1> SUFFICES ASSUME IInv, IInv', [Next]_vars
             PROVE  Step \/ Same
  BY DEF Abstract!registryVars, AnsweredConns, ClosedConns
<1> USE NoConnAssumption, NoIdAssumption
<1> USE DEF IInv, TypeOK, Goto, At, handlerVars, checkerVars
<1>hang. ASSUME NEW c \in Conn, UNCHANGED <<sessions, acked>>,
                \A r \in RouteId : sessions[r] # c,
                \/ link' = [link EXCEPT ![c] = "closed"]
                \/ CloseAll({c})
         PROVE  Step
  <2>1. Abstract!Leave({}, {c})
    <3>1. ClosedConns' = ClosedConns \cup {c}
      BY <1>hang DEF ClosedConns, CloseAll
    <3> QED
      BY <1>hang, <3>1
         DEF Abstract!Leave, Abstract!Holders, ClosedConns
  <2> QED
    BY <2>1 DEF Abstract!RegistryNext
<1>free. ASSUME NEW ids \in SUBSET RouteId, Delete(ids),
                CloseAll(Closing(ids)), UNCHANGED acked
         PROVE  Step
  <2>1. ClosedConns' = ClosedConns \cup Closing(ids)
    BY <1>free DEF ClosedConns, CloseAll, Closing
  <2>2. Abstract!Leave(ids, {})
    BY <1>free, <2>1
       DEF Abstract!Leave, Abstract!Holders, ClosedConns, Closing, Delete
  <2> QED
    BY <2>2 DEF Abstract!RegistryNext
<1>1. ASSUME NEW c \in Conn, UpsertSession(c) PROVE Step \/ Same
  <2>1. CASE sessions' = sessions
    BY <1>1, <2>1 DEF UpsertSession, AnsweredConns, ClosedConns
  <2>2. CASE sessions[routeId[c]] = NoConn /\ sessions' # sessions
    <3>1. routeId[c] \in RouteId /\ owner[c] = routeId[c]
      BY <1>1 DEF UpsertSession, HandlersInStep
    <3>2. c \notin Abstract!Holders
      BY <3>1, <2>2 DEF Abstract!Holders, NoOrphanSession
    <3>3. Abstract!Join(c, routeId[c])
      BY <1>1, <2>2, <3>1, <3>2 DEF UpsertSession, Abstract!Join
    <3> QED
      BY <3>1, <3>3 DEF Abstract!RegistryNext
  <2>3. CASE sessions[routeId[c]] = c
    BY <1>1, <2>3 DEF UpsertSession, HandlersInStep, AnsweredConns,
                      ClosedConns
  <2> QED
    BY <1>1, <2>1, <2>2, <2>3 DEF UpsertSession
<1>2. ASSUME NEW c \in Conn, WriteTable(c) PROVE Step \/ Same
  <2>1. CASE link[c] = "up"
    <3>1. sessions[owner[c]] = c /\ owner[c] \in RouteId
      BY <1>2, <2>1 DEF WriteTable, HandlersInStep
    <3>2. AnsweredConns' = AnsweredConns \cup {c}
      <4>1. acked \in [Conn -> BOOLEAN]
        OBVIOUS
      <4>2. acked' = [acked EXCEPT ![c] = TRUE]
        BY <1>2, <2>1, <4>1 DEF WriteTable
      <4> HIDE DEF IInv, TypeOK
      <4> QED
        BY <4>1, <4>2 DEF AnsweredConns
    <3>3. UNCHANGED <<sessions, ClosedConns>>
      BY <1>2 DEF WriteTable, ClosedConns
    <3>4. c \in Abstract!Holders \ ClosedConns
      BY <2>1, <3>1 DEF Abstract!Holders, ClosedConns
    <3>5. Abstract!Tell(c)
      BY <3>2, <3>3, <3>4
         DEF Abstract!Tell, AnsweredConns, ClosedConns
    <3> QED
      BY <3>5 DEF Abstract!RegistryNext
  <2>2. CASE link[c] # "up"
    BY <1>2, <2>2 DEF WriteTable, AnsweredConns, ClosedConns
  <2> QED
    BY <2>1, <2>2
<1>3. ASSUME NEW c \in Conn, Refuse(c) PROVE Step
  <2>1. \A r \in RouteId : sessions[r] # c
    BY <1>3 DEF Refuse, NoOrphanSession, HandlersInStep
  <2>2. link' = [link EXCEPT ![c] = "closed"] /\ UNCHANGED <<sessions, acked>>
    BY <1>3 DEF Refuse
  <2> QED
    BY <1>hang, <2>1, <2>2
<1>4. ASSUME NEW c \in Conn, ReadError(c) PROVE Step \/ Same
  <2>1. CASE routeId[c] = NoId
    <3>1. \A r \in RouteId : sessions[r] # c
      BY <2>1 DEF NoOrphanSession
    <3>2. /\ link' = [link EXCEPT ![c] = "closed"]
          /\ UNCHANGED <<sessions, acked>>
      BY <1>4, <2>1 DEF ReadError
    <3> QED
      BY <1>hang, <3>1, <3>2
  <2>2. CASE routeId[c] # NoId
    BY <1>4, <2>2 DEF ReadError, AnsweredConns, ClosedConns
  <2> QED
    BY <2>1, <2>2
<1>5. ASSUME NEW c \in Conn, HandlerRemove(c) PROVE Step
  <2>1. routeId[c] \in RouteId
    BY <1>5 DEF HandlerRemove, HandlersInStep
  <2>2. CASE sessions[routeId[c]] # NoConn
    BY <1>5, <1>free, <2>1, <2>2 DEF HandlerRemove
  <2>3. CASE sessions[routeId[c]] = NoConn
    BY <1>5, <1>hang, <2>1, <2>3
       DEF HandlerRemove, Delete, NoOrphanSession
  <2> QED
    BY <2>2, <2>3
<1>6. ASSUME NEW c \in Conn, HandlerNotify(c) PROVE Step
  BY <1>6, <1>hang DEF HandlerNotify, NoOrphanSession
<1>7. CASE CheckRemove
  BY <1>7, <1>free DEF CheckRemove
<1>8. CASE UNCHANGED <<sessions, acked>> /\ ClosedConns' = ClosedConns
  BY <1>8 DEF AnsweredConns
<1>9. ASSUME NEW c \in Conn, Accept(c) \/ PeerClose(c) \/ Vanish(c)
      PROVE  UNCHANGED <<sessions, acked>> /\ ClosedConns' = ClosedConns
  BY <1>9 DEF Accept, PeerClose, Vanish, ClosedConns
<1>10. \/ UNCHANGED <<sessions, acked, link>>
       \/ CheckRemove
       \/ \E c \in Conn :
            \/ UpsertSession(c) \/ WriteTable(c) \/ Refuse(c) \/ ReadError(c)
            \/ HandlerRemove(c) \/ HandlerNotify(c)
            \/ Accept(c) \/ PeerClose(c) \/ Vanish(c)
  BY DEF Next, HandlerStep, CheckerStep, Shutdown, CheckCollect, CheckNotify,
         ReadHeartbeat, ReadData, ReadIgnored, ReadMessage,
         GetAllRouteNodeList, GetSession, WriteTarget, Expire, vars
<1> QED
  BY <1>1, <1>2, <1>3, <1>4, <1>5, <1>6, <1>7, <1>8, <1>9, <1>10
     DEF ClosedConns

\* The server implements the registry, for any sets of connections and ids.
THEOREM CenterIsRegistry == Spec => ImplementsRegistry
  BY InitRefines, StepRefines, Invariance, PTL
     DEF Spec, ImplementsRegistry, Abstract!RegistrySpec

-----------------------------------------------------------------------------
(* RouteSync: what the steps carry does not change them.                   *)

\* Every step that carries a list or a notice is a step of the server.
LEMMA StepIsCenterStep == [SyncNext]_<<vars, syncVars>> => [Next]_vars
<1> SUFFICES ASSUME SyncNext PROVE Next
  BY DEF vars
<1>1. CASE SyncCheckerStep
  BY <1>1 DEF SyncCheckerStep, SyncCheckNotify, CheckerStep, Next
<1>2. ASSUME NEW c \in Conn, SyncHandlerStep(c) PROVE Next
  <2>1. HandlerStep(c)
    BY <1>2 DEF SyncHandlerStep, SyncList, SyncWriteTable, SyncHandlerNotify,
                SilentStep, HandlerStep
  <2> QED
    BY <2>1 DEF Next
<1>3. ASSUME NEW c \in Conn,
             \/ SyncAccept(c) \/ SyncReadHeartbeat(c) \/ ReadIgnored(c)
             \/ PeerClose(c) \/ Vanish(c)
      PROVE  Next
  BY <1>3 DEF SyncAccept, SyncReadHeartbeat, Next
<1>4. ASSUME NEW r \in RouteId, SyncExpire(r) PROVE Next
  BY <1>4 DEF SyncExpire, Next
<1> QED
  BY <1>1, <1>2, <1>3, <1>4 DEF SyncNext

\* The Router Center that is seen sending route lists is the Router Center:
\* what is proved of Spec, the registry included, holds of SyncSpec.
THEOREM SyncIsCenter == SyncSpec => Spec /\ ImplementsRegistry
<1>1. SyncInit => Init
  BY DEF SyncInit
<1>2. SyncSpec => Spec
  BY <1>1, StepIsCenterStep, PTL DEF SyncSpec, Spec
<1> QED
  BY <1>2, CenterIsRegistry, PTL

\* The lists a handler is about to write and the tables of the clients.
Carried ==
  /\ snapshot \in [Conn -> SUBSET RouteId]
  /\ table \in [Conn -> SUBSET RouteId]

\* A list is made of registered ids, a table of lists that were written and
\* of the table that the same process had before.
LEMMA StepCarried ==
  Carried /\ [SyncNext]_<<vars, syncVars>> => Carried'
<1> SUFFICES ASSUME Carried, [SyncNext]_<<vars, syncVars>> PROVE Carried'
  OBVIOUS
<1> USE DEF Carried
<1>1. CASE UNCHANGED syncVars
  BY <1>1 DEF syncVars
<1>2. ASSUME NEW c \in Conn, SyncAccept(c) PROVE Carried'
  BY <1>2 DEF SyncAccept, Inherited
<1>3. ASSUME NEW c \in Conn, SyncList(c) PROVE Carried'
  BY <1>3 DEF SyncList, Registered
<1>4. ASSUME NEW c \in Conn, SyncWriteTable(c) PROVE Carried'
  BY <1>4 DEF SyncWriteTable
<1>5. ASSUME NEW ids, NotifyAlive(ids), UNCHANGED snapshot PROVE Carried'
  BY <1>5 DEF NotifyAlive
<1>6. \/ UNCHANGED syncVars
      \/ SyncCheckNotify
      \/ \E c \in Conn : \/ SyncAccept(c) \/ SyncList(c) \/ SyncWriteTable(c)
                         \/ SyncHandlerNotify(c)
  BY DEF SyncNext, SyncCheckerStep, SyncHandlerStep, SyncReadHeartbeat,
         SyncExpire
<1> QED
  BY <1>1, <1>2, <1>3, <1>4, <1>5, <1>6
     DEF SyncCheckNotify, SyncHandlerNotify

\* Lists and tables hold route ids, whichever handler lists, writes or
\* notifies while another removes.
THEOREM SyncTypeCorrect == SyncSpec => []SyncTypeOK
<1>1. SyncInit => Carried
  BY DEF SyncInit, Carried
<1>2. SyncSpec => []Carried
  BY <1>1, StepCarried, PTL DEF SyncSpec
<1>3. TypeOK /\ Carried => SyncTypeOK
  BY DEF SyncTypeOK, Carried
<1> QED
  BY <1>2, <1>3, SyncIsCenter, TypeCorrect, PTL

=============================================================================
