---------------------------- MODULE RouterClient ----------------------------
(***************************************************************************)
(* The connection of a client to the Router Center, and the goroutines     *)
(* that keep it up: the caller of Start, the background reconnecter, and   *)
(* for every connection made a heartbeat loop and a read loop; a caller of *)
(* Send and a caller of Shutdown.  They share three atomic flags and the   *)
(* field c.conn, which closeConn and the writers access under writeMu and  *)
(* tryConnect, readLoop and sendHeartbeat's first test without it.         *)
(*                                                                         *)
(* One action is one access to that state.  Connections are numbered in    *)
(* the order in which they are made; at most MaxDial are.  An access to    *)
(* c.conn that races with its assignment gets the old value or the new.    *)
(***************************************************************************)
EXTENDS Naturals

CONSTANTS MaxDial,  \* bound: successful dials in a behaviour
          Sending   \* whether the application calls Send

ASSUME MaxDialAssumption == MaxDial \in Nat \ {0}
ASSUME SendingAssumption == Sending \in BOOLEAN

Sock == 1..MaxDial
Nil == 0  \* c.conn == nil

main == <<"main", 0>>  \* the goroutine that calls Start
rec  == <<"rec", 0>>   \* the goroutine of startBackgroundReconnect
send == <<"send", 0>>  \* a goroutine that calls Send, again and again
stop == <<"stop", 0>>  \* the goroutine that calls Shutdown
hb(k) == <<"hb", k>>   \* the heartbeat loop started with connection k
rd(k) == <<"rd", k>>   \* the read loop started with connection k

Dialer == {main, rec}
HbLoop == {hb(k) : k \in Sock}
RdLoop == {rd(k) : k \in Sock}
Thread == Dialer \cup {send, stop} \cup HbLoop \cup RdLoop

VARIABLES
  needConnect, isOpen, reconnectAttempt,  \* the atomic flags
  stopped,   \* stopCh is closed
  conn,      \* c.conn
  link,      \* the sockets
  dialed,    \* successful dials so far
  reading,   \* the socket a read loop is blocked on
  pc,        \* where each goroutine is
  crashed    \* a nil c.conn was used: the panic ends the process

flags == <<needConnect, isOpen, reconnectAttempt>>
vars == <<needConnect, isOpen, reconnectAttempt, stopped, conn, link, dialed,
          reading, pc, crashed>>

\* NewClientByConfig, before Start.
Init ==
  /\ needConnect = FALSE
  /\ isOpen = FALSE
  /\ reconnectAttempt = FALSE
  /\ stopped = FALSE
  /\ conn = Nil
  /\ link = [k \in Sock |-> "none"]
  /\ dialed = 0
  /\ reading = [k \in Sock |-> Nil]
  /\ pc = [t \in Thread |-> "idle"]
  /\ crashed = FALSE

At(t, p) == ~crashed /\ pc[t] = p

Goto(t, p) == pc' = [pc EXCEPT ![t] = p]

\* The connection a dialer has made: Start dials before anyone else.
Own(t) == IF t = main THEN 1 ELSE dialed

\* Variant: the field is cleared and the socket is not closed.
CloseConn_Forget ==
  /\ conn' = Nil
  /\ UNCHANGED link

\* Close the socket in c.conn, if any, and clear the field; under writeMu.
CloseConn ==
  /\ conn' = Nil
  /\ link' = [k \in Sock |-> IF k = conn THEN "closed" ELSE link[k]]

Panic ==
  /\ crashed' = TRUE
  /\ UNCHANGED <<flags, stopped, conn, link, dialed, reading, pc>>

-----------------------------------------------------------------------------
(* Start, runRouterClient and the loop of startBackgroundReconnect.        *)

Start ==
  /\ At(main, "idle")
  /\ ~needConnect
  /\ needConnect' = TRUE
  /\ Goto(main, "dial")
  /\ UNCHANGED <<isOpen, reconnectAttempt, stopped, conn, link, dialed,
                 reading, crashed>>

\* Variant: an early return that skips the deferred Store(false).
ReconnectTop_NoDefer ==
  /\ At(rec, "top")
  /\ Goto(rec, IF needConnect THEN "test" ELSE "idle")
  /\ UNCHANGED <<flags, stopped, conn, link, dialed, reading, crashed>>

ReconnectTop ==
  /\ At(rec, "top")
  /\ Goto(rec, IF needConnect THEN "test" ELSE "clear")
  /\ UNCHANGED <<flags, stopped, conn, link, dialed, reading, crashed>>

ReconnectTest ==
  /\ At(rec, "test")
  /\ Goto(rec, IF isOpen THEN "wait" ELSE "dial")
  /\ UNCHANGED <<flags, stopped, conn, link, dialed, reading, crashed>>

\* The delay of nextReconnectDelay passes.
ReconnectWait ==
  /\ At(rec, "wait")
  /\ Goto(rec, "top")
  /\ UNCHANGED <<flags, stopped, conn, link, dialed, reading, crashed>>

ReconnectStop ==
  /\ At(rec, "wait")
  /\ stopped
  /\ Goto(rec, "clear")
  /\ UNCHANGED <<flags, stopped, conn, link, dialed, reading, crashed>>

\* The deferred reconnectAttempt.Store(false).
ReconnectClear ==
  /\ At(rec, "clear")
  /\ reconnectAttempt' = FALSE
  /\ Goto(rec, "idle")
  /\ UNCHANGED <<needConnect, isOpen, stopped, conn, link, dialed, reading,
                 crashed>>

DialFails(t) ==
  /\ At(t, "dial")
  /\ Goto(t, IF t = main THEN "need" ELSE "wait")
  /\ UNCHANGED <<flags, stopped, conn, link, dialed, reading, crashed>>

DialSucceeds(t) ==
  /\ At(t, "dial")
  /\ dialed < MaxDial
  /\ dialed' = dialed + 1
  /\ link' = [link EXCEPT ![dialed + 1] = "up"]
  /\ Goto(t, "swap")
  /\ UNCHANGED <<flags, stopped, conn, reading, crashed>>

\* closeConn in tryConnect.
DropOld(t) ==
  /\ At(t, "swap")
  /\ CloseConn
  /\ Goto(t, "assign")
  /\ UNCHANGED <<flags, stopped, dialed, reading, crashed>>

Assign(t) ==
  /\ At(t, "assign")
  /\ conn' = Own(t)
  /\ Goto(t, "open")
  /\ UNCHANGED <<flags, stopped, link, dialed, reading, crashed>>

Open(t) ==
  /\ At(t, "open")
  /\ isOpen' = TRUE
  /\ Goto(t, "beat")
  /\ UNCHANGED <<needConnect, reconnectAttempt, stopped, conn, link, dialed,
                 reading, crashed>>

\* go func() in startHeartbeat.
SpawnHeartbeat(t) ==
  /\ At(t, "spawnHb")
  /\ pc' = [pc EXCEPT ![t] = "spawnRd", ![hb(Own(t))] = "check"]
  /\ UNCHANGED <<flags, stopped, conn, link, dialed, reading, crashed>>

\* go c.readLoop().
SpawnReadLoop(t) ==
  /\ At(t, "spawnRd")
  /\ pc' = [pc EXCEPT ![t] = IF t = main THEN "done" ELSE "clear",
                      ![rd(Own(t))] = "read"]
  /\ UNCHANGED <<flags, stopped, conn, link, dialed, reading, crashed>>

-----------------------------------------------------------------------------
(* sendHeartbeat: the first one by the dialer, which drops the result, the *)
(* others by the loop.                                                     *)

HbCheck(t) ==
  /\ t \in HbLoop
  /\ At(t, "check")
  /\ Goto(t, IF isOpen THEN "wait" ELSE "done")
  /\ UNCHANGED <<flags, stopped, conn, link, dialed, reading, crashed>>

HbWait(t) ==
  /\ t \in HbLoop
  /\ At(t, "wait")
  /\ Goto(t, "beat")
  /\ UNCHANGED <<flags, stopped, conn, link, dialed, reading, crashed>>

HbStop(t) ==
  /\ t \in HbLoop
  /\ At(t, "wait")
  /\ stopped
  /\ Goto(t, "done")
  /\ UNCHANGED <<flags, stopped, conn, link, dialed, reading, crashed>>

\* Variant: the loop ends on a failed write without reporting the loss.
AfterBeat_Quiet(t, ok) ==
  CASE t \in Dialer -> "spawnHb"
    [] t \in HbLoop -> IF ok THEN "check" ELSE "done"

AfterBeat(t, ok) ==
  CASE t \in Dialer -> "spawnHb"
    [] t \in HbLoop -> IF ok THEN "check" ELSE "lost"

\* The test of c.conn before the lock is taken.
BeatTest(t) ==
  /\ At(t, "beat")
  /\ Goto(t, IF conn = Nil THEN AfterBeat(t, FALSE) ELSE "write")
  /\ UNCHANGED <<flags, stopped, conn, link, dialed, reading, crashed>>

\* A write to a socket whose peer is gone may still be accepted.
WriteOutcome(k) ==
  CASE link[k] = "up" -> {TRUE}
    [] link[k] = "dead" -> BOOLEAN
    [] link[k] = "closed" -> {FALSE}

\* c.conn.Write under the lock; c.conn may have become nil since the test.
BeatWrite(t) ==
  /\ At(t, "write")
  /\ \/ conn = Nil /\ Panic
     \/ /\ conn # Nil
        /\ \E ok \in WriteOutcome(conn) : Goto(t, AfterBeat(t, ok))
        /\ UNCHANGED <<flags, stopped, conn, link, dialed, reading, crashed>>

-----------------------------------------------------------------------------
(* readLoop.                                                               *)

\* core.ReadFrame(c.conn) evaluates c.conn, without the lock.
ReadEnter(k) ==
  /\ At(rd(k), "read")
  /\ \/ conn = Nil /\ Panic
     \/ /\ conn # Nil
        /\ reading' = [reading EXCEPT ![k] = conn]
        /\ Goto(rd(k), "reading")
        /\ UNCHANGED <<flags, stopped, conn, link, dialed, crashed>>

\* A frame that handleMessage takes care of, or that does not decode.
ReadFrame(k) ==
  /\ At(rd(k), "reading")
  /\ link[reading[k]] = "up"
  /\ reading' = [reading EXCEPT ![k] = Nil]
  /\ Goto(rd(k), "read")
  /\ UNCHANGED <<flags, stopped, conn, link, dialed, crashed>>

\* A SystemError that reports a conflict of ids, or a read error.
ReadLost(k) ==
  /\ At(rd(k), "reading")
  /\ reading' = [reading EXCEPT ![k] = Nil]
  /\ Goto(rd(k), "lost")
  /\ UNCHANGED <<flags, stopped, conn, link, dialed, crashed>>

-----------------------------------------------------------------------------
(* Send: IsConnected, then a write under the lock.                         *)

SendTest ==
  /\ At(send, "idle")
  /\ Sending
  /\ isOpen /\ conn # Nil
  /\ Goto(send, "write")
  /\ UNCHANGED <<flags, stopped, conn, link, dialed, reading, crashed>>

SendWrite ==
  /\ At(send, "write")
  /\ \E ok \in IF conn = Nil THEN {TRUE} ELSE WriteOutcome(conn) :
       Goto(send, IF ok THEN "idle" ELSE "lost")
  /\ UNCHANGED <<flags, stopped, conn, link, dialed, reading, crashed>>

-----------------------------------------------------------------------------
(* onConnectionLost and the entry of startBackgroundReconnect.             *)

Return(t) == IF t = send THEN "idle" ELSE "done"

Lost(t) ==
  /\ At(t, "lost")
  /\ Goto(t, IF needConnect THEN "flag" ELSE Return(t))
  /\ UNCHANGED <<flags, stopped, conn, link, dialed, reading, crashed>>

LostFlag(t) ==
  /\ At(t, "flag")
  /\ isOpen' = FALSE
  /\ Goto(t, "close")
  /\ UNCHANGED <<needConnect, reconnectAttempt, stopped, conn, link, dialed,
                 reading, crashed>>

\* Variant: the loss is reported and the socket kept.
LostClose_Keep(t) ==
  /\ At(t, "close")
  /\ Goto(t, "need")
  /\ UNCHANGED <<flags, stopped, conn, link, dialed, reading, crashed>>

LostClose(t) ==
  /\ At(t, "close")
  /\ CloseConn
  /\ Goto(t, "need")
  /\ UNCHANGED <<flags, stopped, dialed, reading, crashed>>

LostNeed(t) ==
  /\ At(t, "need")
  /\ Goto(t, IF needConnect THEN "cas" ELSE Return(t))
  /\ UNCHANGED <<flags, stopped, conn, link, dialed, reading, crashed>>

\* The CompareAndSwap that lets one reconnecter run.
LostSpawn(t) ==
  /\ At(t, "cas")
  /\ reconnectAttempt' = TRUE
  /\ pc' = IF reconnectAttempt
             THEN [pc EXCEPT ![t] = Return(t)]
             ELSE [pc EXCEPT ![t] = Return(t), ![rec] = "top"]
  /\ UNCHANGED <<needConnect, isOpen, stopped, conn, link, dialed, reading,
                 crashed>>

-----------------------------------------------------------------------------
(* Shutdown, called once, after Start has returned.                        *)

ShutdownNeed ==
  /\ At(stop, "idle")
  /\ At(main, "done")
  /\ needConnect' = FALSE
  /\ Goto(stop, "flag")
  /\ UNCHANGED <<isOpen, reconnectAttempt, stopped, conn, link, dialed,
                 reading, crashed>>

\* Variant: stopCh is not closed.
ShutdownSignal_None ==
  /\ At(stop, "signal")
  /\ Goto(stop, "close")
  /\ UNCHANGED <<flags, stopped, conn, link, dialed, reading, crashed>>

ShutdownSignal ==
  /\ At(stop, "signal")
  /\ stopped' = TRUE
  /\ Goto(stop, "close")
  /\ UNCHANGED <<flags, conn, link, dialed, reading, crashed>>

ShutdownFlag ==
  /\ At(stop, "flag")
  /\ isOpen' = FALSE
  /\ Goto(stop, "signal")
  /\ UNCHANGED <<needConnect, reconnectAttempt, stopped, conn, link, dialed,
                 reading, crashed>>

ShutdownClose ==
  /\ At(stop, "close")
  /\ CloseConn
  /\ Goto(stop, "done")
  /\ UNCHANGED <<flags, stopped, dialed, reading, crashed>>

\* The peer, or the network, ends a connection.
PeerLost(k) ==
  /\ ~crashed
  /\ link[k] = "up"
  /\ link' = [link EXCEPT ![k] = "dead"]
  /\ UNCHANGED <<flags, stopped, conn, dialed, reading, pc, crashed>>

-----------------------------------------------------------------------------
LostStep(t) == Lost(t) \/ LostFlag(t) \/ LostClose(t) \/ LostNeed(t)
                 \/ LostSpawn(t)

DialStep(t) ==
  \/ DialFails(t) \/ DialSucceeds(t) \/ DropOld(t) \/ Assign(t) \/ Open(t)
  \/ SpawnHeartbeat(t) \/ SpawnReadLoop(t)

BeatStep(t) ==
  HbCheck(t) \/ HbWait(t) \/ HbStop(t) \/ BeatTest(t) \/ BeatWrite(t)

ReconnectStep ==
  \/ ReconnectTop \/ ReconnectTest \/ ReconnectWait \/ ReconnectStop
  \/ ReconnectClear

ReadStep(k) == ReadEnter(k) \/ ReadFrame(k) \/ ReadLost(k)

ShutdownStep == ShutdownNeed \/ ShutdownFlag \/ ShutdownSignal \/ ShutdownClose

Losing == HbLoop \cup RdLoop \cup {send}

Next ==
  \/ Start
  \/ ReconnectStep
  \/ \E t \in Dialer : DialStep(t)
  \/ \E t \in Dialer \cup HbLoop : BeatStep(t)
  \/ \E k \in Sock : ReadStep(k)
  \/ SendTest \/ SendWrite
  \/ \E t \in Losing : LostStep(t)
  \/ LostNeed(main) \/ LostSpawn(main)
  \/ ShutdownStep
  \/ \E k \in Sock : PeerLost(k)

Spec == Init /\ [][Next]_vars

\* Goroutines are scheduled and timers fire; a read returns once the socket
\* is dead or closed; a select that finds stopCh closed again and again does
\* not go on preferring the timer.  Nobody has to call Send or Shutdown, no
\* dial has to succeed and no frame has to arrive.
Fairness ==
  /\ WF_vars(ReconnectStep) /\ SF_vars(ReconnectStop)
  /\ \A t \in Dialer : WF_vars(DialStep(t)) /\ WF_vars(LostStep(t))
  /\ \A t \in Dialer \cup HbLoop : WF_vars(BeatStep(t))
  /\ \A t \in HbLoop : SF_vars(HbStop(t))
  /\ \A t \in Losing : WF_vars(LostStep(t))
  /\ \A k \in Sock :
       /\ WF_vars(ReadEnter(k))
       /\ WF_vars(ReadLost(k) /\ link[reading[k]] # "up")
  /\ WF_vars(ShutdownFlag \/ ShutdownSignal \/ ShutdownClose)

FairSpec == Spec /\ Fairness

-----------------------------------------------------------------------------
(* Properties.                                                             *)

\* The values the client's fields and its goroutines range over.
TypeOK ==
  /\ needConnect \in BOOLEAN /\ isOpen \in BOOLEAN
  /\ reconnectAttempt \in BOOLEAN /\ stopped \in BOOLEAN
  /\ crashed \in BOOLEAN
  /\ conn \in Sock \cup {Nil}
  /\ link \in [Sock -> {"none", "up", "dead", "closed"}]
  /\ dialed \in 0..MaxDial
  /\ reading \in [Sock -> Sock \cup {Nil}]
  /\ \A k \in Sock : pc[rd(k)] = "reading" => reading[k] # Nil
  /\ pc \in [Thread -> {"idle", "top", "test", "dial", "swap", "assign",
                        "open", "beat", "write", "spawnHb", "spawnRd",
                        "clear", "check", "wait", "read", "reading", "lost",
                        "flag", "close", "need", "cas", "signal", "done"}]

\* However many goroutines report the same loss, and however late, a socket
\* the client has open is the one in c.conn or in the hands of the one
\* goroutine that has just dialed it: reconnecting leaks none.
NoLeakedSocket ==
  \A k \in Sock : link[k] \in {"up", "dead"} =>
    \/ conn = k
    \/ \E t \in Dialer : pc[t] \in {"swap", "assign"} /\ Own(t) = k

Connecting(t) == pc[t] \in {"beat", "write", "spawnHb", "spawnRd"}

\* While isOpen is set, a heartbeat loop and a read loop are at work that
\* have not yet reported a loss, or the goroutine that set it is about to
\* start them: the client never believes in a connection nobody looks at.
OpenIsWatched ==
  isOpen /\ ~crashed /\ needConnect =>
    /\ \/ \E t \in HbLoop :
            pc[t] \in {"check", "wait", "beat", "write", "lost", "flag"}
       \/ \E t \in Dialer : Connecting(t) /\ pc[t] # "spawnRd"
    /\ \/ \E t \in RdLoop : pc[t] \in {"read", "reading", "lost", "flag"}
       \/ \E t \in Dialer : Connecting(t)

\* A goroutine that sees reconnectAttempt set and returns leaves the work to
\* a reconnecter that exists; one that clears it is the last one running.
OneReconnecter == reconnectAttempt <=> pc[rec] # "idle"

\* A connection that dies is noticed and its socket closed, unless the
\* client is shut down or the process has panicked.
DeadIsNoticed ==
  \A k \in Sock :
    (conn = k /\ link[k] = "dead")
      ~> (link[k] = "closed" \/ crashed \/ ~needConnect)

\* Shutdown ends the goroutines that would keep the client registered, also
\* when it races with a reconnect that sets isOpen again afterwards.
ShutdownStopsHeartbeats ==
  (pc[stop] = "done")
    ~> (crashed \/ /\ pc[rec] = "idle"
                   /\ \A t \in HbLoop : pc[t] \in {"idle", "done"})

\* What client_reconnect_test.go:134 calls the core assertion, that the
\* client does not crash when its connection is lost or refused.
NoCrash == ~crashed

=============================================================================
