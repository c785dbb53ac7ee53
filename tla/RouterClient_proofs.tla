------------------------ MODULE RouterClient_proofs -------------------------
(***************************************************************************)
(* Proofs about the connection of a client, for any number of dials.       *)
(*                                                                         *)
(* Until Start has set isOpen no other goroutine runs (Early); after that  *)
(* only the reconnecter dials, and there is one.  So at most one goroutine *)
(* is between its dial and its assignment of c.conn, and c.conn is nil     *)
(* just before the assignment, whoever reports a loss meanwhile.           *)
(***************************************************************************)
EXTENDS RouterClient, TLAPS

-----------------------------------------------------------------------------
(* The invariant.                                                          *)

Early == pc[main] \in {"idle", "dial", "swap", "assign", "open"}

\* Before Start has set isOpen.
EarlyInv ==
  Early =>
    /\ ~isOpen
    /\ pc[rec] = "idle" /\ pc[send] = "idle" /\ pc[stop] = "idle"
    /\ \A k \in Sock : pc[hb(k)] = "idle" /\ pc[rd(k)] = "idle"

DialInv ==
  /\ pc[main] \in {"idle", "dial"} => dialed = 0
  /\ pc[main] \in {"swap", "assign", "open"} => dialed = 1
  /\ pc[rec] \in {"swap", "assign", "open", "beat", "write", "spawnHb",
                  "spawnRd"} => dialed > 0
  /\ \A k \in Sock : k > dialed => link[k] = "none"
  /\ conn <= dialed
  /\ pc[main] = "assign" \/ pc[rec] = "assign" => conn = Nil

StopInv ==
  /\ pc[stop] # "idle" => ~needConnect
  /\ stopped => pc[stop] # "idle"

IInv ==
  /\ TypeOK /\ EarlyInv /\ DialInv /\ StopInv
  /\ NoLeakedSocket /\ OpenIsWatched /\ OneReconnecter

\* The goroutines are different ones.
LEMMA Threads ==
  /\ main # rec /\ main # send /\ main # stop
  /\ rec # send /\ rec # stop /\ send # stop
  /\ \A k \in Sock :
       /\ hb(k) \notin {main, rec, send, stop}
       /\ rd(k) \notin {main, rec, send, stop}
  /\ \A j, k \in Sock : hb(j) # rd(k)
  /\ \A j, k \in Sock : (hb(j) = hb(k) => j = k) /\ (rd(j) = rd(k) => j = k)
  /\ Thread = {main, rec, send, stop} \cup HbLoop \cup RdLoop
  /\ \A k \in Sock : hb(k) \in Thread /\ rd(k) \in Thread
  BY DEF main, rec, send, stop, hb, rd, Thread, Dialer, HbLoop, RdLoop

-----------------------------------------------------------------------------
(* Types.                                                                  *)

Place == {"idle", "top", "test", "dial", "swap", "assign", "open", "beat",
          "write", "spawnHb", "spawnRd", "clear", "check", "wait", "read",
          "reading", "lost", "flag", "close", "need", "cas", "signal", "done"}

FlagsOK ==
  /\ needConnect \in BOOLEAN /\ isOpen \in BOOLEAN
  /\ reconnectAttempt \in BOOLEAN /\ stopped \in BOOLEAN
  /\ crashed \in BOOLEAN

DataOK ==
  /\ conn \in Sock \cup {Nil}
  /\ link \in [Sock -> {"none", "up", "dead", "closed"}]
  /\ dialed \in 0..MaxDial
  /\ reading \in [Sock -> Sock \cup {Nil}]
  /\ \A k \in Sock : pc[rd(k)] = "reading" => reading[k] # Nil
  /\ pc \in [Thread -> Place]

LEMMA TypeParts == (TypeOK <=> FlagsOK /\ DataOK) /\ (TypeOK' <=> FlagsOK' /\ DataOK')
  BY Zenon DEF TypeOK, FlagsOK, DataOK, Place

LEMMA InitIInv == Init => IInv
<1> SUFFICES ASSUME Init PROVE IInv
  OBVIOUS
<1> USE Threads, MaxDialAssumption DEF Init
<1>1. \A t \in Thread : pc[t] = "idle"
  OBVIOUS
<1>2. FlagsOK
  BY Zenon DEF FlagsOK
<1>3. DataOK
  BY <1>1 DEF DataOK, Sock, Nil, Place
<1>4. EarlyInv /\ DialInv /\ StopInv
  BY <1>1 DEF EarlyInv, DialInv, StopInv, Sock, Nil
<1>5. NoLeakedSocket /\ OpenIsWatched /\ OneReconnecter
  BY <1>1 DEF NoLeakedSocket, OpenIsWatched, OneReconnecter
<1> QED
  BY <1>2, <1>3, <1>4, <1>5, TypeParts DEF IInv

-----------------------------------------------------------------------------
(* Steps that only move a goroutine.                                       *)

Owning == {"swap", "assign", "open", "beat", "write", "spawnHb", "spawnRd"}

LEMMA MoveKeeps ==
  ASSUME IInv, NEW t \in Thread \ {stop}, NEW p \in Place,
         pc' = [pc EXCEPT ![t] = p],
         UNCHANGED <<needConnect, isOpen, reconnectAttempt, stopped, conn,
                     link, dialed>>,
         Early => t = main,
         p \notin {"idle", "swap", "assign", "open"} \/ t \notin Dialer,
         t = main => p # "dial",
         t \in Dialer => pc[t] \notin {"swap", "assign"},
         t = rec => pc[t] # "idle" /\ (p \in Owning => pc[t] \in Owning)
  PROVE  EarlyInv' /\ DialInv' /\ StopInv' /\ NoLeakedSocket'
         /\ OneReconnecter'
<1> USE Threads
<1>0. /\ pc \in [Thread -> Place] /\ dialed \in 0..MaxDial
      /\ EarlyInv /\ DialInv /\ StopInv /\ NoLeakedSocket /\ OneReconnecter
  BY TypeParts DEF IInv, DataOK
<1>1. EarlyInv'
  BY <1>0 DEF EarlyInv, Early, Dialer
<1>2. DialInv'
  BY <1>0 DEF DialInv, Owning, Dialer
<1>3. StopInv'
  BY <1>0 DEF StopInv
<1>4. NoLeakedSocket'
  BY <1>0 DEF NoLeakedSocket, Dialer, Own
<1>5. OneReconnecter'
  BY <1>0 DEF OneReconnecter, Dialer
<1> QED
  BY <1>1, <1>2, <1>3, <1>4, <1>5

\* The watch over an open connection is kept if a goroutine that is part of
\* it stays part of it, or isOpen is or becomes false, or Shutdown has begun.
HbAlive == {"check", "wait", "beat", "write", "lost", "flag"}

RdAlive == {"read", "reading", "lost", "flag"}

LEMMA WatchKept ==
  ASSUME OpenIsWatched, NEW t \in Thread, NEW p \in Place,
         pc \in [Thread -> Place], pc' = [pc EXCEPT ![t] = p],
         isOpen' = isOpen, needConnect' = needConnect, crashed' = crashed,
         t \in HbLoop /\ pc[t] \in HbAlive => p \in HbAlive \/ ~isOpen \/ ~needConnect,
         t \in RdLoop /\ pc[t] \in RdAlive => p \in RdAlive \/ ~isOpen \/ ~needConnect,
         t \in Dialer /\ Connecting(t) => p \in {"beat", "write", "spawnHb"}
  PROVE  OpenIsWatched'
<1> USE Threads DEF HbAlive, RdAlive
<1> SUFFICES ASSUME isOpen, ~crashed, needConnect
             PROVE  /\ \/ \E u \in HbLoop : pc'[u] \in HbAlive
                       \/ \E u \in Dialer : pc'[u] \in {"beat", "write", "spawnHb"}
                    /\ \/ \E u \in RdLoop : pc'[u] \in RdAlive
                       \/ \E u \in Dialer : pc'[u] \in {"beat", "write", "spawnHb", "spawnRd"}
  BY DEF OpenIsWatched, Connecting
<1>1. /\ \/ \E u \in HbLoop : pc[u] \in HbAlive
         \/ \E u \in Dialer : pc[u] \in {"beat", "write", "spawnHb"}
      /\ \/ \E u \in RdLoop : pc[u] \in RdAlive
         \/ \E u \in Dialer : pc[u] \in {"beat", "write", "spawnHb", "spawnRd"}
  BY DEF OpenIsWatched, Connecting
<1>2. \A u \in HbLoop \cup RdLoop \cup Dialer :
        u \in Thread /\ pc'[u] = IF u = t THEN p ELSE pc[u]
  BY DEF Dialer
<1> QED
  BY <1>1, <1>2 DEF Connecting

\* A loop with an open connection, or one that is ending, moves on.
LEMMA LoopMoves ==
  ASSUME IInv, NEW t \in HbLoop \cup RdLoop \cup {send}, NEW p \in Place,
         pc[t] # "idle" \/ isOpen,
         pc' = [pc EXCEPT ![t] = p], DataOK',
         UNCHANGED <<needConnect, isOpen, reconnectAttempt, stopped, conn,
                     link, dialed, crashed>>,
         t \in HbLoop /\ pc[t] \in HbAlive => p \in HbAlive \/ ~isOpen \/ ~needConnect,
         t \in RdLoop /\ pc[t] \in RdAlive => p \in RdAlive \/ ~isOpen \/ ~needConnect
  PROVE  IInv'
<1> USE Threads
<1>1. t \in Thread \ {stop} /\ t \notin Dialer
  BY DEF Dialer, HbLoop, RdLoop
<1>2. ~Early
  BY DEF IInv, EarlyInv, HbLoop, RdLoop
<1>3. EarlyInv' /\ DialInv' /\ StopInv' /\ NoLeakedSocket' /\ OneReconnecter'
  BY <1>1, <1>2, MoveKeeps DEF Dialer
<1>4. pc \in [Thread -> Place] /\ OpenIsWatched
  BY TypeParts DEF IInv, DataOK
<1>5. OpenIsWatched'
  BY <1>1, <1>4, WatchKept
<1>6. FlagsOK'
  BY TypeParts, Zenon DEF IInv, FlagsOK
<1> QED
  BY <1>3, <1>5, <1>6, TypeParts DEF IInv

\* The types after a move that leaves reading alone.
LEMMA MoveTypes ==
  ASSUME DataOK, NEW t \in Thread, NEW p \in Place, p # "reading",
         pc' = [pc EXCEPT ![t] = p],
         UNCHANGED <<conn, link, dialed, reading>>
  PROVE  DataOK'
  BY Threads DEF DataOK

\* A panic changes nothing else.
LEMMA PanicKeeps == IInv /\ Panic => IInv'
<1> SUFFICES ASSUME IInv, Panic PROVE IInv'
  OBVIOUS
<1> USE DEF Panic, flags
<1>1. FlagsOK' /\ DataOK'
  <2>1. FlagsOK'
    BY TypeParts, Zenon DEF IInv, FlagsOK
  <2>2. DataOK'
    BY TypeParts DEF IInv, DataOK
  <2> QED
    BY <2>1, <2>2
<1>2. /\ EarlyInv' /\ DialInv' /\ StopInv' /\ NoLeakedSocket'
      /\ OpenIsWatched' /\ OneReconnecter'
  BY DEF IInv, EarlyInv, Early, DialInv, StopInv, NoLeakedSocket, Own,
         OpenIsWatched, OneReconnecter
<1> QED
  BY <1>1, <1>2, TypeParts DEF IInv

-----------------------------------------------------------------------------
(* The loops and Send.                                                     *)

LEMMA HeartbeatStep ==
  ASSUME IInv, NEW t \in HbLoop, BeatStep(t) PROVE IInv'
<1> USE Threads DEF At, Goto, flags, Place, HbAlive
<1>0. /\ t \in Thread /\ t \notin Dialer /\ t \notin RdLoop /\ DataOK
      /\ stopped => ~needConnect
  BY TypeParts DEF IInv, Dialer, HbLoop, RdLoop, StopInv
<1>1. CASE \E ok \in WriteOutcome(conn) :
             /\ pc[t] = "write" /\ pc' = [pc EXCEPT ![t] = AfterBeat(t, ok)]
             /\ UNCHANGED <<flags, stopped, conn, link, dialed, reading, crashed>>
  <2>1. PICK p \in {"check", "lost"} : pc' = [pc EXCEPT ![t] = p]
    BY <1>0, <1>1 DEF AfterBeat
  <2>2. DataOK'
    BY <1>0, <1>1, <2>1, MoveTypes
  <2> QED
    BY <1>0, <1>1, <2>1, <2>2, LoopMoves
<1>2. CASE Panic
  BY <1>2, PanicKeeps
<1>3. CASE HbCheck(t) \/ HbWait(t) \/ HbStop(t) \/ BeatTest(t)
  <2>1. PICK p \in {"wait", "done", "beat", "lost", "write"} :
          /\ pc' = [pc EXCEPT ![t] = p]
          /\ p = "done" => ~isOpen \/ stopped
    BY <1>0, <1>3 DEF HbCheck, HbWait, HbStop, BeatTest, AfterBeat
  <2>2. /\ pc[t] # "idle"
        /\ UNCHANGED <<flags, stopped, conn, link, dialed, reading, crashed>>
    BY <1>3 DEF HbCheck, HbWait, HbStop, BeatTest
  <2>3. DataOK'
    BY <1>0, <2>1, <2>2, MoveTypes
  <2> QED
    BY <1>0, <2>1, <2>2, <2>3, LoopMoves
<1> QED
  BY <1>1, <1>2, <1>3 DEF BeatStep, BeatWrite

LEMMA ReadLoopStep ==
  ASSUME IInv, NEW k \in Sock, ReadStep(k) PROVE IInv'
<1> USE Threads DEF At, Goto, flags, Place, RdAlive
<1>0. rd(k) \in RdLoop /\ rd(k) \notin HbLoop /\ rd(k) \in Thread /\ DataOK
  BY TypeParts DEF IInv, HbLoop, RdLoop
<1>1. CASE Panic
  BY <1>1, PanicKeeps
<1>2. CASE ~Panic
  <2>1. PICK p \in {"read", "reading", "lost"} : pc' = [pc EXCEPT ![rd(k)] = p]
    BY <1>2 DEF ReadStep, ReadEnter, ReadFrame, ReadLost
  <2>2. pc[rd(k)] \in {"read", "reading"}
    BY DEF ReadStep, ReadEnter, ReadFrame, ReadLost
  <2>3. UNCHANGED <<flags, stopped, conn, link, dialed, crashed>>
    BY <1>2 DEF ReadStep, ReadEnter, ReadFrame, ReadLost
  <2>4. \/ reading' = [reading EXCEPT ![k] = conn] /\ conn # Nil
        \/ reading' = [reading EXCEPT ![k] = Nil] /\ pc' # [pc EXCEPT ![rd(k)] = "reading"]
    BY <1>0, <1>2 DEF ReadStep, ReadEnter, ReadFrame, ReadLost, DataOK
  <2>5. DataOK'
    <3>1. pc' \in [Thread -> Place] /\ reading' \in [Sock -> Sock \cup {Nil}]
      BY <1>0, <2>1, <2>4 DEF DataOK
    <3>2. \A j \in Sock : j # k => /\ pc'[rd(j)] = pc[rd(j)]
                                  /\ reading'[j] = reading[j]
      BY <1>0, <2>1, <2>4 DEF DataOK
    <3>3. pc'[rd(k)] = "reading" => reading'[k] # Nil
      BY <1>0, <2>1, <2>4 DEF DataOK
    <3>4. \A j \in Sock : pc'[rd(j)] = "reading" => reading'[j] # Nil
      BY <1>0, <3>2, <3>3 DEF DataOK
    <3> QED
      BY <1>0, <2>3, <3>1, <3>4 DEF DataOK
  <2> QED
    BY <1>0, <2>1, <2>2, <2>3, <2>5, LoopMoves
<1> QED
  BY <1>1, <1>2

LEMMA SendStep ==
  ASSUME IInv, SendTest \/ SendWrite PROVE IInv'
<1> USE Threads DEF At, Goto, flags, Place
<1>0. send \notin RdLoop /\ send \notin HbLoop /\ DataOK /\ send \in Thread
  BY TypeParts DEF IInv, HbLoop, RdLoop
<1>1. PICK p \in {"write", "idle", "lost"} : pc' = [pc EXCEPT ![send] = p]
  BY DEF SendTest, SendWrite
<1>2. pc[send] # "idle" \/ isOpen
  BY DEF SendTest, SendWrite
<1>3. UNCHANGED <<flags, stopped, conn, link, dialed, reading, crashed>>
  BY DEF SendTest, SendWrite
<1>4. DataOK'
  BY <1>0, <1>1, <1>3, MoveTypes
<1> QED
  BY <1>0, <1>1, <1>2, <1>3, <1>4, LoopMoves

-----------------------------------------------------------------------------
(* onConnectionLost.                                                       *)

\* closeConn: no socket is left that was in the field.
LEMMA CloseKeeps ==
  ASSUME IInv, CloseConn, NEW t \in Thread \ Dialer, NEW p \in Place,
         p # "reading", pc[t] # "idle", p # "idle",
         pc' = [pc EXCEPT ![t] = p],
         t \in HbLoop \cup RdLoop => pc[t] = "close",
         UNCHANGED <<flags, stopped, dialed, reading, crashed>>
  PROVE  IInv'
<1> USE Threads DEF flags
<1>0. FlagsOK /\ DataOK /\ EarlyInv /\ DialInv /\ StopInv /\ NoLeakedSocket
      /\ OneReconnecter /\ OpenIsWatched
  BY TypeParts DEF IInv
<1>1. FlagsOK'
  BY <1>0, Zenon DEF FlagsOK
<1>2. DataOK'
  BY <1>0 DEF DataOK, CloseConn
<1>3. ~Early
  BY <1>0 DEF EarlyInv, HbLoop, RdLoop, Dialer
<1>4. EarlyInv'
  BY <1>0, <1>3 DEF EarlyInv, Early, DataOK, Dialer
<1>5. DialInv'
  BY <1>0 DEF DialInv, DataOK, Dialer, CloseConn, Sock, Nil
<1>6. StopInv'
  BY <1>0 DEF StopInv, DataOK, Dialer
<1>7. NoLeakedSocket'
  BY <1>0 DEF NoLeakedSocket, DataOK, Dialer, CloseConn, Own
<1>8. OneReconnecter'
  BY <1>0 DEF OneReconnecter, DataOK, Dialer
<1>9. OpenIsWatched'
  BY <1>0, WatchKept DEF DataOK, HbAlive, RdAlive
<1> QED
  BY <1>1, <1>2, <1>4, <1>5, <1>6, <1>7, <1>8, <1>9, TypeParts DEF IInv

\* isOpen becomes false.
LEMMA FlagKeeps ==
  ASSUME IInv, NEW t \in Thread \ Dialer, NEW p \in Place,
         p # "reading", pc[t] # "idle", p # "idle",
         pc' = [pc EXCEPT ![t] = p], isOpen' = FALSE,
         UNCHANGED <<needConnect, reconnectAttempt, stopped, conn, link,
                     dialed, reading, crashed>>
  PROVE  IInv'
<1> USE Threads
<1>0. FlagsOK /\ DataOK /\ EarlyInv /\ DialInv /\ StopInv /\ NoLeakedSocket
      /\ OneReconnecter /\ OpenIsWatched
  BY TypeParts DEF IInv
<1>1. FlagsOK'
  BY <1>0, Zenon DEF FlagsOK
<1>2. DataOK'
  BY <1>0, MoveTypes
<1>3. ~Early
  BY <1>0 DEF EarlyInv, HbLoop, RdLoop, Dialer
<1>4. EarlyInv' /\ DialInv' /\ StopInv' /\ NoLeakedSocket' /\ OneReconnecter'
  BY <1>0, <1>3 DEF EarlyInv, Early, DialInv, StopInv, NoLeakedSocket, Own,
                    OneReconnecter, DataOK, Dialer
<1>5. OpenIsWatched'
  BY DEF OpenIsWatched
<1> QED
  BY <1>1, <1>2, <1>4, <1>5, TypeParts DEF IInv

\* The CompareAndSwap starts a reconnecter where there is none.
LEMMA SpawnKeeps ==
  ASSUME IInv, NEW t \in Losing \cup {main}, LostSpawn(t) PROVE IInv'
<1> USE Threads DEF At
<1>0. FlagsOK /\ DataOK /\ EarlyInv /\ DialInv /\ StopInv /\ NoLeakedSocket
      /\ OneReconnecter /\ OpenIsWatched
  BY TypeParts DEF IInv
<1>1. t \in Thread /\ t # rec /\ t # stop /\ Return(t) \in {"idle", "done"}
      /\ (t = main => Return(t) = "done")
  BY DEF Losing, HbLoop, RdLoop, Return
<1>2. pc[t] = "cas" /\ reconnectAttempt' = TRUE
      /\ UNCHANGED <<needConnect, isOpen, stopped, conn, link, dialed, reading,
                     crashed>>
  BY DEF LostSpawn
<1>3. ~Early
  BY <1>0, <1>1, <1>2 DEF EarlyInv, Early, Losing, HbLoop, RdLoop
<1>4. PICK r \in Place :
        /\ pc' = [pc EXCEPT ![t] = Return(t), ![rec] = r]
        /\ r # "idle" /\ (r = pc[rec] \/ (r = "top" /\ pc[rec] = "idle"))
  <2>1. CASE reconnectAttempt
    <3>1. pc' = [pc EXCEPT ![t] = Return(t)]
      BY <2>1, Zenon DEF LostSpawn
    <3>2. pc[rec] \in Place /\ pc[rec] # "idle"
      BY <1>0, <2>1 DEF OneReconnecter, DataOK
    <3>3. pc' = [pc EXCEPT ![t] = Return(t), ![rec] = pc[rec]]
      BY <1>0, <1>1, <3>1 DEF DataOK
    <3> QED
      BY <3>2, <3>3
  <2>2. CASE ~reconnectAttempt
    <3>1. pc' = [pc EXCEPT ![t] = Return(t), ![rec] = "top"]
      BY <2>2, Zenon DEF LostSpawn
    <3>2. pc[rec] = "idle"
      BY <1>0, <2>2 DEF OneReconnecter
    <3> QED
      BY <3>1, <3>2 DEF Place
  <2> QED
    BY <2>1, <2>2
<1>5. FlagsOK'
  BY <1>0, <1>2, Zenon DEF FlagsOK
<1>6. DataOK'
  BY <1>0, <1>1, <1>2, <1>4 DEF DataOK, Place
<1>7. EarlyInv' /\ StopInv'
  BY <1>0, <1>1, <1>2, <1>3, <1>4 DEF EarlyInv, Early, StopInv, DataOK
<1>8. DialInv'
  BY <1>0, <1>1, <1>2, <1>4 DEF DialInv, DataOK
<1>9. NoLeakedSocket'
  BY <1>0, <1>1, <1>2, <1>4 DEF NoLeakedSocket, Own, Dialer, DataOK
<1>10. OneReconnecter'
  BY <1>0, <1>1, <1>2, <1>4 DEF OneReconnecter, DataOK
<1>11. OpenIsWatched'
  <2>1. \A u \in Thread : pc[u] \in {"check", "wait", "beat", "write", "lost",
                                   "flag", "read", "reading", "spawnHb",
                                   "spawnRd"} => pc'[u] = pc[u]
    BY <1>0, <1>1, <1>2, <1>4 DEF DataOK
  <2> QED
    BY <1>0, <1>2, <2>1 DEF OpenIsWatched, Connecting, Dialer
<1> QED
  BY <1>5, <1>6, <1>7, <1>8, <1>9, <1>10, <1>11, TypeParts DEF IInv

LEMMA LossStep ==
  ASSUME IInv, NEW t \in Losing, LostStep(t) PROVE IInv'
<1> USE Threads DEF At, Goto, flags, Place
<1>0. /\ t \in Thread \ Dialer /\ t # stop /\ DataOK
      /\ Return(t) \in {"idle", "done"}
  BY TypeParts DEF IInv, Losing, Dialer, HbLoop, RdLoop, Return
<1>1. CASE Lost(t) \/ LostNeed(t)
  <2>1. PICK p \in {"flag", "cas", "idle", "done"} :
          /\ pc' = [pc EXCEPT ![t] = p]
          /\ p \in {"idle", "done"} => ~needConnect
          /\ pc[t] = "lost" /\ needConnect => p = "flag"
    BY <1>0, <1>1 DEF Lost, LostNeed
  <2>2. /\ pc[t] \in {"lost", "need"}
        /\ UNCHANGED <<flags, stopped, conn, link, dialed, reading, crashed>>
    BY <1>1 DEF Lost, LostNeed
  <2>3. DataOK'
    BY <1>0, <2>1, <2>2, MoveTypes
  <2> QED
    BY <1>0, <2>1, <2>2, <2>3, LoopMoves DEF Losing, HbAlive, RdAlive
<1>2. CASE LostFlag(t)
  BY <1>0, <1>2, FlagKeeps DEF LostFlag
<1>3. CASE LostClose(t)
  <2>1. /\ pc[t] = "close" /\ CloseConn /\ pc' = [pc EXCEPT ![t] = "need"]
        /\ UNCHANGED <<flags, stopped, dialed, reading, crashed>>
    BY <1>3 DEF LostClose
  <2> QED
    BY <1>0, <2>1, CloseKeeps
<1>4. CASE LostSpawn(t)
  BY <1>4, SpawnKeeps
<1> QED
  BY <1>1, <1>2, <1>3, <1>4 DEF LostStep

-----------------------------------------------------------------------------
(* Dialing, by Start and by the reconnecter.                               *)

\* A dialer moves to a place where it owns nothing new.
LEMMA DialerMoves ==
  ASSUME IInv, NEW t \in Dialer, NEW p \in Place, p # "reading",
         pc' = [pc EXCEPT ![t] = p],
         UNCHANGED <<flags, stopped, conn, link, dialed, reading, crashed>>,
         pc[t] # "idle", pc[t] \notin {"swap", "assign"},
         p \notin {"idle", "swap", "assign", "open"},
         p \in Owning => pc[t] \in Owning,
         t = main => p # "dial",
         Connecting(t) => p \in {"beat", "write", "spawnHb"}
  PROVE  IInv'
<1> USE Threads DEF flags
<1>0. FlagsOK /\ DataOK /\ EarlyInv /\ OpenIsWatched
  BY TypeParts DEF IInv
<1>1. t \in Thread \ {stop} /\ t \notin HbLoop /\ t \notin RdLoop
  BY DEF Dialer, HbLoop, RdLoop
<1>2. Early => t = main
  BY <1>0 DEF EarlyInv, Dialer
<1>3. EarlyInv' /\ DialInv' /\ StopInv' /\ NoLeakedSocket' /\ OneReconnecter'
  BY <1>1, <1>2, MoveKeeps
<1>4. OpenIsWatched'
  BY <1>0, <1>1, WatchKept DEF DataOK
<1>5. FlagsOK'
  BY <1>0, Zenon DEF FlagsOK
<1>6. DataOK'
  BY <1>0, <1>1, MoveTypes
<1> QED
  BY <1>3, <1>4, <1>5, <1>6, TypeParts DEF IInv

LEMMA ReconnecterStep ==
  ASSUME IInv, ReconnectStep PROVE IInv'
<1> USE Threads DEF At, Goto, flags, Place
<1>0. FlagsOK /\ DataOK /\ EarlyInv /\ DialInv /\ StopInv /\ NoLeakedSocket
      /\ OneReconnecter /\ OpenIsWatched /\ rec \in Dialer
  BY TypeParts DEF IInv, Dialer
<1>1. CASE ReconnectTop \/ ReconnectTest \/ ReconnectWait \/ ReconnectStop
  <2>1. PICK p \in {"test", "clear", "wait", "dial", "top"} :
          pc' = [pc EXCEPT ![rec] = p]
    BY <1>1 DEF ReconnectTop, ReconnectTest, ReconnectWait, ReconnectStop
  <2>2. /\ pc[rec] \in {"top", "test", "wait"}
        /\ UNCHANGED <<flags, stopped, conn, link, dialed, reading, crashed>>
    BY <1>1 DEF ReconnectTop, ReconnectTest, ReconnectWait, ReconnectStop
  <2> QED
    BY <1>0, <2>1, <2>2, DialerMoves DEF Connecting, Owning
<1>2. CASE ReconnectClear
  <2>0. /\ pc[rec] = "clear" /\ pc' = [pc EXCEPT ![rec] = "idle"]
        /\ reconnectAttempt' = FALSE
        /\ UNCHANGED <<needConnect, isOpen, stopped, conn, link, dialed,
                       reading, crashed>>
    BY <1>2 DEF ReconnectClear
  <2>1. FlagsOK'
    BY <1>0, <2>0, Zenon DEF FlagsOK
  <2>2. DataOK'
    BY <1>0, <2>0, MoveTypes
  <2>3. EarlyInv' /\ DialInv' /\ StopInv'
    BY <1>0, <2>0 DEF EarlyInv, Early, DialInv, StopInv, DataOK
  <2>4. NoLeakedSocket' /\ OneReconnecter'
    BY <1>0, <2>0 DEF NoLeakedSocket, Own, OneReconnecter, Dialer, DataOK
  <2>5. OpenIsWatched'
    <3>1. \A u \in HbLoop \cup RdLoop \cup {main} : pc'[u] = pc[u] /\ u # rec
      BY <1>0, <2>0 DEF DataOK, HbLoop, RdLoop
    <3>2. pc'[rec] = "idle"
      BY <1>0, <2>0 DEF DataOK
    <3> QED
      BY <1>0, <2>0, <3>1, <3>2 DEF OpenIsWatched, Connecting, Dialer
  <2> QED
    BY <2>1, <2>2, <2>3, <2>4, <2>5, TypeParts DEF IInv
<1> QED
  BY <1>1, <1>2 DEF ReconnectStep

\* The first heartbeat, sent by the dialer.
LEMMA FirstBeat ==
  ASSUME IInv, NEW t \in Dialer, BeatStep(t) PROVE IInv'
<1> USE Threads DEF At, Goto, flags, Place
<1>0. t \notin HbLoop
  BY DEF Dialer, HbLoop
<1>1. CASE Panic
  BY <1>1, PanicKeeps
<1>2. CASE ~Panic
  <2>1. PICK p \in {"write", "spawnHb"} : pc' = [pc EXCEPT ![t] = p]
    BY <1>0, <1>2 DEF BeatStep, HbCheck, HbWait, HbStop, BeatTest, BeatWrite,
                      AfterBeat
  <2>2. /\ pc[t] \in {"beat", "write"}
        /\ UNCHANGED <<flags, stopped, conn, link, dialed, reading, crashed>>
    BY <1>0, <1>2 DEF BeatStep, HbCheck, HbWait, HbStop, BeatTest, BeatWrite
  <2> QED
    BY <2>1, <2>2, DialerMoves DEF Owning
<1> QED
  BY <1>1, <1>2

\* From the dial to the start of the two loops.
LEMMA DialerStep ==
  ASSUME IInv, NEW t \in Dialer, DialStep(t) PROVE IInv'
<1> USE Threads DEF At, Goto, flags, Place
<1>0. FlagsOK /\ DataOK /\ EarlyInv /\ DialInv /\ StopInv /\ NoLeakedSocket
      /\ OneReconnecter /\ OpenIsWatched
  BY TypeParts DEF IInv
<1>1. t \in Thread /\ t \notin HbLoop /\ t \notin RdLoop /\ t \in {main, rec}
  BY DEF Dialer, HbLoop, RdLoop
<1>2. pc \in [Thread -> Place] /\ dialed \in 0..MaxDial /\ MaxDial \in Nat \ {0}
  BY <1>0, MaxDialAssumption DEF DataOK
<1>3. CASE DialFails(t)
  <2>1. PICK p \in {"need", "wait"} : pc' = [pc EXCEPT ![t] = p]
    BY <1>3 DEF DialFails
  <2> QED
    BY <1>3, <2>1, DialerMoves DEF DialFails, Owning, Connecting
<1>4. CASE DialSucceeds(t)
  <2>0. /\ pc[t] = "dial" /\ dialed < MaxDial /\ dialed' = dialed + 1
        /\ link' = [link EXCEPT ![dialed + 1] = "up"]
        /\ pc' = [pc EXCEPT ![t] = "swap"]
        /\ UNCHANGED <<needConnect, isOpen, reconnectAttempt, stopped, conn,
                       reading, crashed>>
    BY <1>4 DEF DialSucceeds
  <2>1. FlagsOK'
    BY <1>0, <2>0, Zenon DEF FlagsOK
  <2>2. DataOK'
    BY <1>0, <1>1, <1>2, <2>0 DEF DataOK, Sock
  <2>3. EarlyInv' /\ StopInv' /\ OneReconnecter'
    BY <1>0, <1>1, <1>2, <2>0 DEF EarlyInv, Early, StopInv, OneReconnecter
  <2>4. DialInv'
    BY <1>0, <1>1, <1>2, <2>0 DEF EarlyInv, Early, DialInv, DataOK, Sock, Nil
  <2>5. NoLeakedSocket'
    BY <1>0, <1>1, <1>2, <2>0
       DEF EarlyInv, Early, DialInv, NoLeakedSocket, Own, Dialer, DataOK, Sock
  <2>6. OpenIsWatched'
    BY <1>0, <1>1, <1>2, <2>0, WatchKept DEF Connecting
  <2> QED
    BY <2>1, <2>2, <2>3, <2>4, <2>5, <2>6, TypeParts DEF IInv
<1>5. CASE DropOld(t)
  <2>0. /\ pc[t] = "swap" /\ pc' = [pc EXCEPT ![t] = "assign"] /\ conn' = Nil
        /\ link' = [k \in Sock |-> IF k = conn THEN "closed" ELSE link[k]]
        /\ UNCHANGED <<needConnect, isOpen, reconnectAttempt, stopped, dialed,
                       reading, crashed>>
    BY <1>5 DEF DropOld, CloseConn
  <2>1. FlagsOK'
    BY <1>0, <2>0, Zenon DEF FlagsOK
  <2>2. DataOK'
    BY <1>0, <1>1, <1>2, <2>0 DEF DataOK
  <2>3. EarlyInv' /\ StopInv' /\ OneReconnecter'
    BY <1>0, <1>1, <1>2, <2>0 DEF EarlyInv, Early, StopInv, OneReconnecter
  <2>4. DialInv'
    BY <1>0, <1>1, <1>2, <2>0 DEF EarlyInv, Early, DialInv, DataOK, Sock, Nil
  <2>5. NoLeakedSocket'
    BY <1>0, <1>1, <1>2, <2>0
       DEF EarlyInv, Early, DialInv, NoLeakedSocket, Own, Dialer, DataOK, Sock
  <2>6. OpenIsWatched'
    BY <1>0, <1>1, <1>2, <2>0, WatchKept DEF Connecting
  <2> QED
    BY <2>1, <2>2, <2>3, <2>4, <2>5, <2>6, TypeParts DEF IInv
<1>6. CASE Assign(t)
  <2>0. /\ pc[t] = "assign" /\ pc' = [pc EXCEPT ![t] = "open"]
        /\ conn' = Own(t)
        /\ UNCHANGED <<needConnect, isOpen, reconnectAttempt, stopped, link,
                       dialed, reading, crashed>>
    BY <1>6 DEF Assign
  <2>1. FlagsOK'
    BY <1>0, <2>0, Zenon DEF FlagsOK
  <2>2. Own(t) \in Sock /\ Own(t) <= dialed
    BY <1>0, <1>1, <1>2, <2>0 DEF DialInv, Own, Sock
  <2>3. DataOK'
    BY <1>0, <1>1, <1>2, <2>0, <2>2 DEF DataOK
  <2>4. EarlyInv' /\ StopInv' /\ OneReconnecter'
    BY <1>0, <1>1, <1>2, <2>0 DEF EarlyInv, Early, StopInv, OneReconnecter
  <2>5. DialInv'
    BY <1>0, <1>1, <1>2, <2>0, <2>2
       DEF EarlyInv, Early, DialInv, DataOK, Sock, Nil
  <2>6. NoLeakedSocket'
    BY <1>0, <1>1, <1>2, <2>0
       DEF EarlyInv, Early, DialInv, NoLeakedSocket, Own, Dialer, DataOK, Sock,
           Nil
  <2>7. OpenIsWatched'
    BY <1>0, <1>1, <1>2, <2>0, WatchKept DEF Connecting
  <2> QED
    BY <2>1, <2>3, <2>4, <2>5, <2>6, <2>7, TypeParts DEF IInv
<1>7. CASE Open(t)
  <2>0. /\ pc[t] = "open" /\ pc' = [pc EXCEPT ![t] = "beat"]
        /\ isOpen' = TRUE
        /\ UNCHANGED <<needConnect, reconnectAttempt, stopped, conn, link,
                       dialed, reading, crashed>>
    BY <1>7 DEF Open
  <2>1. FlagsOK'
    BY <1>0, <2>0, Zenon DEF FlagsOK
  <2>2. DataOK'
    BY <1>1, <1>0, <2>0, MoveTypes
  <2>3. EarlyInv' /\ StopInv' /\ OneReconnecter'
    BY <1>0, <1>1, <1>2, <2>0 DEF EarlyInv, Early, StopInv, OneReconnecter
  <2>4. DialInv'
    BY <1>0, <1>1, <1>2, <2>0 DEF DialInv
  <2>5. NoLeakedSocket'
    BY <1>0, <1>1, <1>2, <2>0 DEF NoLeakedSocket, Own, Dialer
  <2>6. OpenIsWatched'
    BY <1>0, <1>1, <1>2, <2>0 DEF OpenIsWatched, Connecting, Dialer
  <2> QED
    BY <2>1, <2>2, <2>3, <2>4, <2>5, <2>6, TypeParts DEF IInv
<1>8. CASE SpawnHeartbeat(t)
  <2>0. /\ pc[t] = "spawnHb"
        /\ pc' = [pc EXCEPT ![t] = "spawnRd", ![hb(Own(t))] = "check"]
        /\ UNCHANGED <<needConnect, isOpen, reconnectAttempt, stopped, conn,
                       link, dialed, reading, crashed>>
    BY <1>8 DEF SpawnHeartbeat
  <2>1. FlagsOK'
    BY <1>0, <2>0, Zenon DEF FlagsOK
  <2>2. Own(t) \in Sock
    BY <1>0, <1>1, <1>2, <2>0 DEF DialInv, Own, Sock
  <2>3. /\ hb(Own(t)) \in HbLoop /\ hb(Own(t)) \in Thread
        /\ hb(Own(t)) \notin RdLoop
        /\ hb(Own(t)) \notin {main, rec, send, stop}
    BY <2>2 DEF HbLoop, RdLoop
  <2>4. DataOK'
    BY <1>0, <1>1, <2>0, <2>3 DEF DataOK
  <2>5. EarlyInv' /\ StopInv' /\ OneReconnecter'
    BY <1>0, <1>1, <1>2, <2>0, <2>3
       DEF EarlyInv, Early, StopInv, OneReconnecter
  <2>6. DialInv'
    BY <1>0, <1>1, <1>2, <2>0, <2>3 DEF DialInv
  <2>7. NoLeakedSocket'
    BY <1>0, <1>1, <1>2, <2>0, <2>3 DEF NoLeakedSocket, Own, Dialer
  <2>8. pc'[hb(Own(t))] = "check" /\ pc'[t] = "spawnRd"
    BY <1>1, <1>2, <2>0, <2>3
  <2>9. OpenIsWatched'
    BY <1>1, <2>3, <2>8 DEF OpenIsWatched, Connecting, Dialer
  <2> QED
    BY <2>1, <2>4, <2>5, <2>6, <2>7, <2>9, TypeParts DEF IInv
<1>9. CASE SpawnReadLoop(t)
  <2>0. PICK p \in {"done", "clear"} :
          /\ pc[t] = "spawnRd"
          /\ pc' = [pc EXCEPT ![t] = p, ![rd(Own(t))] = "read"]
          /\ UNCHANGED <<needConnect, isOpen, reconnectAttempt, stopped, conn,
                         link, dialed, reading, crashed>>
    BY <1>9 DEF SpawnReadLoop
  <2>1. FlagsOK'
    BY <1>0, <2>0, Zenon DEF FlagsOK
  <2>2. Own(t) \in Sock
    BY <1>0, <1>1, <1>2, <2>0 DEF DialInv, Own, Sock
  <2>3. /\ rd(Own(t)) \in RdLoop /\ rd(Own(t)) \in Thread
        /\ rd(Own(t)) \notin HbLoop
        /\ rd(Own(t)) \notin {main, rec, send, stop}
    BY <2>2 DEF HbLoop, RdLoop
  <2>4. DataOK'
    BY <1>0, <1>1, <2>0, <2>3 DEF DataOK
  <2>5. EarlyInv' /\ StopInv' /\ OneReconnecter'
    BY <1>0, <1>1, <1>2, <2>0, <2>3
       DEF EarlyInv, Early, StopInv, OneReconnecter
  <2>6. DialInv'
    BY <1>0, <1>1, <1>2, <2>0, <2>3 DEF DialInv
  <2>7. NoLeakedSocket'
    BY <1>0, <1>1, <1>2, <2>0, <2>3 DEF NoLeakedSocket, Own, Dialer
  <2>8. /\ pc'[rd(Own(t))] = "read"
        /\ \A u \in HbLoop \cup {main, rec} : u # t => pc'[u] = pc[u]
        /\ t \notin HbLoop
    BY <1>1, <1>2, <2>0, <2>3 DEF HbLoop
  <2>9. OpenIsWatched'
    BY <1>0, <1>1, <2>0, <2>3, <2>8 DEF OpenIsWatched, Connecting, Dialer
  <2> QED
    BY <2>1, <2>4, <2>5, <2>6, <2>7, <2>9, TypeParts DEF IInv
<1> QED
  BY <1>3, <1>4, <1>5, <1>6, <1>7, <1>8, <1>9 DEF DialStep

-----------------------------------------------------------------------------
(* Start, Shutdown and the network.                                        *)

LEMMA StartStep ==
  ASSUME IInv, Start PROVE IInv'
<1> USE Threads DEF At, Goto, Place
<1>0. FlagsOK /\ DataOK /\ EarlyInv /\ DialInv /\ StopInv /\ NoLeakedSocket
      /\ OneReconnecter /\ OpenIsWatched
  BY TypeParts DEF IInv
<1>1. /\ pc[main] = "idle" /\ pc' = [pc EXCEPT ![main] = "dial"]
      /\ needConnect' = TRUE
      /\ UNCHANGED <<isOpen, reconnectAttempt, stopped, conn, link, dialed,
                     reading, crashed>>
  BY DEF Start
<1>2. FlagsOK'
  BY <1>0, <1>1, Zenon DEF FlagsOK
<1>3. DataOK'
  BY <1>0, <1>1, MoveTypes
<1>4. EarlyInv' /\ DialInv' /\ StopInv' /\ NoLeakedSocket' /\ OneReconnecter'
  BY <1>0, <1>1 DEF EarlyInv, Early, DialInv, StopInv, NoLeakedSocket, Own,
                    OneReconnecter, Dialer, DataOK
<1>5. OpenIsWatched'
  BY <1>0, <1>1 DEF OpenIsWatched, EarlyInv, Early
<1> QED
  BY <1>2, <1>3, <1>4, <1>5, TypeParts DEF IInv

LEMMA StopStep ==
  ASSUME IInv, ShutdownStep PROVE IInv'
<1> USE Threads DEF At, Goto, flags, Place
<1>0. FlagsOK /\ DataOK /\ EarlyInv /\ DialInv /\ StopInv /\ NoLeakedSocket
      /\ OneReconnecter /\ OpenIsWatched
  BY TypeParts DEF IInv
<1>1. stop \in Thread \ Dialer /\ stop \notin HbLoop /\ stop \notin RdLoop
  BY DEF Dialer, HbLoop, RdLoop
<1>2. CASE ShutdownFlag
  BY <1>1, <1>2, FlagKeeps DEF ShutdownFlag
<1>3. CASE ShutdownClose
  BY <1>1, <1>3, CloseKeeps DEF ShutdownClose
<1>4. CASE ShutdownNeed \/ ShutdownSignal
  <2>0. PICK p \in {"flag", "close"} :
          /\ pc' = [pc EXCEPT ![stop] = p]
          /\ UNCHANGED <<isOpen, reconnectAttempt, conn, link, dialed, reading,
                         crashed>>
          /\ needConnect' = FALSE \/ needConnect' = needConnect
          /\ stopped' = TRUE \/ stopped' = stopped
          /\ (pc[stop] = "idle") => (needConnect' = FALSE)
    BY <1>4 DEF ShutdownNeed, ShutdownSignal
  <2>1. FlagsOK'
    BY <1>0, <2>0, Zenon DEF FlagsOK
  <2>2. DataOK'
    BY <1>0, <1>1, <2>0, MoveTypes
  <2>3. ~Early
    BY <1>0, <1>4 DEF EarlyInv, Early, ShutdownNeed, ShutdownSignal
  <2>4. EarlyInv' /\ DialInv' /\ NoLeakedSocket' /\ OneReconnecter'
    BY <1>0, <1>1, <2>0, <2>3
       DEF EarlyInv, Early, DialInv, NoLeakedSocket, Own, OneReconnecter,
           Dialer, DataOK
  <2>5. StopInv' /\ ~needConnect'
    BY <1>0, <1>1, <2>0 DEF StopInv, DataOK
  <2>6. OpenIsWatched'
    BY <2>5 DEF OpenIsWatched
  <2> QED
    BY <2>1, <2>2, <2>4, <2>5, <2>6, TypeParts DEF IInv
<1> QED
  BY <1>2, <1>3, <1>4 DEF ShutdownStep

LEMMA PeerStep ==
  ASSUME IInv, NEW k \in Sock, PeerLost(k) PROVE IInv'
<1> USE DEF flags
<1>0. FlagsOK /\ DataOK /\ EarlyInv /\ DialInv /\ StopInv /\ NoLeakedSocket
      /\ OneReconnecter /\ OpenIsWatched
  BY TypeParts DEF IInv
<1>1. FlagsOK'
  BY <1>0, Zenon DEF FlagsOK, PeerLost
<1>2. DataOK'
  BY <1>0 DEF DataOK, PeerLost
<1>3. EarlyInv' /\ StopInv' /\ OneReconnecter' /\ OpenIsWatched'
  BY <1>0 DEF EarlyInv, Early, StopInv, OneReconnecter, OpenIsWatched,
              Connecting, PeerLost
<1>4. DialInv' /\ NoLeakedSocket'
  BY <1>0 DEF DialInv, NoLeakedSocket, Own, DataOK, PeerLost
<1> QED
  BY <1>1, <1>2, <1>3, <1>4, TypeParts DEF IInv

\* A dial by Start that fails is reported like a loss.
LEMMA MainLoss ==
  ASSUME IInv, LostNeed(main) \/ LostSpawn(main) PROVE IInv'
<1> USE Threads DEF At, Goto, flags, Place
<1>1. CASE LostNeed(main)
  <2>1. PICK p \in {"cas", "done"} : pc' = [pc EXCEPT ![main] = p]
    BY <1>1 DEF LostNeed, Return
  <2>2. /\ pc[main] = "need" /\ main \in Dialer
        /\ UNCHANGED <<flags, stopped, conn, link, dialed, reading, crashed>>
    BY <1>1 DEF LostNeed, Dialer
  <2> QED
    BY <2>1, <2>2, DialerMoves DEF Owning, Connecting
<1>2. CASE LostSpawn(main)
  BY <1>2, SpawnKeeps
<1> QED
  BY <1>1, <1>2

LEMMA StepIInv == IInv /\ [Next]_vars => IInv'
<1> SUFFICES ASSUME IInv, [Next]_vars PROVE IInv'
  OBVIOUS
<1>1. CASE UNCHANGED vars
  <2>1. FlagsOK' /\ DataOK'
    <3>1. FlagsOK'
      BY <1>1, TypeParts, Zenon DEF IInv, FlagsOK, vars
    <3>2. DataOK'
      BY <1>1, TypeParts DEF IInv, DataOK, vars
    <3> QED
      BY <3>1, <3>2
  <2>2. /\ EarlyInv' /\ DialInv' /\ StopInv' /\ NoLeakedSocket'
        /\ OpenIsWatched' /\ OneReconnecter'
    BY <1>1 DEF IInv, vars, EarlyInv, Early, DialInv, StopInv, NoLeakedSocket,
                Own, OpenIsWatched, Connecting, OneReconnecter
  <2> QED
    BY <2>1, <2>2, TypeParts DEF IInv
<1>2. CASE Next
  BY <1>2, StartStep, ReconnecterStep, DialerStep, FirstBeat, HeartbeatStep,
     ReadLoopStep, SendStep, LossStep, MainLoss, StopStep, PeerStep DEF Next
<1> QED
  BY <1>1, <1>2

LEMMA Invariance == Spec => []IInv
  BY InitIInv, StepIInv, PTL DEF Spec

-----------------------------------------------------------------------------
(* The theorems.                                                           *)

\* However often the client dials, its flags, sockets and goroutines keep
\* their types, and a read loop that waits has a socket to wait on.
THEOREM TypeCorrect == Spec => []TypeOK
<1>1. IInv => TypeOK
  BY DEF IInv
<1> QED
  BY <1>1, Invariance, PTL

\* startBackgroundReconnect's CompareAndSwap and its deferred Store leave
\* exactly one reconnecter while reconnectAttempt is set, and none otherwise.
THEOREM ReconnecterIsUnique == Spec => []OneReconnecter
<1>1. IInv => OneReconnecter
  BY DEF IInv
<1> QED
  BY <1>1, Invariance, PTL

\* tryConnect, closeConn and onConnectionLost never leave a socket open that
\* is neither in c.conn nor about to be put there.
THEOREM SocketsAreClosed == Spec => []NoLeakedSocket
<1>1. IInv => NoLeakedSocket
  BY DEF IInv
<1> QED
  BY <1>1, Invariance, PTL

\* isOpen is never left set without a heartbeat loop and a read loop that
\* would find out that it no longer holds.
THEOREM OpenConnectionIsWatched == Spec => []OpenIsWatched
<1>1. IInv => OpenIsWatched
  BY DEF IInv
<1> QED
  BY <1>1, Invariance, PTL

=============================================================================
