------------------------------ MODULE DebugRpc ------------------------------
(***************************************************************************)
(* The debug calls of the monitor: handleDebugSendRpc sends an RPC request *)
(* to a node as "debug-admin", handleRpcResponse keeps the answer under    *)
(* its rpcUid for five minutes, handleDebugRpcResult reads it.             *)
(*                                                                         *)
(* There is one node and one stub of it.  The rpcUid is the time in        *)
(* milliseconds, so two calls may have the same.  A call is named by who   *)
(* makes it.                                                               *)
(***************************************************************************)
EXTENDS AdminToken

CONSTANTS
  Call,    \* debug calls, each made once
  Keep,    \* five minutes
  NoCall   \* no value

ASSUME DebugAssumption == Keep \in Nat /\ NoCall \notin Call

CallState == {"new", "found", "sent", "answered", "stored", "deleted", "lost"}

VARIABLES
  offered,  \* there is a session, and it lists the stub
  state,    \* where a call is
  uid,      \* its requestId
  due,      \* when its answer is deleted
  results   \* debugResults

debugVars == <<offered, state, uid, due, results>>

DebugInit ==
  /\ offered = FALSE
  /\ state = [c \in Call |-> "new"]
  /\ uid = [c \in Call |-> 0]
  /\ due = [c \in Call |-> 0]
  /\ results = [t \in 0..MaxTime |-> NoCall]

To(c, s) == state' = [state EXCEPT ![c] = s]

-----------------------------------------------------------------------------
(* The node and its session.                                               *)

\* The heartbeat that makes the session, whose list findStub looks at.
Heartbeat ==
  /\ ~offered
  /\ offered' = TRUE
  /\ UNCHANGED <<state, uid, due, results>>

Disconnect ==
  /\ offered
  /\ offered' = FALSE
  /\ UNCHANGED <<state, uid, due, results>>

-----------------------------------------------------------------------------
(* A call.                                                                 *)

\* handleDebugRpcResult: the answer, or that there is none yet or any more.
GetDebugResult(id) == results[id]

\* GetSession and findStub; withAuth has let the request through.
FindStub(c) ==
  /\ state[c] = "new"
  /\ Authorized
  /\ offered
  /\ To(c, "found")
  /\ UNCHANGED <<offered, uid, due, results>>

\* The request is written to the session that was found, which may be closed
\* by now; the answer to the page is the same.
SendRpc(c) ==
  /\ state[c] = "found"
  /\ uid' = [uid EXCEPT ![c] = clock]
  /\ \/ To(c, "sent")
     \/ To(c, "lost")
  /\ UNCHANGED <<offered, due, results>>

\* The node handles the request and answers, with an error if need be.
Invoke(c) ==
  /\ state[c] = "sent"
  /\ To(c, "answered")
  /\ UNCHANGED <<offered, uid, due, results>>

\* A connection ends with the request or the response on it.
Lose(c) ==
  /\ state[c] \in {"sent", "answered"}
  /\ To(c, "lost")
  /\ UNCHANGED <<offered, uid, due, results>>

\* handleRpcResponse, which starts a goroutine that sleeps five minutes.
StoreResult(c) ==
  /\ state[c] = "answered"
  /\ To(c, "stored")
  /\ results' = [results EXCEPT ![uid[c]] = c]
  /\ due' = [due EXCEPT ![c] = clock + Keep]
  /\ UNCHANGED <<offered, uid>>

\* Variant: the goroutine does not sleep.
Elapsed_None(c) == TRUE

Elapsed(c) == clock >= due[c]

\* Variant: only one's own answer is deleted, and it is not.
Deleted_Other(c) == [results EXCEPT ![uid[c]] = IF @ = c THEN c ELSE NoCall]

\* debugResults.Delete(uid), whoever's answer is there.
Deleted(c) == [results EXCEPT ![uid[c]] = NoCall]

DeleteResult(c) ==
  /\ state[c] = "stored"
  /\ Elapsed(c)
  /\ results' = Deleted(c)
  /\ To(c, "deleted")
  /\ UNCHANGED <<offered, uid, due>>

NodeStep == Heartbeat \/ Disconnect

CallStep(c) ==
  \/ FindStub(c) \/ SendRpc(c) \/ Invoke(c) \/ Lose(c)
  \/ StoreResult(c) \/ DeleteResult(c)

\* The process of the server stops: sessions, answers and goroutines are gone.
DebugStop ==
  /\ offered' = FALSE
  /\ state' = [c \in Call |-> IF state[c] = "new" THEN "new" ELSE "lost"]
  /\ results' = [t \in 0..MaxTime |-> NoCall]
  /\ UNCHANGED <<uid, due>>

-----------------------------------------------------------------------------
(* Properties.                                                             *)

\* The calls, their ids and the answers kept.
DebugTypeOK ==
  /\ offered \in BOOLEAN
  /\ state \in [Call -> CallState]
  /\ uid \in [Call -> Nat] /\ due \in [Call -> Nat]
  /\ results \in [0..MaxTime -> Call \cup {NoCall}]

\* An answer can be fetched for five minutes.  Only a call that was sent in
\* the same millisecond can replace it or have it deleted sooner.
AnswersAreKept ==
  \A c \in Call :
    state[c] \in {"stored", "deleted"} /\ clock < due[c] =>
      \/ GetDebugResult(uid[c]) = c
      \/ \E d \in Call \ {c} : /\ uid[d] = uid[c]
                               /\ state[d] \in {"stored", "deleted"}

\* No answer stays for ever: the goroutine of the call whose answer is kept
\* is still going to delete it, also when ids repeat.
AnswersAreDeleted ==
  \A t \in 0..MaxTime, c \in Call :
    results[t] = c => state[c] = "stored" /\ uid[c] = t

=============================================================================
