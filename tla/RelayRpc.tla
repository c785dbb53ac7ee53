------------------------------ MODULE RelayRpc ------------------------------
(***************************************************************************)
(* RPC in relay mode.  RelayClient.Call registers a future, sends the      *)
(* request through the Router Center, sends it again once if that failed,  *)
(* and waits.  The target's read loop runs the stub itself and sends the   *)
(* response, which the caller's read loop hands to the future.  A stub may *)
(* make calls of its own: they run inside the read loop that serves it.    *)
(*                                                                         *)
(* A call is its own rpcUid: GenerateRpcUid takes it from an atomic        *)
(* counter.  Whether the stub succeeds makes no difference to the control  *)
(* (SetSuccess and SetError both pop and complete), so a response carries  *)
(* no outcome.  A frame whose write failed is incomplete and never         *)
(* arrives.                                                                *)
(*                                                                         *)
(* A read loop evaluates c.conn anew for every frame, as the heartbeat     *)
(* does after its test.  Lost connections have two effects beyond losing   *)
(* frames, then: a loop that was handling a frame reads the connection of  *)
(* a reconnect beside the loop of that, or meets nil, and the process      *)
(* panics.  A client that crashed stays down.                              *)
(***************************************************************************)
EXTENDS Naturals, Sequences, FiniteSets

CONSTANTS Client,  \* route ids of the clients
          Call,    \* the calls made in a behaviour, each once
          From, To,  \* the caller and the target of a call
          Parent,  \* the call whose stub makes this one, or NoCall
          NoCall,
          MaxDrop  \* bound: lost connections in a behaviour

ASSUME CallAssumption ==
  /\ From \in [Call -> Client]
  /\ To \in [Call -> Client]
  /\ Parent \in [Call -> Call \cup {NoCall}]
  /\ NoCall \notin Call
  /\ \A c \in Call : Parent[c] # NoCall => From[c] = To[Parent[c]]
  /\ MaxDrop \in Nat

VARIABLES
  open,     \* IsConnected of a client
  listed,   \* the Router Center has a session for it
  crashed,  \* its process has panicked
  loops,    \* its read loops in ReadFrame on the current connection
  between,  \*   and those that have handled a frame and are about to read
  serving,  \* calls whose stubs its read loops are running
  up, down, \* frames on their way from a client, and to it
  futures,  \* RelayFutureManager of a client
  done,     \* calls whose future has been completed
  ran,      \* how often the stub of a call was invoked
  pc,       \* where a call is
  drops     \* connections lost so far

vars == <<open, listed, crashed, loops, between, serving, up, down, futures,
          done, ran, pc, drops>>

netVars == <<open, listed, drops>>
loopVars == <<crashed, loops, between>>
callVars == <<futures, done, pc>>

Init ==
  /\ open = [x \in Client |-> TRUE]
  /\ listed = [x \in Client |-> TRUE]
  /\ crashed = [x \in Client |-> FALSE]
  /\ loops = [x \in Client |-> 1]
  /\ between = [x \in Client |-> 0]
  /\ serving = [x \in Client |-> {}]
  /\ up = [x \in Client |-> <<>>]
  /\ down = [x \in Client |-> <<>>]
  /\ futures = [x \in Client |-> {}]
  /\ done = {}
  /\ ran = [c \in Call |-> 0]
  /\ pc = [c \in Call |-> "idle"]
  /\ drops = 0

Frame(kind, c) == [kind |-> kind, call |-> c]

Receiver(m) == IF m.kind = "request" THEN To[m.call] ELSE From[m.call]

Returned == {"ok", "failed", "timeout"}

\* The stub of a call is being run, and the calls it made have returned.
Running(c) == c \in serving[To[c]] \/ pc[c] = "local"
Finished(c) ==
  \A d \in Call : Parent[d] = c => pc[d] \in Returned \cup {"idle"}

At(c, p) == pc[c] = p
Goto(c, p) == pc' = [pc EXCEPT ![c] = p]

\* StubManager.Invoke recovers a panic of the stub into an error.
Invoke(c) == ran' = [ran EXCEPT ![c] = @ + 1]

-----------------------------------------------------------------------------
(* RelayClient.Call.                                                       *)

\* A call from the application, or from a stub that is being run.
Begin(c) ==
  /\ At(c, "idle")
  /\ Parent[c] # NoCall => Running(Parent[c])
  /\ Goto(c, IF open[From[c]] THEN "prepare" ELSE "await")
  /\ UNCHANGED <<netVars, loopVars, serving, up, down, futures, done, ran>>

AwaitConnected(c) ==
  /\ At(c, "await")
  /\ \/ open[From[c]] /\ Goto(c, "prepare")
     \/ ~open[From[c]] /\ Goto(c, "failed")
  /\ UNCHANGED <<netVars, loopVars, serving, up, down, futures, done, ran>>

\* A target that is the client itself is invoked by the caller.
InvokeLocal(c) ==
  /\ At(c, "prepare")
  /\ To[c] = From[c]
  /\ Invoke(c)
  /\ Goto(c, "local")
  /\ UNCHANGED <<netVars, loopVars, serving, up, down, futures, done>>

ReturnLocal(c) ==
  /\ At(c, "local")
  /\ Finished(c)
  /\ Goto(c, "ok")
  /\ UNCHANGED <<netVars, loopVars, serving, up, down, futures, done, ran>>

Register(c) ==
  /\ At(c, "prepare")
  /\ To[c] # From[c]
  /\ futures' = [futures EXCEPT ![From[c]] = @ \cup {c}]
  /\ Goto(c, "send")
  /\ UNCHANGED <<netVars, loopVars, serving, up, down, done, ran>>

\* Variant: Send may report a failure for a frame that was written.
SendRequest_Unsure(c) ==
  /\ pc[c] \in {"send", "resend"}
  /\ open[From[c]]
  /\ up' = [up EXCEPT ![From[c]] = Append(@, Frame("request", c))]
  /\ Goto(c, IF At(c, "send") THEN "retry" ELSE "wait")
  /\ UNCHANGED <<netVars, loopVars, serving, down, futures, done, ran>>

SendRequest(c) ==
  /\ pc[c] \in {"send", "resend"}
  /\ open[From[c]]
  /\ up' = [up EXCEPT ![From[c]] = Append(@, Frame("request", c))]
  /\ Goto(c, "wait")
  /\ UNCHANGED <<netVars, loopVars, serving, down, futures, done, ran>>

\* Send reports that the client is not connected; a second time is the end.
SendFails(c) ==
  /\ pc[c] \in {"send", "resend"}
  /\ ~open[From[c]]
  /\ Goto(c, IF At(c, "send") THEN "retry" ELSE "failed")
  /\ UNCHANGED <<netVars, loopVars, serving, up, down, futures, done, ran>>

\* AwaitConnected for what is left of the timeout, if anything is.
Retry(c) ==
  /\ At(c, "retry")
  /\ \/ open[From[c]] /\ Goto(c, "resend")
     \/ Goto(c, "failed")
  /\ UNCHANGED <<netVars, loopVars, serving, up, down, futures, done, ran>>

AwaitResult(c) ==
  /\ At(c, "wait")
  /\ c \in done
  /\ Goto(c, "ok")
  /\ UNCHANGED <<netVars, loopVars, serving, up, down, futures, done, ran>>

\* Variant: a remaining time of zero is passed on, and Await has no timer.
AwaitTimeout_None(c) ==
  /\ At(c, "wait")
  /\ c \in done
  /\ Goto(c, "timeout")
  /\ UNCHANGED <<netVars, loopVars, serving, up, down, futures, done, ran>>

\* The timer of Await; the future stays where it is.
AwaitTimeout(c) ==
  /\ At(c, "wait")
  /\ Goto(c, "timeout")
  /\ UNCHANGED <<netVars, loopVars, serving, up, down, futures, done, ran>>

-----------------------------------------------------------------------------
(* The Router Center and the read loops.                                   *)

\* forwardToTarget: dropped without a word if the target has no session.
Forward(x) ==
  /\ up[x] # <<>>
  /\ LET m == Head(up[x])
         y == Receiver(m)
     IN down' = [down EXCEPT ![y] = IF listed[y] THEN Append(@, m) ELSE @]
  /\ up' = [up EXCEPT ![x] = Tail(@)]
  /\ UNCHANGED <<netVars, loopVars, serving, callVars, ran>>

\* HandleRelayRpcRequest up to Invoke; the read loop is in the stub.
ReceiveRequest(x) ==
  /\ loops[x] > 0 /\ down[x] # <<>>
  /\ Head(down[x]).kind = "request"
  /\ LET c == Head(down[x]).call
     IN /\ serving' = [serving EXCEPT ![x] = @ \cup {c}]
        /\ Invoke(c)
  /\ loops' = [loops EXCEPT ![x] = @ - 1]
  /\ down' = [down EXCEPT ![x] = Tail(@)]
  /\ UNCHANGED <<netVars, crashed, between, up, callVars>>

\* Variant: the future is looked up and not deleted.
Complete_Keep(x, c) ==
  /\ done' = done \cup ({c} \cap futures[x])
  /\ UNCHANGED futures

\* FutureManager.SetSuccess and SetError: Pop, and complete what was there.
Complete(x, c) ==
  /\ futures' = [futures EXCEPT ![x] = @ \ {c}]
  /\ done' = done \cup ({c} \cap futures[x])

\* HandleRelayRpcResponse.
ReceiveResponse(x) ==
  /\ loops[x] > 0 /\ down[x] # <<>>
  /\ Head(down[x]).kind = "response"
  /\ Complete(x, Head(down[x]).call)
  /\ down' = [down EXCEPT ![x] = Tail(@)]
  /\ UNCHANGED <<netVars, loopVars, serving, up, ran, pc>>

\* Two read loops on one connection take a length and a payload each from
\* what is one frame.
Garble(x) ==
  /\ loops[x] > 1 /\ down[x] # <<>>
  /\ down' = [down EXCEPT ![x] = Tail(@)]
  /\ UNCHANGED <<netVars, loopVars, serving, up, callVars, ran>>

\* The stub returns, once the calls it made have, and the response is sent
\* if the client is connected.
Respond(x, c) ==
  /\ c \in serving[x]
  /\ Finished(c)
  /\ serving' = [serving EXCEPT ![x] = @ \ {c}]
  /\ up' = [up EXCEPT ![x] = IF open[x] THEN Append(@, Frame("response", c))
                                        ELSE @]
  /\ between' = [between EXCEPT ![x] = @ + 1]
  /\ UNCHANGED <<netVars, crashed, loops, down, callVars, ran>>

\* Everything in the process ends.
Panic(x) ==
  /\ crashed' = [crashed EXCEPT ![x] = TRUE]
  /\ between' = [between EXCEPT ![x] = 0]
  /\ serving' = [serving EXCEPT ![x] = {}]
  /\ UNCHANGED <<netVars, loops, up, down, callVars, ran>>

\* readLoop evaluates c.conn: the current connection, be it the loop's own
\* or a later one; nil, without one; or one closed and not yet forgotten,
\* on which ReadFrame fails.
Resume(x) ==
  /\ between[x] > 0
  /\ \/ ~open[x] /\ Panic(x)
     \/ /\ between' = [between EXCEPT ![x] = @ - 1]
        /\ loops' = [loops EXCEPT ![x] = IF open[x] THEN @ + 1 ELSE @]
        /\ UNCHANGED <<netVars, crashed, serving, up, down, callVars, ran>>

-----------------------------------------------------------------------------
(* The connection of a client.                                             *)

\* Frames not read yet are lost; of those sent, the server reads a prefix.
\* The read loops end, but for some that have a frame in hand, of whatever
\* type, and will look at c.conn afterwards.
Drop(x) ==
  /\ open[x]
  /\ drops < MaxDrop
  /\ drops' = drops + 1
  /\ open' = [open EXCEPT ![x] = FALSE]
  /\ listed' = [listed EXCEPT ![x] = FALSE]
  /\ \E n \in 0..loops[x] : between' = [between EXCEPT ![x] = @ + n]
  /\ loops' = [loops EXCEPT ![x] = 0]
  /\ down' = [down EXCEPT ![x] = <<>>]
  /\ \E n \in 0..Len(up[x]) : up' = [up EXCEPT ![x] = SubSeq(@, 1, n)]
  /\ UNCHANGED <<crashed, serving, callVars, ran>>

\* The reconnecter sets isOpen and starts a read loop of its own.
Reconnect(x) ==
  /\ ~open[x] /\ ~crashed[x]
  /\ open' = [open EXCEPT ![x] = TRUE]
  /\ loops' = [loops EXCEPT ![x] = @ + 1]
  /\ UNCHANGED <<listed, drops, crashed, between, serving, up, down,
                 callVars, ran>>

\* The first heartbeat of a connection registers it.
Heartbeat(x) ==
  /\ open[x] /\ ~listed[x]
  /\ listed' = [listed EXCEPT ![x] = TRUE]
  /\ UNCHANGED <<open, drops, loopVars, serving, up, down, callVars, ran>>

\* sendHeartbeat found a connection and dereferences c.conn after its loss.
HeartbeatPanics(x) == ~open[x] /\ ~crashed[x] /\ Panic(x)

-----------------------------------------------------------------------------
CallStep(c) ==
  /\ ~crashed[From[c]]
  /\ \/ AwaitConnected(c) \/ InvokeLocal(c) \/ ReturnLocal(c)
     \/ Register(c) \/ SendRequest(c) \/ SendFails(c) \/ Retry(c)
     \/ AwaitResult(c) \/ AwaitTimeout(c)

ReadStep(x) == ReceiveRequest(x) \/ ReceiveResponse(x)

Next ==
  \/ \E c \in Call : ~crashed[From[c]] /\ Begin(c)
  \/ \E c \in Call : CallStep(c)
  \/ \E x \in Client :
       \/ Forward(x) \/ ReadStep(x) \/ Garble(x) \/ Resume(x)
       \/ \E c \in Call : Respond(x, c)
       \/ Drop(x) \/ Reconnect(x) \/ Heartbeat(x) \/ HeartbeatPanics(x)

Spec == Init /\ [][Next]_vars

\* Goroutines run, timers fire, stubs return; nobody has to make a call and
\* no connection has to be lost.
Fairness ==
  /\ \A c \in Call : WF_vars(CallStep(c))
  /\ \A x \in Client :
       /\ WF_vars(Forward(x)) /\ WF_vars(ReadStep(x)) /\ WF_vars(Resume(x))
       /\ \A c \in Call : WF_vars(Respond(x, c))
       /\ WF_vars(Reconnect(x)) /\ WF_vars(Heartbeat(x))

FairSpec == Spec /\ Fairness

-----------------------------------------------------------------------------
(* Properties.                                                             *)

\* The values the clients, the frames and the calls range over.
TypeOK ==
  /\ open \in [Client -> BOOLEAN]
  /\ listed \in [Client -> BOOLEAN]
  /\ crashed \in [Client -> BOOLEAN]
  /\ loops \in [Client -> Nat]
  /\ between \in [Client -> Nat]
  /\ serving \in [Client -> SUBSET Call]
  /\ futures \in [Client -> SUBSET Call]
  /\ \A x \in Client : \A c \in futures[x] : From[c] = x
  /\ done \subseteq Call
  /\ ran \in [Call -> Nat]
  /\ pc \in [Call -> {"idle", "await", "prepare", "local", "send", "retry",
                      "resend", "wait"} \cup Returned]
  /\ drops \in 0..MaxDrop

\* Call sends a request again after a failure; for all the retries and lost
\* connections, the stub of a call runs at most once.
AtMostOnce == \A c \in Call : ran[c] <= 1

\* A call that returns a result has been run by its target, and its future
\* is gone from the map: no late or repeated response can complete it again.
ResultIsReal ==
  \A c \in Call : At(c, "ok") => ran[c] = 1 /\ c \notin futures[From[c]]

\* What the caller of a call knows of it.
Told(p) == IF p \in Returned \cup {"idle"} THEN p ELSE "pending"
Status == [c \in Call |-> Told(pc[c])]
Promise == INSTANCE Rpc WITH status <- Status

\* What the caller is told agrees with what becomes of the stub, now and
\* later: in particular, no request is left of a call that failed, through
\* the retry, lost connections and the time requests spend on the way, and a
\* caller that makes it again does not have it run twice.
ImplementsRpc == Promise!Spec

\* Every call returns to its caller, though requests and responses are lost
\* without a word and stubs call each other in circles, unless the process
\* of the caller crashes.
EveryCallReturns ==
  \A c \in Call :
    (pc[c] # "idle") ~> (pc[c] \in Returned \/ crashed[From[c]])

=============================================================================
