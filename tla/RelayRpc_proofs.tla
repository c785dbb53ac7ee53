--------------------------- MODULE RelayRpc_proofs ---------------------------
(***************************************************************************)
(* Proofs about relayed calls, for any clients, calls and lost             *)
(* connections.                                                            *)
(*                                                                         *)
(* A request is in one place at most: not sent yet, once among the frames  *)
(* of its caller, once among those of its target, or run.  A response, a   *)
(* completed future and a result are there only for a call that was run.   *)
(* No frame is left of a call that failed, so that every step of the       *)
(* clients and the Router Center is a step of the abstract Rpc or changes  *)
(* nothing in it.                                                          *)
(***************************************************************************)
EXTENDS RelayRpc, TLAPS

-----------------------------------------------------------------------------
(* The invariant.                                                          *)

Msg == [kind : {"request", "response"}, call : Call]

\* Before the write of the request has succeeded.
Unsent == {"idle", "await", "prepare", "send", "retry", "resend"}

Sent == {"wait", "ok", "timeout"}

FrameTypes == up \in [Client -> Seq(Msg)] /\ down \in [Client -> Seq(Msg)]

\* A request on its way has been sent and has not run.
RequestInv ==
  /\ \A x \in Client : \A i \in 1..Len(up[x]) :
       up[x][i].kind = "request" =>
         /\ From[up[x][i].call] = x
         /\ pc[up[x][i].call] \in Sent
         /\ ran[up[x][i].call] = 0
  /\ \A x \in Client : \A i \in 1..Len(down[x]) :
       down[x][i].kind = "request" =>
         /\ To[down[x][i].call] = x
         /\ pc[down[x][i].call] \in Sent
         /\ ran[down[x][i].call] = 0

\* There is one of it.
OneRequest ==
  /\ \A x \in Client : \A i, j \in 1..Len(up[x]) :
       up[x][i].kind = "request" /\ up[x][i] = up[x][j] => i = j
  /\ \A x \in Client : \A i, j \in 1..Len(down[x]) :
       down[x][i].kind = "request" /\ down[x][i] = down[x][j] => i = j
  /\ \A x, y \in Client : \A i \in 1..Len(up[x]) : \A j \in 1..Len(down[y]) :
       up[x][i].kind = "request" => up[x][i] # down[y][j]

\* A response on its way belongs to a call that was run.
ResponseInv ==
  /\ \A x \in Client : \A i \in 1..Len(up[x]) :
       up[x][i].kind = "response" => ran[up[x][i].call] = 1
  /\ \A x \in Client : \A i \in 1..Len(down[x]) :
       down[x][i].kind = "response" => ran[down[x][i].call] = 1

CallInv ==
  /\ \A c \in Call :
       /\ ran[c] \in {0, 1}
       /\ pc[c] \in Unsent \cup {"failed"} => ran[c] = 0
       /\ pc[c] = "local" => ran[c] = 1
       /\ pc[c] \in {"idle", "await", "prepare", "local"}
            => c \notin futures[From[c]]
       /\ c \in done => ran[c] = 1 /\ c \notin futures[From[c]]
  /\ \A x \in Client : \A c \in serving[x] : ran[c] = 1

IInv ==
  /\ TypeOK /\ FrameTypes /\ RequestInv /\ OneRequest /\ ResponseInv
  /\ CallInv /\ ResultIsReal

-----------------------------------------------------------------------------
(* Sequences.                                                              *)

\* Append, Tail and a prefix, element by element.
LEMMA SeqFacts ==
  ASSUME NEW S, NEW s \in Seq(S), NEW m \in S
  PROVE  /\ Append(s, m) \in Seq(S) /\ Len(Append(s, m)) = Len(s) + 1
         /\ \A i \in 1..Len(s) : Append(s, m)[i] = s[i]
         /\ Append(s, m)[Len(s) + 1] = m
         /\ s # <<>> =>
              /\ Head(s) = s[1] /\ Len(s) > 0
              /\ Tail(s) \in Seq(S) /\ Len(Tail(s)) = Len(s) - 1
              /\ \A i \in 1..(Len(s) - 1) : Tail(s)[i] = s[i + 1]
         /\ \A n \in 0..Len(s) :
              /\ SubSeq(s, 1, n) \in Seq(S) /\ Len(SubSeq(s, 1, n)) = n
              /\ \A i \in 1..n : SubSeq(s, 1, n)[i] = s[i]
<1>1. /\ Append(s, m) \in Seq(S) /\ Len(Append(s, m)) = Len(s) + 1
      /\ \A i \in 1..Len(s) : Append(s, m)[i] = s[i]
      /\ Append(s, m)[Len(s) + 1] = m
  OBVIOUS
<1>2. s # <<>> =>
        /\ Head(s) = s[1] /\ Len(s) > 0
        /\ Tail(s) \in Seq(S) /\ Len(Tail(s)) = Len(s) - 1
        /\ \A i \in 1..(Len(s) - 1) : Tail(s)[i] = s[i + 1]
  OBVIOUS
<1>3. ASSUME NEW n \in 0..Len(s)
      PROVE  /\ SubSeq(s, 1, n) \in Seq(S) /\ Len(SubSeq(s, 1, n)) = n
             /\ \A i \in 1..n : SubSeq(s, 1, n)[i] = s[i]
  <2>1. \A i \in 1..n : s[i] \in S
    OBVIOUS
  <2> QED
    BY <2>1
<1> QED
  BY <1>1, <1>2, <1>3

\* Every frame is a request or a response of a call.
LEMMA MsgAt ==
  ASSUME FrameTypes
  PROVE  /\ \A x \in Client : \A i \in 1..Len(up[x]) :
              up[x][i].call \in Call /\ up[x][i].kind \in {"request", "response"}
         /\ \A x \in Client : \A i \in 1..Len(down[x]) :
              down[x][i].call \in Call /\ down[x][i].kind \in {"request", "response"}
<1>1. /\ \A x \in Client : \A i \in 1..Len(up[x]) : up[x][i] \in Msg
      /\ \A x \in Client : \A i \in 1..Len(down[x]) : down[x][i] \in Msg
  BY DEF FrameTypes
<1> QED
  BY <1>1 DEF Msg

LEMMA InitIInv == Init => IInv
<1> SUFFICES ASSUME Init PROVE IInv
  OBVIOUS
<1> USE CallAssumption DEF Init
<1>1. TypeOK
  BY DEF TypeOK
<1>2. \A x \in Client : up[x] = <<>> /\ down[x] = <<>> /\ Len(up[x]) = 0
                        /\ Len(down[x]) = 0
  OBVIOUS
<1>3. FrameTypes
  BY DEF FrameTypes
<1>4. RequestInv /\ OneRequest /\ ResponseInv
  BY <1>2 DEF RequestInv, OneRequest, ResponseInv
<1>5. CallInv /\ ResultIsReal
  BY DEF CallInv, ResultIsReal, At
<1> QED
  BY <1>1, <1>3, <1>4, <1>5 DEF IInv

-----------------------------------------------------------------------------
(* Steps of a caller that send nothing.                                    *)

\* The frames do not notice a call that moves on.
LEMMA FramesKeep ==
  ASSUME IInv, NEW c \in Call,
         UNCHANGED <<up, down, ran>>,
         \A d \in Call : d # c => pc'[d] = pc[d],
         pc[c] \in Sent => pc'[c] \in Sent
  PROVE  FrameTypes' /\ RequestInv' /\ OneRequest' /\ ResponseInv'
<1>1. FrameTypes' /\ OneRequest' /\ ResponseInv'
  <2>1. FrameTypes'
    BY DEF IInv, FrameTypes
  <2>2. OneRequest'
    BY DEF IInv, OneRequest
  <2>3. ResponseInv'
    BY DEF IInv, ResponseInv
  <2> QED
    BY <2>1, <2>2, <2>3
<1>2. RequestInv'
  <2>1. \A d \in Call : pc[d] \in Sent => pc'[d] \in Sent
    OBVIOUS
  <2>2. /\ \A x \in Client : \A i \in 1..Len(up[x]) : up[x][i].call \in Call
        /\ \A x \in Client : \A i \in 1..Len(down[x]) : down[x][i].call \in Call
    BY MsgAt DEF IInv
  <2> QED
    BY <2>1, <2>2 DEF IInv, RequestInv
<1> QED
  BY <1>1, <1>2

Places == {"idle", "await", "prepare", "local", "send", "retry", "resend",
           "wait"} \cup Returned

\* The steps that only move the call.
LEMMA MoveStep ==
  ASSUME IInv, NEW c \in Call,
         \/ Begin(c) \/ AwaitConnected(c) \/ SendFails(c) \/ Retry(c)
         \/ AwaitResult(c) \/ AwaitTimeout(c) \/ ReturnLocal(c)
  PROVE  IInv'
<1>0. /\ TypeOK /\ CallInv /\ ResultIsReal
      /\ UNCHANGED <<netVars, loopVars, serving, up, down, futures, done, ran>>
  BY DEF IInv, Begin, AwaitConnected, SendFails, Retry, AwaitResult,
         AwaitTimeout, ReturnLocal
<1>1. PICK p \in {"prepare", "await", "failed", "retry", "resend", "ok",
                  "timeout"} :
        /\ pc' = [pc EXCEPT ![c] = p]
        /\ p \in Unsent => pc[c] \in Unsent
        /\ p \in {"prepare", "await"} => pc[c] \in {"idle", "await"}
        /\ p = "failed" => pc[c] \in Unsent
        /\ p = "ok" => c \in done \/ pc[c] = "local"
        /\ pc[c] \in Sent => p \in Sent
  BY DEF Begin, AwaitConnected, SendFails, Retry, AwaitResult, AwaitTimeout,
         ReturnLocal, At, Goto, Unsent, Sent
<1>2. pc \in [Call -> Places]
  BY <1>0 DEF TypeOK, Places
<1>3. FrameTypes' /\ RequestInv' /\ OneRequest' /\ ResponseInv'
  BY <1>0, <1>1, <1>2, FramesKeep
<1>4. TypeOK'
  BY <1>0, <1>1 DEF TypeOK, netVars, loopVars, Returned
<1>5. CallInv'
  BY <1>0, <1>1, <1>2 DEF CallInv, Unsent
<1>6. ResultIsReal'
  BY <1>0, <1>1, <1>2 DEF ResultIsReal, CallInv, At
<1> QED
  BY <1>3, <1>4, <1>5, <1>6 DEF IInv

LEMMA RegisterStep ==
  ASSUME IInv, NEW c \in Call, Register(c) PROVE IInv'
<1>0. /\ TypeOK /\ CallInv /\ ResultIsReal /\ pc[c] = "prepare"
      /\ pc' = [pc EXCEPT ![c] = "send"]
      /\ futures' = [futures EXCEPT ![From[c]] = @ \cup {c}]
      /\ UNCHANGED <<netVars, loopVars, serving, up, down, done, ran>>
  BY DEF IInv, Register, At, Goto
<1>2. pc \in [Call -> Places]
  BY <1>0 DEF TypeOK, Places
<1>3. FrameTypes' /\ RequestInv' /\ OneRequest' /\ ResponseInv'
  <2>1. /\ \A d \in Call : d # c => pc'[d] = pc[d]
        /\ pc[c] \notin Sent
    BY <1>0, <1>2 DEF Sent
  <2> QED
    BY <1>0, <2>1, FramesKeep
<1>4. TypeOK'
  <2>1. /\ futures' \in [Client -> SUBSET Call]
        /\ \A x \in Client : \A d \in futures'[x] : From[d] = x
    <3>1. /\ futures \in [Client -> SUBSET Call]
          /\ \A x \in Client : \A d \in futures[x] : From[d] = x
      BY <1>0 DEF TypeOK
    <3>2. futures' \in [Client -> SUBSET Call]
      BY <1>0, <3>1
    <3>3. \A x \in Client : \A d \in futures'[x] :
            d \in futures[x] \/ (d = c /\ x = From[c])
      BY <1>0, <3>1
    <3> QED
      BY <3>1, <3>2, <3>3
  <2>2. pc' \in [Call -> Places]
    BY <1>0, <1>2 DEF Places
  <2> QED
    BY <1>0, <2>1, <2>2 DEF TypeOK, netVars, loopVars, Places
<1>5. CallInv'
  <2>1. c \notin done
    BY <1>0 DEF CallInv, Unsent
  <2>2. \A d \in Call : d \in futures'[From[d]] => d = c \/ d \in futures[From[d]]
    <3>1. futures \in [Client -> SUBSET Call]
      BY <1>0 DEF TypeOK
    <3>2. \A z \in Client : \A d \in futures'[z] : d = c \/ d \in futures[z]
      BY <1>0, <3>1
    <3> QED
      BY <3>2, CallAssumption
  <2>3. \A d \in Call : pc'[d] = IF d = c THEN "send" ELSE pc[d]
    BY <1>0, <1>2
  <2> QED
    BY <1>0, <2>1, <2>2, <2>3 DEF CallInv, Unsent
<1>6. ResultIsReal'
  BY <1>0, <1>2, CallAssumption DEF ResultIsReal, TypeOK, At
<1> QED
  BY <1>3, <1>4, <1>5, <1>6 DEF IInv

\* A call to the client itself: nothing of it is on its way.
LEMMA LocalStep ==
  ASSUME IInv, NEW c \in Call, InvokeLocal(c) PROVE IInv'
<1>0. /\ TypeOK /\ CallInv /\ ResultIsReal /\ pc[c] = "prepare"
      /\ pc' = [pc EXCEPT ![c] = "local"] /\ ran' = [ran EXCEPT ![c] = @ + 1]
      /\ UNCHANGED <<netVars, loopVars, serving, up, down, futures, done>>
  BY DEF IInv, InvokeLocal, Invoke, At, Goto
<1>1. pc \in [Call -> Places] /\ ran \in [Call -> Nat] /\ ran[c] = 0
  BY <1>0 DEF TypeOK, Places, CallInv, Unsent
<1>2. \A d \in Call : d # c => pc'[d] = pc[d] /\ ran'[d] = ran[d]
  BY <1>0, <1>1
<1>3. TypeOK'
  BY <1>0, <1>1 DEF TypeOK, netVars, loopVars, Returned
<1>4. FrameTypes' /\ OneRequest'
  BY <1>0 DEF IInv, FrameTypes, OneRequest
<1>5. RequestInv' /\ ResponseInv'
  <2>1. /\ \A x \in Client : \A i \in 1..Len(up[x]) :
             up[x][i].call \in Call /\ up[x][i].call # c
        /\ \A x \in Client : \A i \in 1..Len(down[x]) :
             down[x][i].call \in Call /\ down[x][i].call # c
    <3>1. FrameTypes /\ RequestInv /\ ResponseInv /\ pc[c] \notin Sent
      BY <1>0 DEF IInv, Sent
    <3>2. ASSUME NEW x \in Client, NEW i \in 1..Len(up[x])
          PROVE  up[x][i].call \in Call /\ up[x][i].call # c
      BY <1>1, <3>1, MsgAt DEF RequestInv, ResponseInv
    <3>3. ASSUME NEW x \in Client, NEW i \in 1..Len(down[x])
          PROVE  down[x][i].call \in Call /\ down[x][i].call # c
      BY <1>1, <3>1, MsgAt DEF RequestInv, ResponseInv
    <3> QED
      BY <3>2, <3>3
  <2> QED
    BY <1>0, <1>2, <2>1 DEF IInv, RequestInv, ResponseInv
<1>6. CallInv'
  BY <1>0, <1>1 DEF CallInv, Unsent
<1>7. ResultIsReal'
  BY <1>0, <1>1 DEF ResultIsReal, CallInv, At
<1> QED
  BY <1>3, <1>4, <1>5, <1>6, <1>7 DEF IInv

-----------------------------------------------------------------------------
(* Steps that add, move, take and lose frames.                             *)

\* The first frame of a queue.
LEMMA HeadOf ==
  ASSUME NEW S, NEW s \in Seq(S), s # <<>>
  PROVE  Head(s) \in S /\ Head(s) = s[1] /\ Len(s) > 0 /\ 1 \in 1..Len(s)
  OBVIOUS

\* The request joins the frames of its caller, as the only one of its call.
LEMMA RequestStep ==
  ASSUME IInv, NEW c \in Call, SendRequest(c) PROVE IInv'
<1> DEFINE x == From[c]
           m == Frame("request", c)
<1>0. /\ TypeOK /\ FrameTypes /\ RequestInv /\ OneRequest /\ ResponseInv
      /\ CallInv /\ ResultIsReal
      /\ pc[c] \in {"send", "resend"} /\ pc' = [pc EXCEPT ![c] = "wait"]
      /\ up' = [up EXCEPT ![x] = Append(@, m)]
      /\ UNCHANGED <<netVars, loopVars, serving, down, futures, done, ran>>
  BY DEF IInv, SendRequest, Goto
<1>1. x \in Client /\ m \in Msg /\ m.kind = "request" /\ m.call = c
  BY CallAssumption DEF Frame, Msg
<1>2. pc \in [Call -> Places]
  BY <1>0 DEF TypeOK, Places
<1>3. \A d \in Call : pc'[d] = IF d = c THEN "wait" ELSE pc[d]
  BY <1>0, <1>2
<1> HIDE DEF x, m
<1>4. /\ \A y \in Client : y # x => up'[y] = up[y]
      /\ up'[x] \in Seq(Msg) /\ Len(up'[x]) = Len(up[x]) + 1
      /\ Len(up[x]) \in Nat
      /\ \A i \in 1..Len(up[x]) : up'[x][i] = up[x][i]
      /\ up'[x][Len(up[x]) + 1] = m
  <2>1. up[x] \in Seq(Msg) /\ up'[x] = Append(up[x], m)
        /\ \A y \in Client : y # x => up'[y] = up[y]
    BY <1>0, <1>1 DEF FrameTypes
  <2> QED
    BY <1>1, <2>1, SeqFacts
<1>5. \* Every frame of up' is one of up or the new one.
      /\ \A y \in Client : \A i \in 1..Len(up'[y]) :
           \/ i \in 1..Len(up[y]) /\ up'[y][i] = up[y][i]
           \/ y = x /\ i = Len(up[x]) + 1 /\ up'[y][i] = m
  BY <1>1, <1>4
<1>6. \* No request of c is on its way.
      /\ \A y \in Client : \A i \in 1..Len(up[y]) :
           up[y][i].kind = "request" => up[y][i].call # c
      /\ \A y \in Client : \A i \in 1..Len(down[y]) :
           down[y][i].kind = "request" => down[y][i].call # c
  BY <1>0 DEF RequestInv, Sent
<1>7. FrameTypes'
  BY <1>0, <1>1, <1>4 DEF FrameTypes
<1>8. RequestInv'
  <2>1. \A d \in Call : pc[d] \in Sent => pc'[d] \in Sent
    BY <1>3 DEF Sent
  <2>2. pc'[c] \in Sent /\ ran[c] = 0 /\ From[c] = x
    BY <1>0, <1>3 DEF Sent, CallInv, Unsent, x
  <2>3. ASSUME NEW y \in Client, NEW i \in 1..Len(up'[y]),
               up'[y][i].kind = "request"
        PROVE  /\ From[up'[y][i].call] = y
               /\ pc'[up'[y][i].call] \in Sent
               /\ ran'[up'[y][i].call] = 0
    <3>1. CASE i \in 1..Len(up[y]) /\ up'[y][i] = up[y][i]
      BY <1>0, <2>1, <2>3, <3>1, MsgAt DEF RequestInv
    <3>2. CASE y = x /\ up'[y][i] = m
      BY <1>0, <1>1, <2>2, <3>2
    <3> QED
      BY <1>5, <3>1, <3>2
  <2>4. ASSUME NEW y \in Client, NEW i \in 1..Len(down[y]),
               down[y][i].kind = "request"
        PROVE  /\ To[down[y][i].call] = y
               /\ pc'[down[y][i].call] \in Sent
               /\ ran'[down[y][i].call] = 0
    BY <1>0, <2>1, <2>4, MsgAt DEF RequestInv
  <2> QED
    BY <1>0, <2>3, <2>4 DEF RequestInv
<1>9. OneRequest'
  <2>1. ASSUME NEW y \in Client, NEW i \in 1..Len(up'[y]),
               NEW j \in 1..Len(up'[y]),
               up'[y][i].kind = "request", up'[y][i] = up'[y][j]
        PROVE  i = j
    <3>1. CASE /\ i \in 1..Len(up[y]) /\ up'[y][i] = up[y][i]
               /\ j \in 1..Len(up[y]) /\ up'[y][j] = up[y][j]
      BY <1>0, <2>1, <3>1 DEF OneRequest
    <3>2. CASE up'[y][i] = m
      BY <1>1, <1>5, <1>6, <2>1, <3>2
    <3>3. CASE up'[y][j] = m
      BY <1>1, <1>5, <1>6, <2>1, <3>3
    <3> QED
      BY <1>5, <3>1, <3>2, <3>3
  <2>2. ASSUME NEW y \in Client, NEW z \in Client,
               NEW i \in 1..Len(up'[y]), NEW j \in 1..Len(down[z]),
               up'[y][i].kind = "request"
        PROVE  up'[y][i] # down[z][j]
    <3>1. CASE i \in 1..Len(up[y]) /\ up'[y][i] = up[y][i]
      BY <1>0, <2>2, <3>1 DEF OneRequest
    <3>2. CASE up'[y][i] = m
      BY <1>1, <1>6, <3>2
    <3> QED
      BY <1>5, <3>1, <3>2
  <2>3. \A y \in Client : \A i, j \in 1..Len(down[y]) :
          down[y][i].kind = "request" /\ down[y][i] = down[y][j] => i = j
    BY <1>0 DEF OneRequest
  <2> QED
    BY <1>0, <2>1, <2>2, <2>3 DEF OneRequest
<1>10. ResponseInv'
  BY <1>0, <1>1, <1>5 DEF ResponseInv
<1>11. TypeOK'
  BY <1>0 DEF TypeOK, netVars, loopVars, Returned
<1>12. CallInv' /\ ResultIsReal'
  BY <1>0, <1>3 DEF CallInv, ResultIsReal, At, Unsent
<1> QED
  BY <1>7, <1>8, <1>9, <1>10, <1>11, <1>12 DEF IInv

\* The Router Center moves the first frame of x to its receiver, or drops it.
LEMMA ForwardStep ==
  ASSUME IInv, NEW x \in Client, Forward(x) PROVE IInv'
<1> DEFINE m == Head(up[x])
           y == Receiver(m)
<1>0. /\ TypeOK /\ FrameTypes /\ RequestInv /\ OneRequest /\ ResponseInv
      /\ CallInv /\ ResultIsReal /\ up[x] # <<>>
      /\ down' = [down EXCEPT ![y] = IF listed[y] THEN Append(@, m) ELSE @]
      /\ up' = [up EXCEPT ![x] = Tail(@)]
      /\ UNCHANGED <<netVars, loopVars, serving, callVars, ran>>
  BY DEF IInv, Forward
<1>1. up[x] \in Seq(Msg)
  BY <1>0 DEF FrameTypes
<1>2. m \in Msg /\ m = up[x][1] /\ 1 \in 1..Len(up[x])
  BY <1>0, <1>1, HeadOf
<1>3. /\ y \in Client /\ m.call \in Call /\ m.kind \in {"request", "response"}
      /\ m.kind = "request" => y = To[m.call]
  BY <1>2, CallAssumption DEF Msg, Receiver
<1> HIDE DEF m, y
<1>4. up'[x] = Tail(up[x]) /\ \A z \in Client : z # x => up'[z] = up[z]
  BY <1>0 DEF FrameTypes
<1>5. /\ Tail(up[x]) \in Seq(Msg) /\ Len(Tail(up[x])) = Len(up[x]) - 1
      /\ Len(up[x]) \in Nat
      /\ \A i \in 1..(Len(up[x]) - 1) : Tail(up[x])[i] = up[x][i + 1]
  BY <1>0, <1>1, <1>2, SeqFacts
<1>6. /\ \A i \in 1..Len(up'[x]) : i + 1 \in 1..Len(up[x]) /\ i + 1 # 1
                                   /\ up'[x][i] = up[x][i + 1]
      /\ \A z \in Client : \A i \in 1..Len(up'[z]) :
           \E k \in 1..Len(up[z]) : up'[z][i] = up[z][k]
  <2>1. \A i \in 1..Len(up'[x]) : i + 1 \in 1..Len(up[x]) /\ i + 1 # 1
                                  /\ up'[x][i] = up[x][i + 1]
    BY <1>4, <1>5
  <2> QED
    BY <1>4, <2>1
<1>7. down[y] \in Seq(Msg) /\ down[y] \in Seq(Msg) /\ Len(down[y]) \in Nat
  BY <1>0, <1>3 DEF FrameTypes
<1>8. /\ \A z \in Client : z # y => down'[z] = down[z]
      /\ down'[y] = down[y] \/ down'[y] = Append(down[y], m)
  BY <1>0, <1>3 DEF FrameTypes
<1>9. /\ down'[y] \in Seq(Msg)
      /\ \A i \in 1..Len(down'[y]) :
           \/ i \in 1..Len(down[y]) /\ down'[y][i] = down[y][i]
           \/ i = Len(down[y]) + 1 /\ down'[y][i] = m
  <2>1. CASE down'[y] = down[y]
    BY <1>7, <2>1
  <2>2. CASE down'[y] = Append(down[y], m)
    <3>1. /\ down'[y] \in Seq(Msg) /\ Len(down'[y]) = Len(down[y]) + 1
          /\ \A i \in 1..Len(down[y]) : down'[y][i] = down[y][i]
          /\ down'[y][Len(down[y]) + 1] = m
      BY <1>2, <1>7, <2>2, SeqFacts
    <3> QED
      BY <1>7, <3>1
  <2> QED
    BY <1>8, <2>1, <2>2
<1>10. \A z \in Client : \A i \in 1..Len(down'[z]) :
         \/ i \in 1..Len(down[z]) /\ down'[z][i] = down[z][i]
         \/ z = y /\ i = Len(down[y]) + 1 /\ down'[z][i] = m
  BY <1>8, <1>9
<1>11. FrameTypes'
  BY <1>0, <1>4, <1>5, <1>8, <1>9 DEF FrameTypes
<1>12. ran' = ran /\ pc' = pc /\ futures' = futures /\ done' = done
  BY <1>0 DEF callVars
<1>13. \* m is the only request of its call.
       m.kind = "request" =>
         /\ \A z \in Client : \A i \in 1..Len(up'[z]) : up'[z][i] # m
         /\ \A z \in Client : \A i \in 1..Len(down[z]) : down[z][i] # m
  <2> SUFFICES ASSUME m.kind = "request"
               PROVE  /\ \A z \in Client : \A i \in 1..Len(up'[z]) : up'[z][i] # m
                      /\ \A z \in Client : \A i \in 1..Len(down[z]) : down[z][i] # m
    OBVIOUS
  <2>1. ASSUME NEW z \in Client, NEW i \in 1..Len(up'[z]), up'[z][i] = m
        PROVE  FALSE
    <3>1. PICK k \in 1..Len(up[z]) : up'[z][i] = up[z][k]
      BY <1>6
    <3>2. From[m.call] = z /\ From[m.call] = x
      <4>1. up[z][k] = m
        BY <2>1, <3>1
      <4>2. From[up[z][k].call] = z
        BY <1>0, <4>1 DEF RequestInv
      <4>3. From[up[x][1].call] = x
        BY <1>0, <1>2 DEF RequestInv
      <4> QED
        BY <1>2, <4>1, <4>2, <4>3
    <3>3. i + 1 \in 1..Len(up[x]) /\ i + 1 # 1 /\ up[x][i + 1] = up[x][1]
      BY <1>2, <1>6, <2>1, <3>2
    <3> QED
      BY <1>0, <1>2, <3>3 DEF OneRequest
  <2>2. ASSUME NEW z \in Client, NEW i \in 1..Len(down[z])
        PROVE  down[z][i] # m
    BY <1>0, <1>2 DEF OneRequest
  <2> QED
    BY <2>1, <2>2
<1>14. RequestInv'
  <2>1. ASSUME NEW z \in Client, NEW i \in 1..Len(up'[z]),
               up'[z][i].kind = "request"
        PROVE  /\ From[up'[z][i].call] = z
               /\ pc[up'[z][i].call] \in Sent
               /\ ran[up'[z][i].call] = 0
    <3>1. PICK k \in 1..Len(up[z]) : up'[z][i] = up[z][k]
      BY <1>6
    <3> QED
      BY <1>0, <2>1, <3>1 DEF RequestInv
  <2>2. ASSUME NEW z \in Client, NEW i \in 1..Len(down'[z]),
               down'[z][i].kind = "request"
        PROVE  /\ To[down'[z][i].call] = z
               /\ pc[down'[z][i].call] \in Sent
               /\ ran[down'[z][i].call] = 0
    <3>1. CASE i \in 1..Len(down[z]) /\ down'[z][i] = down[z][i]
      BY <1>0, <2>2, <3>1 DEF RequestInv
    <3>2. CASE z = y /\ down'[z][i] = m
      BY <1>0, <1>2, <1>3, <2>2, <3>2 DEF RequestInv
    <3> QED
      BY <1>10, <3>1, <3>2
  <2> QED
    BY <1>12, <2>1, <2>2 DEF RequestInv
<1>15. ResponseInv'
  <2>1. ASSUME NEW z \in Client, NEW i \in 1..Len(up'[z]),
               up'[z][i].kind = "response"
        PROVE  ran[up'[z][i].call] = 1
    <3>1. PICK k \in 1..Len(up[z]) : up'[z][i] = up[z][k]
      BY <1>6
    <3> QED
      BY <1>0, <2>1, <3>1 DEF ResponseInv
  <2>2. ASSUME NEW z \in Client, NEW i \in 1..Len(down'[z]),
               down'[z][i].kind = "response"
        PROVE  ran[down'[z][i].call] = 1
    BY <1>0, <1>2, <1>10, <2>2 DEF ResponseInv
  <2> QED
    BY <1>12, <2>1, <2>2 DEF ResponseInv
<1>16. OneRequest'
  <2>1. ASSUME NEW z \in Client, NEW i \in 1..Len(up'[z]),
               NEW j \in 1..Len(up'[z]),
               up'[z][i].kind = "request", up'[z][i] = up'[z][j]
        PROVE  i = j
    <3>1. \A k, l \in 1..Len(up[z]) :
            up[z][k].kind = "request" /\ up[z][k] = up[z][l] => k = l
      BY <1>0 DEF OneRequest
    <3>2. CASE z # x
      BY <1>4, <2>1, <3>1, <3>2
    <3>3. CASE z = x
      <4>1. /\ i + 1 \in 1..Len(up[x]) /\ up'[x][i] = up[x][i + 1]
            /\ j + 1 \in 1..Len(up[x]) /\ up'[x][j] = up[x][j + 1]
        BY <1>6, <3>3
      <4>2. i + 1 = j + 1
        BY <2>1, <3>1, <3>3, <4>1
      <4>3. i \in Nat /\ j \in Nat
        OBVIOUS
      <4> QED
        BY <4>2, <4>3
    <3> QED
      BY <3>2, <3>3
  <2>2. ASSUME NEW z \in Client, NEW i \in 1..Len(down'[z]),
               NEW j \in 1..Len(down'[z]),
               down'[z][i].kind = "request", down'[z][i] = down'[z][j]
        PROVE  i = j
    <3>1. CASE i \in 1..Len(down[z]) /\ j \in 1..Len(down[z])
      <4>1. down[z][i].kind = "request" /\ down[z][i] = down[z][j]
        BY <1>7, <1>10, <2>2, <3>1
      <4> QED
        BY <1>0, <3>1, <4>1 DEF OneRequest
    <3>2. CASE ~(i \in 1..Len(down[z]) /\ j \in 1..Len(down[z]))
      <4>1. down'[z][i] = m /\ m.kind = "request" /\ z = y
        BY <1>10, <2>2, <3>2
      <4>2. /\ i \in 1..Len(down[z]) => down[z][i] # m
            /\ j \in 1..Len(down[z]) => down[z][j] # m
        BY <1>13, <4>1
      <4>3. i = Len(down[y]) + 1
        BY <1>10, <4>1, <4>2
      <4>4. j = Len(down[y]) + 1
        BY <1>10, <2>2, <4>1, <4>2
      <4> QED
        BY <4>3, <4>4
    <3> QED
      BY <3>1, <3>2
  <2>3. ASSUME NEW z \in Client, NEW v \in Client,
               NEW i \in 1..Len(up'[z]), NEW j \in 1..Len(down'[v]),
               up'[z][i].kind = "request"
        PROVE  up'[z][i] # down'[v][j]
    <3>1. PICK k \in 1..Len(up[z]) : up'[z][i] = up[z][k]
      BY <1>6
    <3>2. CASE j \in 1..Len(down[v]) /\ down'[v][j] = down[v][j]
      BY <1>0, <2>3, <3>1, <3>2 DEF OneRequest
    <3>3. CASE down'[v][j] = m
      BY <1>13, <2>3, <3>3
    <3> QED
      BY <1>10, <3>2, <3>3
  <2> QED
    BY <2>1, <2>2, <2>3 DEF OneRequest
<1>17. TypeOK'
  BY <1>0 DEF TypeOK, netVars, loopVars, callVars
<1>18. CallInv' /\ ResultIsReal'
  BY <1>0 DEF CallInv, ResultIsReal, At, callVars
<1> QED
  BY <1>11, <1>14, <1>15, <1>16, <1>17, <1>18 DEF IInv

\* A read loop takes the first frame.
LEMMA TakeFrame ==
  ASSUME FrameTypes, OneRequest, NEW x \in Client, down[x] # <<>>,
         down' = [down EXCEPT ![x] = Tail(@)], up' = up
  PROVE  /\ FrameTypes' /\ OneRequest'
         /\ 1 \in 1..Len(down[x]) /\ Head(down[x]) = down[x][1]
         /\ \A z \in Client : \A i \in 1..Len(down'[z]) :
              \E k \in 1..Len(down[z]) : down'[z][i] = down[z][k]
         /\ down[x][1].kind = "request" =>
              \A i \in 1..Len(down'[x]) : down'[x][i] # down[x][1]
<1>1. down[x] \in Seq(Msg)
  BY DEF FrameTypes
<1>2. down'[x] = Tail(down[x]) /\ \A z \in Client : z # x => down'[z] = down[z]
  BY DEF FrameTypes
<1>3. 1 \in 1..Len(down[x]) /\ Head(down[x]) = down[x][1] /\ down[x][1] \in Msg
  BY <1>1, HeadOf
<1>4. /\ Tail(down[x]) \in Seq(Msg) /\ Len(Tail(down[x])) = Len(down[x]) - 1
      /\ Len(down[x]) \in Nat
      /\ \A i \in 1..(Len(down[x]) - 1) : Tail(down[x])[i] = down[x][i + 1]
  BY <1>1, <1>3, SeqFacts
<1>5. \A i \in 1..Len(down'[x]) : i + 1 \in 1..Len(down[x]) /\ i + 1 # 1
                                  /\ down'[x][i] = down[x][i + 1]
  <2>1. Len(down'[x]) = Len(down[x]) - 1
    BY <1>2, <1>4
  <2>2. ASSUME NEW i \in 1..Len(down'[x])
        PROVE  i \in 1..(Len(down[x]) - 1)
    BY <2>1
  <2>3. ASSUME NEW i \in 1..(Len(down[x]) - 1)
        PROVE  /\ i + 1 \in 1..Len(down[x]) /\ i + 1 # 1
               /\ Tail(down[x])[i] = down[x][i + 1]
    BY <1>4
  <2> QED
    BY <1>2, <2>2, <2>3
<1>6. FrameTypes'
  BY <1>2, <1>4 DEF FrameTypes
<1>7. \A z \in Client : \A i \in 1..Len(down'[z]) :
        \E k \in 1..Len(down[z]) : down'[z][i] = down[z][k]
  BY <1>2, <1>5
<1>8. down[x][1].kind = "request" =>
        \A i \in 1..Len(down'[x]) : down'[x][i] # down[x][1]
  <2> SUFFICES ASSUME down[x][1].kind = "request",
                      NEW i \in 1..Len(down'[x]), down'[x][i] = down[x][1]
               PROVE  FALSE
    OBVIOUS
  <2>1. i + 1 \in 1..Len(down[x]) /\ i + 1 # 1 /\ down[x][1] = down[x][i + 1]
    BY <1>5
  <2> QED
    BY <1>3, <2>1 DEF OneRequest
<1>9. OneRequest'
  <2>1. ASSUME NEW z \in Client, NEW i \in 1..Len(down'[z]),
               NEW j \in 1..Len(down'[z]),
               down'[z][i].kind = "request", down'[z][i] = down'[z][j]
        PROVE  i = j
    <3>1. \A k, l \in 1..Len(down[z]) :
            down[z][k].kind = "request" /\ down[z][k] = down[z][l] => k = l
      BY DEF OneRequest
    <3>2. CASE z # x
      BY <1>2, <2>1, <3>1, <3>2
    <3>3. CASE z = x
      <4>1. /\ i + 1 \in 1..Len(down[x]) /\ down'[x][i] = down[x][i + 1]
            /\ j + 1 \in 1..Len(down[x]) /\ down'[x][j] = down[x][j + 1]
        BY <1>5, <3>3
      <4>2. i + 1 = j + 1
        BY <2>1, <3>1, <3>3, <4>1
      <4>3. i \in Nat /\ j \in Nat
        OBVIOUS
      <4> QED
        BY <4>2, <4>3
    <3> QED
      BY <3>2, <3>3
  <2>2. ASSUME NEW z \in Client, NEW v \in Client,
               NEW i \in 1..Len(up[z]), NEW j \in 1..Len(down'[v]),
               up[z][i].kind = "request"
        PROVE  up[z][i] # down'[v][j]
    <3>1. PICK k \in 1..Len(down[v]) : down'[v][j] = down[v][k]
      BY <1>7
    <3> QED
      BY <2>2, <3>1 DEF OneRequest
  <2>3. \A z \in Client : \A i, j \in 1..Len(up[z]) :
          up[z][i].kind = "request" /\ up[z][i] = up[z][j] => i = j
    BY DEF OneRequest
  <2> QED
    BY <2>1, <2>2, <2>3 DEF OneRequest
<1> QED
  BY <1>3, <1>6, <1>7, <1>8, <1>9

\* The frames that are left are as they were.
LEMMA TakeKeeps ==
  ASSUME RequestInv, ResponseInv,
         \A z \in Client : \A i \in 1..Len(down'[z]) :
           \E k \in 1..Len(down[z]) : down'[z][i] = down[z][k],
         up' = up, pc' = pc, ran' = ran
  PROVE  RequestInv' /\ ResponseInv'
<1>1. ASSUME NEW z \in Client, NEW i \in 1..Len(down'[z])
      PROVE  /\ down'[z][i].kind = "request" =>
                  /\ To[down'[z][i].call] = z
                  /\ pc[down'[z][i].call] \in Sent
                  /\ ran[down'[z][i].call] = 0
             /\ down'[z][i].kind = "response" => ran[down'[z][i].call] = 1
  <2>1. PICK k \in 1..Len(down[z]) : down'[z][i] = down[z][k]
    OBVIOUS
  <2> QED
    BY <2>1 DEF RequestInv, ResponseInv
<1>2. RequestInv'
  BY <1>1 DEF RequestInv
<1>3. ResponseInv'
  BY <1>1 DEF ResponseInv
<1> QED
  BY <1>2, <1>3

\* The stub runs: this was the only request of its call.
LEMMA ServeStep ==
  ASSUME IInv, NEW x \in Client, ReceiveRequest(x) PROVE IInv'
<1> DEFINE c == Head(down[x]).call
<1>0. /\ TypeOK /\ FrameTypes /\ RequestInv /\ OneRequest /\ ResponseInv
      /\ CallInv /\ ResultIsReal
      /\ down[x] # <<>> /\ Head(down[x]).kind = "request"
      /\ serving' = [serving EXCEPT ![x] = @ \cup {c}]
      /\ ran' = [ran EXCEPT ![c] = @ + 1]
      /\ loops[x] > 0 /\ loops' = [loops EXCEPT ![x] = @ - 1]
      /\ down' = [down EXCEPT ![x] = Tail(@)]
      /\ up' = up
      /\ UNCHANGED <<netVars, crashed, between, callVars>>
  BY DEF IInv, ReceiveRequest, Invoke
<1>1. /\ FrameTypes' /\ OneRequest'
      /\ 1 \in 1..Len(down[x]) /\ Head(down[x]) = down[x][1]
      /\ \A z \in Client : \A i \in 1..Len(down'[z]) :
           \E k \in 1..Len(down[z]) : down'[z][i] = down[z][k]
      /\ \A i \in 1..Len(down'[x]) : down'[x][i] # down[x][1]
  BY <1>0, TakeFrame
<1>2. /\ c \in Call /\ To[c] = x /\ pc[c] \in Sent /\ ran[c] = 0
      /\ down[x][1].kind = "request" /\ down[x][1].call = c
  BY <1>0, <1>1, MsgAt DEF RequestInv
<1> HIDE DEF c
<1>3. /\ \A d \in Call : ran'[d] = IF d = c THEN 1 ELSE ran[d]
      /\ ran' \in [Call -> Nat]
  BY <1>0, <1>2 DEF TypeOK
<1>4. \A z \in Client : \A i \in 1..Len(up[z]) :
        up[z][i].kind = "request" => up[z][i].call # c
  <2> SUFFICES ASSUME NEW z \in Client, NEW i \in 1..Len(up[z]),
                      up[z][i].kind = "request", up[z][i].call = c
               PROVE  FALSE
    OBVIOUS
  <2>1. up[z][i] \in Msg /\ down[x][1] \in Msg
    BY <1>0, <1>1 DEF FrameTypes
  <2>2. up[z][i] = down[x][1]
    BY <1>2, <2>1 DEF Msg
  <2> QED
    BY <1>0, <1>1, <2>2 DEF OneRequest
<1>5. \A z \in Client : \A i \in 1..Len(down'[z]) :
        down'[z][i].kind = "request" => down'[z][i].call # c
  <2> SUFFICES ASSUME NEW z \in Client, NEW i \in 1..Len(down'[z]),
                      down'[z][i].kind = "request", down'[z][i].call = c
               PROVE  FALSE
    OBVIOUS
  <2>1. PICK k \in 1..Len(down[z]) : down'[z][i] = down[z][k]
    BY <1>1
  <2>2. z = x
    BY <1>0, <1>2, <2>1 DEF RequestInv
  <2>3. down[z][k] \in Msg /\ down[x][1] \in Msg
    BY <1>0, <1>1 DEF FrameTypes
  <2>4. down'[z][i] = down[x][1]
    BY <1>2, <2>1, <2>3 DEF Msg
  <2> QED
    BY <1>1, <2>2, <2>4
<1>6. RequestInv'
  <2>1. ASSUME NEW z \in Client, NEW i \in 1..Len(up[z]),
               up[z][i].kind = "request"
        PROVE  /\ From[up[z][i].call] = z
               /\ pc[up[z][i].call] \in Sent
               /\ ran'[up[z][i].call] = 0
    BY <1>0, <1>3, <1>4, <2>1, MsgAt DEF RequestInv
  <2>2. ASSUME NEW z \in Client, NEW i \in 1..Len(down'[z]),
               down'[z][i].kind = "request"
        PROVE  /\ To[down'[z][i].call] = z
               /\ pc[down'[z][i].call] \in Sent
               /\ ran'[down'[z][i].call] = 0
    <3>1. PICK k \in 1..Len(down[z]) : down'[z][i] = down[z][k]
      BY <1>1
    <3>2. /\ down[z][k].kind = "request" /\ down[z][k].call \in Call
          /\ down[z][k].call # c
      BY <1>0, <1>5, <2>2, <3>1, MsgAt
    <3>3. /\ To[down[z][k].call] = z /\ pc[down[z][k].call] \in Sent
          /\ ran[down[z][k].call] = 0
      BY <1>0, <3>2 DEF RequestInv
    <3> QED
      BY <1>3, <3>1, <3>2, <3>3
  <2>3. up' = up /\ pc' = pc
    BY <1>0 DEF callVars
  <2> QED
    BY <2>1, <2>2, <2>3 DEF RequestInv
<1>7. ResponseInv'
  <2>1. ASSUME NEW z \in Client, NEW i \in 1..Len(up[z]),
               up[z][i].kind = "response"
        PROVE  ran'[up[z][i].call] = 1
    BY <1>0, <1>3, <2>1, MsgAt DEF ResponseInv
  <2>2. ASSUME NEW z \in Client, NEW i \in 1..Len(down'[z]),
               down'[z][i].kind = "response"
        PROVE  ran'[down'[z][i].call] = 1
    <3>1. PICK k \in 1..Len(down[z]) : down'[z][i] = down[z][k]
      BY <1>1
    <3> QED
      BY <1>0, <1>3, <2>2, <3>1, MsgAt DEF ResponseInv
  <2> QED
    BY <1>0, <2>1, <2>2 DEF ResponseInv
<1>8. TypeOK'
  <2>1. loops' \in [Client -> Nat]
    BY <1>0 DEF TypeOK
  <2>2. serving' \in [Client -> SUBSET Call]
    BY <1>0, <1>2 DEF TypeOK
  <2> QED
    BY <1>0, <1>3, <2>1, <2>2 DEF TypeOK, netVars, callVars
<1>9. CallInv'
  <2>1. pc[c] \notin Unsent \cup {"failed", "local"}
    BY <1>2 DEF Sent, Unsent
  <2>2. \A z \in Client : \A d \in serving'[z] : d = c \/ d \in serving[z]
    BY <1>0 DEF TypeOK
  <2>3. \A z \in Client : \A d \in serving'[z] : ran'[d] = 1
    BY <1>0, <1>3, <2>2 DEF CallInv, TypeOK
  <2> QED
    BY <1>0, <1>3, <2>1, <2>3 DEF CallInv, callVars
<1>10. ResultIsReal'
  BY <1>0, <1>3 DEF ResultIsReal, At, callVars
<1> QED
  BY <1>1, <1>6, <1>7, <1>8, <1>9, <1>10 DEF IInv

\* A response completes the future, if it is still there.
LEMMA CompleteStep ==
  ASSUME IInv, NEW x \in Client, ReceiveResponse(x) PROVE IInv'
<1> DEFINE c == Head(down[x]).call
<1>0. /\ TypeOK /\ FrameTypes /\ RequestInv /\ OneRequest /\ ResponseInv
      /\ CallInv /\ ResultIsReal
      /\ down[x] # <<>> /\ Head(down[x]).kind = "response"
      /\ futures' = [futures EXCEPT ![x] = @ \ {c}]
      /\ done' = done \cup ({c} \cap futures[x])
      /\ down' = [down EXCEPT ![x] = Tail(@)]
      /\ UNCHANGED <<netVars, loopVars, serving, up, ran, pc>>
  BY DEF IInv, ReceiveResponse, Complete
<1>1. /\ FrameTypes' /\ OneRequest'
      /\ 1 \in 1..Len(down[x]) /\ Head(down[x]) = down[x][1]
      /\ \A z \in Client : \A i \in 1..Len(down'[z]) :
           \E k \in 1..Len(down[z]) : down'[z][i] = down[z][k]
  BY <1>0, TakeFrame
<1>2. c \in Call /\ ran[c] = 1
  BY <1>0, <1>1, MsgAt DEF ResponseInv
<1> HIDE DEF c
<1>3. RequestInv' /\ ResponseInv'
  BY <1>0, <1>1, TakeKeeps
<1>4. \A z \in Client : futures'[z] = IF z = x THEN futures[z] \ {c} ELSE futures[z]
  BY <1>0 DEF TypeOK
<1>5. \A d \in Call : d \in futures'[From[d]] => d \in futures[From[d]]
  BY <1>4, CallAssumption
<1>6. \A d \in done' : d \in done \/ (d = c /\ c \in futures[x] /\ From[c] = x)
  BY <1>0 DEF TypeOK
<1>7. TypeOK'
  BY <1>0, <1>2 DEF TypeOK, netVars, loopVars
<1>8. CallInv'
  <2>1. \A d \in Call : d \in done' => ran[d] = 1 /\ d \notin futures'[From[d]]
    <3> SUFFICES ASSUME NEW d \in Call, d \in done'
                 PROVE  ran[d] = 1 /\ d \notin futures'[From[d]]
      OBVIOUS
    <3>1. CASE d \in done
      BY <1>0, <1>5, <3>1 DEF CallInv
    <3>2. CASE d = c /\ From[c] = x
      BY <1>2, <1>4, <3>2
    <3> QED
      BY <1>6, <3>1, <3>2
  <2> QED
    BY <1>0, <1>5, <2>1 DEF CallInv
<1>9. ResultIsReal'
  BY <1>0, <1>5 DEF ResultIsReal, At
<1> QED
  BY <1>1, <1>3, <1>7, <1>8, <1>9 DEF IInv

\* A frame that two read loops tore apart is gone.
LEMMA GarbleStep ==
  ASSUME IInv, NEW x \in Client, Garble(x) PROVE IInv'
<1>0. /\ TypeOK /\ FrameTypes /\ RequestInv /\ OneRequest /\ ResponseInv
      /\ CallInv /\ ResultIsReal
      /\ down[x] # <<>> /\ down' = [down EXCEPT ![x] = Tail(@)]
      /\ UNCHANGED <<netVars, loopVars, serving, up, callVars, ran>>
  BY DEF IInv, Garble
<1>1. FrameTypes' /\ OneRequest'
  BY <1>0, TakeFrame
<1>2. RequestInv' /\ ResponseInv'
  BY <1>0, TakeFrame, TakeKeeps DEF callVars
<1>3. TypeOK'
  BY <1>0 DEF TypeOK, netVars, loopVars, callVars
<1>4. CallInv' /\ ResultIsReal'
  BY <1>0 DEF CallInv, ResultIsReal, At, callVars
<1> QED
  BY <1>1, <1>2, <1>3, <1>4 DEF IInv

\* The response of a call that was run joins the frames of its target.
LEMMA RespondStep ==
  ASSUME IInv, NEW x \in Client, NEW c \in Call, Respond(x, c) PROVE IInv'
<1> DEFINE m == Frame("response", c)
<1>0. /\ TypeOK /\ FrameTypes /\ RequestInv /\ OneRequest /\ ResponseInv
      /\ CallInv /\ ResultIsReal /\ c \in serving[x]
      /\ serving' = [serving EXCEPT ![x] = @ \ {c}]
      /\ up' = [up EXCEPT ![x] = IF open[x] THEN Append(@, m) ELSE @]
      /\ between' = [between EXCEPT ![x] = @ + 1]
      /\ UNCHANGED <<netVars, crashed, loops, down, callVars, ran>>
  BY DEF IInv, Respond
<1>1. m \in Msg /\ m.kind = "response" /\ m.call = c /\ ran[c] = 1
  BY <1>0 DEF Frame, Msg, CallInv
<1> HIDE DEF m
<1>2. /\ \A y \in Client : y # x => up'[y] = up[y]
      /\ up'[x] = up[x] \/ up'[x] = Append(up[x], m)
      /\ up[x] \in Seq(Msg) /\ Len(up[x]) \in Nat
  BY <1>0 DEF FrameTypes
<1>3. /\ up'[x] \in Seq(Msg)
      /\ \A i \in 1..Len(up'[x]) :
           \/ i \in 1..Len(up[x]) /\ up'[x][i] = up[x][i]
           \/ up'[x][i] = m
  <2>1. CASE up'[x] = up[x]
    BY <1>2, <2>1
  <2>2. CASE up'[x] = Append(up[x], m)
    <3>1. /\ up'[x] \in Seq(Msg) /\ Len(up'[x]) = Len(up[x]) + 1
          /\ \A i \in 1..Len(up[x]) : up'[x][i] = up[x][i]
          /\ up'[x][Len(up[x]) + 1] = m
      BY <1>1, <1>2, <2>2, SeqFacts
    <3> QED
      BY <1>2, <3>1
  <2> QED
    BY <1>2, <2>1, <2>2
<1>4. \A y \in Client : \A i \in 1..Len(up'[y]) :
        \/ i \in 1..Len(up[y]) /\ up'[y][i] = up[y][i]
        \/ up'[y][i] = m
  BY <1>2, <1>3
<1>5. FrameTypes'
  BY <1>0, <1>2, <1>3 DEF FrameTypes
<1>6. /\ \A y \in Client : \A i \in 1..Len(up'[y]) :
           up'[y][i].kind = "request" =>
             i \in 1..Len(up[y]) /\ up'[y][i] = up[y][i]
      /\ down' = down /\ ran' = ran /\ pc' = pc
  BY <1>0, <1>1, <1>4 DEF callVars
<1>7. RequestInv'
  BY <1>0, <1>6 DEF RequestInv
<1>8. ResponseInv'
  BY <1>0, <1>1, <1>4, <1>6 DEF ResponseInv
<1>9. OneRequest'
  BY <1>0, <1>6 DEF OneRequest
<1>10. TypeOK'
  <2>1. between' \in [Client -> Nat]
    BY <1>0 DEF TypeOK
  <2>2. serving' \in [Client -> SUBSET Call]
    BY <1>0 DEF TypeOK
  <2> QED
    BY <1>0, <2>1, <2>2 DEF TypeOK, netVars, callVars
<1>11. CallInv'
  BY <1>0 DEF CallInv, TypeOK, callVars
<1>12. ResultIsReal'
  BY <1>0 DEF ResultIsReal, At, callVars
<1> QED
  BY <1>5, <1>7, <1>8, <1>9, <1>10, <1>11, <1>12 DEF IInv

-----------------------------------------------------------------------------
(* The network.                                                            *)

\* Read loops move to another connection or end, with or without their
\* process.
LEMMA LoopStep ==
  ASSUME TypeOK, NEW x \in Client, Resume(x) \/ HeartbeatPanics(x)
  PROVE  /\ UNCHANGED <<netVars, up, down, callVars, ran>>
         /\ crashed' \in [Client -> BOOLEAN]
         /\ loops' \in [Client -> Nat] /\ between' \in [Client -> Nat]
         /\ serving' \in [Client -> SUBSET Call]
         /\ \A y \in Client : serving'[y] \subseteq serving[y]
<1>1. CASE Panic(x)
  BY <1>1 DEF Panic, TypeOK
<1>2. CASE /\ between[x] > 0 /\ between' = [between EXCEPT ![x] = @ - 1]
           /\ loops' = [loops EXCEPT ![x] = IF open[x] THEN @ + 1 ELSE @]
           /\ UNCHANGED <<netVars, crashed, serving, up, down, callVars, ran>>
  <2>1. between' \in [Client -> Nat]
    BY <1>2 DEF TypeOK
  <2>2. loops' \in [Client -> Nat]
    BY <1>2 DEF TypeOK
  <2> QED
    BY <1>2, <2>1, <2>2 DEF TypeOK
<1> QED
  BY <1>1, <1>2 DEF Resume, HeartbeatPanics

LEMMA NetStep ==
  ASSUME IInv, NEW x \in Client,
         \/ Drop(x) \/ Reconnect(x) \/ Heartbeat(x)
         \/ Resume(x) \/ HeartbeatPanics(x)
  PROVE  IInv'
<1>0. /\ TypeOK /\ FrameTypes /\ RequestInv /\ OneRequest /\ ResponseInv
      /\ CallInv /\ ResultIsReal
  BY DEF IInv
<1>1. /\ UNCHANGED <<futures, done, pc, ran>>
      /\ serving' \in [Client -> SUBSET Call]
      /\ \A y \in Client : serving'[y] \subseteq serving[y]
  <2>1. CASE Drop(x) \/ Reconnect(x) \/ Heartbeat(x)
    BY <1>0, <2>1 DEF Drop, Reconnect, Heartbeat, callVars, TypeOK
  <2>2. CASE Resume(x) \/ HeartbeatPanics(x)
    BY <1>0, <2>2, LoopStep DEF callVars
  <2> QED
    BY <2>1, <2>2
<1>2. CallInv' /\ ResultIsReal'
  BY <1>0, <1>1 DEF CallInv, ResultIsReal, At, TypeOK
<1>3. TypeOK'
  <2>1. /\ open' \in [Client -> BOOLEAN] /\ listed' \in [Client -> BOOLEAN]
        /\ crashed' \in [Client -> BOOLEAN]
        /\ loops' \in [Client -> Nat] /\ between' \in [Client -> Nat]
        /\ drops' \in 0..MaxDrop
    <3>1. CASE Drop(x)
      <4>1. drops' \in 0..MaxDrop
        BY <1>0, <3>1, CallAssumption DEF TypeOK, Drop
      <4>2. PICK n \in 0..loops[x] : between' = [between EXCEPT ![x] = @ + n]
        BY <3>1 DEF Drop
      <4>3. between' \in [Client -> Nat]
        BY <1>0, <4>2 DEF TypeOK
      <4> QED
        BY <1>0, <3>1, <4>1, <4>3 DEF TypeOK, Drop
    <3>2. CASE Reconnect(x)
      BY <1>0, <3>2 DEF TypeOK, Reconnect
    <3>3. CASE Heartbeat(x)
      BY <1>0, <3>3 DEF TypeOK, Heartbeat, loopVars
    <3>4. CASE Resume(x) \/ HeartbeatPanics(x)
      BY <1>0, <3>4, LoopStep DEF TypeOK, netVars
    <3> QED
      BY <3>1, <3>2, <3>3, <3>4
  <2> QED
    BY <1>0, <1>1, <2>1 DEF TypeOK
<1>4. CASE Drop(x)
  <2>1. PICK n \in 0..Len(up[x]) : up' = [up EXCEPT ![x] = SubSeq(@, 1, n)]
    BY <1>4 DEF Drop
  <2>2. down' = [down EXCEPT ![x] = <<>>]
    BY <1>4 DEF Drop
  <2>3. /\ \A y \in Client : y # x => up'[y] = up[y] /\ down'[y] = down[y]
        /\ up[x] \in Seq(Msg) /\ up'[x] = SubSeq(up[x], 1, n)
        /\ down'[x] = <<>> /\ Len(down'[x]) = 0
    BY <1>0, <2>1, <2>2 DEF FrameTypes
  <2>4. /\ up'[x] \in Seq(Msg) /\ Len(up'[x]) = n
        /\ \A i \in 1..n : up'[x][i] = up[x][i]
    <3>1. \A i \in 1..n : up[x][i] \in Msg
      BY <2>3
    <3> QED
      BY <2>3, <3>1
  <2>5. /\ \A y \in Client : \A i \in 1..Len(up'[y]) :
             i \in 1..Len(up[y]) /\ up'[y][i] = up[y][i]
        /\ \A y \in Client : \A i \in 1..Len(down'[y]) :
             i \in 1..Len(down[y]) /\ down'[y][i] = down[y][i]
    <3>1. Len(up[x]) \in Nat /\ n \in 0..Len(up[x])
      BY <2>3
    <3>2. \A i \in 1..Len(up'[x]) : i \in 1..Len(up[x]) /\ up'[x][i] = up[x][i]
      BY <2>4, <3>1
    <3>3. \A i \in 1..Len(down'[x]) : FALSE
      BY <2>3
    <3> QED
      BY <2>3, <3>2, <3>3
  <2>6. FrameTypes'
    <3>1. <<>> \in Seq(Msg)
      OBVIOUS
    <3> QED
      BY <1>0, <2>1, <2>2, <2>3, <2>4, <3>1 DEF FrameTypes
  <2>7. RequestInv'
    <3>1. ASSUME NEW y \in Client, NEW i \in 1..Len(up'[y]),
                 up'[y][i].kind = "request"
          PROVE  /\ From[up'[y][i].call] = y
                 /\ pc[up'[y][i].call] \in Sent
                 /\ ran[up'[y][i].call] = 0
      <4>1. i \in 1..Len(up[y]) /\ up'[y][i] = up[y][i]
        BY <2>5
      <4>2. \A k \in 1..Len(up[y]) :
              up[y][k].kind = "request" =>
                /\ From[up[y][k].call] = y
                /\ pc[up[y][k].call] \in Sent
                /\ ran[up[y][k].call] = 0
        BY <1>0 DEF RequestInv
      <4> QED
        BY <3>1, <4>1, <4>2
    <3>2. ASSUME NEW y \in Client, NEW i \in 1..Len(down'[y]),
                 down'[y][i].kind = "request"
          PROVE  /\ To[down'[y][i].call] = y
                 /\ pc[down'[y][i].call] \in Sent
                 /\ ran[down'[y][i].call] = 0
      BY <1>0, <2>5, <3>2 DEF RequestInv
    <3>3. pc' = pc /\ ran' = ran
      BY <1>1
    <3> QED
      BY <3>1, <3>2, <3>3, Zenon DEF RequestInv
  <2>8. ResponseInv'
    <3>1. ASSUME NEW y \in Client, NEW i \in 1..Len(up'[y]),
                 up'[y][i].kind = "response"
          PROVE  ran[up'[y][i].call] = 1
      BY <1>0, <2>5, <3>1 DEF ResponseInv
    <3>2. ASSUME NEW y \in Client, NEW i \in 1..Len(down'[y]),
                 down'[y][i].kind = "response"
          PROVE  ran[down'[y][i].call] = 1
      BY <1>0, <2>5, <3>2 DEF ResponseInv
    <3>3. ran' = ran
      BY <1>1
    <3> QED
      BY <3>1, <3>2, <3>3, Zenon DEF ResponseInv
  <2>9. OneRequest'
    <3>1. ASSUME NEW y \in Client, NEW i \in 1..Len(up'[y]),
                 NEW j \in 1..Len(up'[y]),
                 up'[y][i].kind = "request", up'[y][i] = up'[y][j]
          PROVE  i = j
      BY <1>0, <2>5, <3>1 DEF OneRequest
    <3>2. ASSUME NEW y \in Client, NEW i \in 1..Len(down'[y]),
                 NEW j \in 1..Len(down'[y]),
                 down'[y][i].kind = "request", down'[y][i] = down'[y][j]
          PROVE  i = j
      BY <1>0, <2>5, <3>2 DEF OneRequest
    <3>3. ASSUME NEW y \in Client, NEW z \in Client,
                 NEW i \in 1..Len(up'[y]), NEW j \in 1..Len(down'[z]),
                 up'[y][i].kind = "request"
          PROVE  up'[y][i] # down'[z][j]
      <4>1. /\ i \in 1..Len(up[y]) /\ up'[y][i] = up[y][i]
            /\ j \in 1..Len(down[z]) /\ down'[z][j] = down[z][j]
        BY <2>5
      <4>2. \A k \in 1..Len(up[y]) : \A l \in 1..Len(down[z]) :
              up[y][k].kind = "request" => up[y][k] # down[z][l]
        BY <1>0 DEF OneRequest
      <4> QED
        BY <3>3, <4>1, <4>2
    <3> QED
      BY <3>1, <3>2, <3>3 DEF OneRequest
  <2> QED
    BY <1>2, <1>3, <2>6, <2>7, <2>8, <2>9 DEF IInv
<1>5. CASE \/ Reconnect(x) \/ Heartbeat(x)
           \/ Resume(x) \/ HeartbeatPanics(x)
  <2>1. up' = up /\ down' = down /\ pc' = pc /\ ran' = ran
    BY <1>0, <1>1, <1>5, LoopStep DEF Reconnect, Heartbeat
  <2>2. FrameTypes'
    BY <1>0, <2>1 DEF FrameTypes
  <2>3. OneRequest'
    BY <1>0, <2>1 DEF OneRequest
  <2>4. RequestInv'
    BY <1>0, <2>1 DEF RequestInv
  <2>5. ResponseInv'
    BY <1>0, <2>1 DEF ResponseInv
  <2> QED
    BY <1>2, <1>3, <2>2, <2>3, <2>4, <2>5 DEF IInv
<1> QED
  BY <1>4, <1>5

LEMMA StepIInv == IInv /\ [Next]_vars => IInv'
<1> SUFFICES ASSUME IInv, [Next]_vars PROVE IInv'
  OBVIOUS
<1>1. CASE UNCHANGED vars
  <2>1. TypeOK'
    BY <1>1 DEF vars, IInv, TypeOK
  <2>2. FrameTypes' /\ ResponseInv'
    BY <1>1 DEF vars, IInv, FrameTypes, ResponseInv
  <2>3. RequestInv'
    BY <1>1 DEF vars, IInv, RequestInv
  <2>4. OneRequest'
    BY <1>1 DEF vars, IInv, OneRequest
  <2>5. CallInv' /\ ResultIsReal'
    BY <1>1 DEF vars, IInv, CallInv, ResultIsReal, At
  <2> QED
    BY <2>1, <2>2, <2>3, <2>4, <2>5 DEF IInv
<1>2. ASSUME NEW c \in Call, Begin(c) \/ CallStep(c) PROVE IInv'
  BY <1>2, MoveStep, RegisterStep, LocalStep, RequestStep DEF CallStep
<1>3. ASSUME NEW x \in Client, Forward(x) \/ ReadStep(x) PROVE IInv'
  BY <1>3, ForwardStep, ServeStep, CompleteStep DEF ReadStep
<1>4. ASSUME NEW x \in Client, Garble(x) PROVE IInv'
  BY <1>4, GarbleStep
<1> QED
  BY <1>1, <1>2, <1>3, <1>4, RespondStep, NetStep DEF Next

LEMMA Invariance == Spec => []IInv
  BY InitIInv, StepIInv, PTL DEF Spec

-----------------------------------------------------------------------------
(* RelayRpc implements Rpc.                                                *)

LEMMA InitRefines == Init => Promise!Init
  BY DEF Init, Promise!Init, Status, Told

\* A call moves, and nothing else does.
LEMMA StatusMoves ==
  ASSUME IInv, NEW c \in Call, NEW p, pc' = [pc EXCEPT ![c] = p]
  PROVE  /\ Status' = [Status EXCEPT ![c] = Told(p)]
         /\ Status[c] = Told(pc[c])
         /\ Told(p) = Told(pc[c]) => Status' = Status
<1>1. pc \in [Call -> Places]
  BY DEF IInv, TypeOK, Places
<1>2. \A d \in Call : pc'[d] = IF d = c THEN p ELSE pc[d]
  BY <1>1
<1>3. Status' = [d \in Call |-> Told(pc'[d])]
  BY DEF Status, Told
<1>4. Status' = [d \in Call |-> IF d = c THEN Told(p) ELSE Told(pc[d])]
  BY <1>2, <1>3
<1>5. Status = [d \in Call |-> Told(pc[d])]
  BY DEF Status
<1>6. [Status EXCEPT ![c] = Told(p)]
        = [d \in Call |-> IF d = c THEN Told(p) ELSE Told(pc[d])]
  BY <1>5
<1> QED
  BY <1>4, <1>5, <1>6

\* A step of a caller is what the caller sees of it.
LEMMA CallRefines ==
  ASSUME IInv, NEW c \in Call, Begin(c) \/ CallStep(c)
  PROVE  [Promise!Next]_(Promise!vars)
<1> USE DEF At, Goto, Told, Returned, Promise!Become
<1>0. /\ pc[c] \in Unsent => ran[c] = 0
      /\ pc[c] = "local" => ran[c] = 1
      /\ c \in done => ran[c] = 1
  BY DEF IInv, CallInv
<1>1. CASE Begin(c)
  <2>1. PICK p \in {"prepare", "await"} : pc' = [pc EXCEPT ![c] = p]
    BY <1>1 DEF Begin
  <2>2. Promise!Issue(c)
    BY <1>1, <2>1, StatusMoves DEF Begin, Promise!Issue
  <2> QED
    BY <2>2 DEF Promise!Next
<1>2. CASE InvokeLocal(c)
  <2>1. pc' = [pc EXCEPT ![c] = "local"] /\ ran' = [ran EXCEPT ![c] = @ + 1]
    BY <1>2 DEF InvokeLocal, Invoke
  <2>2. pc[c] = "prepare" /\ ran[c] = 0
    BY <1>0, <1>2 DEF InvokeLocal, Unsent
  <2>3. ran' = [ran EXCEPT ![c] = 1]
    BY <2>1, <2>2
  <2>4. Status' = Status /\ Status[c] = "pending"
    <3>1. pc' = [pc EXCEPT ![c] = "local"]
      BY <2>1
    <3>2. Told("local") = Told(pc[c]) /\ Told(pc[c]) = "pending"
      BY <2>2
    <3> QED
      BY <3>1, <3>2, StatusMoves
  <2>5. Promise!Execute(c)
    BY <2>2, <2>3, <2>4 DEF Promise!Execute
  <2> QED
    BY <2>5 DEF Promise!Next
<1>3. CASE ReturnLocal(c) \/ AwaitResult(c)
  <2>1. /\ pc' = [pc EXCEPT ![c] = "ok"] /\ ran' = ran
        /\ ran[c] = 1 /\ pc[c] \in {"local", "wait"}
    BY <1>0, <1>3 DEF ReturnLocal, AwaitResult
  <2>2. Promise!Succeed(c)
    BY <2>1, StatusMoves DEF Promise!Succeed
  <2> QED
    BY <2>2 DEF Promise!Next
<1>4. CASE AwaitTimeout(c)
  <2>1. pc' = [pc EXCEPT ![c] = "timeout"] /\ ran' = ran /\ pc[c] = "wait"
    BY <1>4 DEF AwaitTimeout
  <2>2. Promise!TimeOut(c)
    BY <2>1, StatusMoves DEF Promise!TimeOut
  <2> QED
    BY <2>2 DEF Promise!Next
<1>5. CASE \/ AwaitConnected(c) \/ Register(c) \/ SendRequest(c)
           \/ SendFails(c) \/ Retry(c)
  <2>1. PICK p \in {"prepare", "send", "wait", "retry", "resend", "failed"} :
          /\ pc' = [pc EXCEPT ![c] = p] /\ ran' = ran
          /\ pc[c] \in {"await", "prepare", "send", "resend", "retry"}
    BY <1>5 DEF AwaitConnected, Register, SendRequest, SendFails, Retry
  <2>2. CASE p = "failed"
    <3>1. Promise!Fail(c)
      BY <1>0, <2>1, <2>2, StatusMoves DEF Promise!Fail, Unsent
    <3> QED
      BY <3>1 DEF Promise!Next
  <2>3. CASE p # "failed"
    BY <2>1, <2>3, StatusMoves DEF Promise!vars
  <2> QED
    BY <2>2, <2>3
<1> QED
  BY <1>1, <1>2, <1>3, <1>4, <1>5 DEF CallStep

\* The stub of a call is run by a request on its way, which no call that
\* failed or succeeded has.
LEMMA ServeRefines ==
  ASSUME IInv, NEW x \in Client, ReceiveRequest(x)
  PROVE  [Promise!Next]_(Promise!vars)
<1> DEFINE c == Head(down[x]).call
<1>1. /\ FrameTypes /\ RequestInv /\ OneRequest /\ ResultIsReal
      /\ down[x] # <<>> /\ Head(down[x]).kind = "request"
      /\ ran' = [ran EXCEPT ![c] = @ + 1] /\ pc' = pc
  BY DEF IInv, ReceiveRequest, Invoke, callVars
<1>2. down[x] \in Seq(Msg)
  BY <1>1 DEF FrameTypes
<1>3. 1 \in 1..Len(down[x]) /\ Head(down[x]) = down[x][1]
  BY <1>1, <1>2, HeadOf
<1>4. c \in Call /\ pc[c] \in Sent /\ ran[c] = 0
  BY <1>1, <1>3, MsgAt DEF RequestInv
<1> HIDE DEF c
<1>5. pc[c] \in {"wait", "timeout"}
  BY <1>1, <1>4 DEF Sent, ResultIsReal, At
<1>6. Status' = Status /\ Status[c] \in {"pending", "timeout"}
  BY <1>1, <1>4, <1>5 DEF Status, Told, Returned
<1>7. Promise!Execute(c)
  BY <1>1, <1>4, <1>6 DEF Promise!Execute
<1> QED
  BY <1>4, <1>7 DEF Promise!Next

LEMMA StepRefines == IInv /\ [Next]_vars => [Promise!Next]_(Promise!vars)
<1> SUFFICES ASSUME IInv, [Next]_vars PROVE [Promise!Next]_(Promise!vars)
  OBVIOUS
<1>1. CASE UNCHANGED <<pc, ran>>
  <2>1. Status' = Status
    BY <1>1 DEF Status, Told
  <2> QED
    BY <1>1, <2>1 DEF Promise!vars
<1>2. ASSUME NEW x \in Client,
             \/ Forward(x) \/ ReceiveResponse(x) \/ Garble(x) \/ Resume(x)
             \/ (\E c \in Call : Respond(x, c))
             \/ Drop(x) \/ Reconnect(x) \/ Heartbeat(x) \/ HeartbeatPanics(x)
      PROVE  UNCHANGED <<pc, ran>>
  BY <1>2 DEF Forward, ReceiveResponse, Garble, Resume, Respond, Drop,
              Reconnect, Heartbeat, HeartbeatPanics, Panic, callVars
<1>3. CASE UNCHANGED vars
  BY <1>1, <1>3 DEF vars
<1> QED
  BY <1>1, <1>2, <1>3, CallRefines, ServeRefines DEF Next, ReadStep

-----------------------------------------------------------------------------
(* The theorems.                                                           *)

\* Calls, futures, stubs and connections keep their types, and a future is
\* kept by the caller whose response completes it.
THEOREM TypeCorrect == Spec => []TypeOK
<1>1. IInv => TypeOK
  BY DEF IInv
<1> QED
  BY <1>1, Invariance, PTL

\* RelayClient.Call sends again after a failure, connections are lost and
\* come back: the stub of a call is not invoked twice.
THEOREM StubRunsAtMostOnce == Spec => []AtMostOnce
<1>1. IInv => AtMostOnce
  BY DEF IInv, CallInv, AtMostOnce
<1> QED
  BY <1>1, Invariance, PTL

\* A call that returns a result was run, and no other response can complete
\* its future.
THEOREM ResultsAreReal == Spec => []ResultIsReal
<1>1. IInv => ResultIsReal
  BY DEF IInv
<1> QED
  BY <1>1, Invariance, PTL

\* Whatever is lost, retried or delayed, the caller is told no more than
\* what becomes of the stub: a call that failed is never run.
THEOREM CallsKeepTheirPromise == Spec => ImplementsRpc
  BY InitRefines, StepRefines, Invariance, PTL
     DEF Spec, ImplementsRpc, Promise!Spec

=============================================================================
