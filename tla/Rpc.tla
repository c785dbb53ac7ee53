--------------------------------- MODULE Rpc ---------------------------------
(***************************************************************************)
(* What a remote call promises, apart from clients, frames and             *)
(* connections.  The stub of a call runs at most once.  A call that        *)
(* succeeds has been run; one that fails has not been and never will be,   *)
(* so that its caller may safely make it again; one that times out may     *)
(* have been run, or may be later.                                         *)
(***************************************************************************)
EXTENDS Naturals

CONSTANT Call

VARIABLES
  status,  \* idle, pending, or what the caller was told
  ran      \* how often the stub of a call was run

vars == <<status, ran>>

Init ==
  /\ status = [c \in Call |-> "idle"]
  /\ ran = [c \in Call |-> 0]

Become(c, from, to) ==
  /\ status[c] = from
  /\ status' = [status EXCEPT ![c] = to]

Issue(c) ==
  /\ Become(c, "idle", "pending")
  /\ UNCHANGED ran

\* Requests may be late, never repeated, and none is left of a failed call.
Execute(c) ==
  /\ status[c] \in {"pending", "timeout"}
  /\ ran[c] = 0
  /\ ran' = [ran EXCEPT ![c] = 1]
  /\ UNCHANGED status

Succeed(c) ==
  /\ ran[c] = 1
  /\ Become(c, "pending", "ok")
  /\ UNCHANGED ran

Fail(c) ==
  /\ ran[c] = 0
  /\ Become(c, "pending", "failed")
  /\ UNCHANGED ran

TimeOut(c) ==
  /\ Become(c, "pending", "timeout")
  /\ UNCHANGED ran

Next ==
  \E c \in Call :
    Issue(c) \/ Execute(c) \/ Succeed(c) \/ Fail(c) \/ TimeOut(c)

Spec == Init /\ [][Next]_vars

=============================================================================
