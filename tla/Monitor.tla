------------------------------ MODULE Monitor -------------------------------
(***************************************************************************)
(* The HTTP monitor: tokens, the configuration and debug calls share a     *)
(* clock and a process.  When the process stops it forgets all but the     *)
(* file, and pages get no answers; they may get none at any other time.    *)
(***************************************************************************)
EXTENDS AdminConfig, DebugRpc

vars == <<tokenVars, configVars, debugVars>>

Init == TokenInit /\ ConfigInit /\ DebugInit

Stopping == Stop /\ DebugStop /\ UNCHANGED tokenVars

\* The page that asked for the update gets the answer, or is gone.
Updating ==
  /\ \E q \in Request : WriteFile(q)
  /\ (\E t \in Tab : Updated(t)) \/ UNCHANGED tokenVars
  /\ UNCHANGED debugVars

\* An answer of the process to a tab, a step of the browser or of the clock.
TokenNext ==
  \/ Running /\ \E t \in Tab : Serve(t)
  \/ \E t \in Tab : Browse(t)
  \/ Second

Next ==
  \/ ConfigStep /\ UNCHANGED <<tokenVars, debugVars>>
  \/ Updating
  \/ Stopping
  \/ TokenNext /\ UNCHANGED <<configVars, debugVars>>
  \/ /\ Running
     /\ NodeStep \/ \E c \in Call : CallStep(c)
     /\ UNCHANGED <<tokenVars, configVars>>

Spec == Init /\ [][Next]_vars

\* The types of all three parts.
TypeOK == TokenTypeOK /\ ConfigTypeOK /\ DebugTypeOK

=============================================================================
