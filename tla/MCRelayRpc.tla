----------------------------- MODULE MCRelayRpc -----------------------------
(***************************************************************************)
(* Instances of RelayRpc for TLC.  Client a calls b, whose stub calls back *)
(* to a, whose stub makes a call to its own client.                        *)
(***************************************************************************)
EXTENDS RelayRpc

CONSTANTS a, b, c1, c2, c3

MCFrom == [c \in Call |-> IF c = c2 THEN b ELSE a]
MCTo == [c \in Call |-> IF c = c1 THEN b ELSE a]
MCParent ==
  [c \in Call |-> CASE c = c1 -> NoCall [] c = c2 -> c1 [] c = c3 -> c2]

=============================================================================
