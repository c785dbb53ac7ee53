--------------------------- MODULE MCRouterCenter ---------------------------
(***************************************************************************)
(* Instances of RouterCenter for TLC.  Connections and ids are model       *)
(* values.  The symmetry set is for the safety runs only.                  *)
(***************************************************************************)
EXTENDS RouterCenter, Naturals, FiniteSets, TLC

Symmetry == Permutations(Conn) \cup Permutations(RouteId)

\* Shutdown does nothing but stop Accept: what follows it also happens in a
\* behaviour in which the remaining connections are never made.
BeforeShutdown == accepting

\* At most so many peers are cut off by a silent network at the same time.
SilentBound == 1

\* At most so many handlers are busy with a message they have read, and at
\* most so many of those forward it.  The rest of the handlers read or end.
BusyBound == 2
ForwardBound == 1

Forwarding == {c \in Conn : pc[c] \in {"forward", "write"}}

Busy == Forwarding \cup
        {c \in Conn : pc[c] \in {"heartbeat", "table", "reply", "refuse"}}

Bounds ==
  /\ BeforeShutdown
  /\ Cardinality({c \in Conn : link[c] = "silent"}) <= SilentBound
  /\ Cardinality(Busy) <= BusyBound
  /\ Cardinality(Forwarding) <= ForwardBound

=============================================================================
