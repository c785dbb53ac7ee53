------------------------------ MODULE Registry ------------------------------
(***************************************************************************)
(* What the Router Center promises its clients, without goroutines, locks  *)
(* or messages: an id has one holder; it changes hands only by being given *)
(* up; who is told that it is registered is registered; and a holder never *)
(* loses its id behind its back, the same step closes its connection.      *)
(* RouterCenter is shown to implement this specification.                  *)
(***************************************************************************)

CONSTANTS Id,    \* what is registered
          Node,  \* who registers, by its connection
          None   \* no holder

VARIABLES holder,  \* the node that holds an id
          told,    \* the nodes that were told that they hold theirs
          closed   \* the nodes the registry has hung up on

registryVars == <<holder, told, closed>>

Holders == {n \in Node : \E i \in Id : holder[i] = n}

RegistryInit ==
  /\ holder = [i \in Id |-> None]
  /\ told = {}
  /\ closed = {}

\* A free id is given to a node that holds none.
Join(n, i) ==
  /\ holder[i] = None
  /\ n \notin Holders
  /\ holder' = [holder EXCEPT ![i] = n]
  /\ UNCHANGED <<told, closed>>

Tell(n) ==
  /\ n \in Holders \ closed
  /\ told' = told \cup {n}
  /\ UNCHANGED <<holder, closed>>

\* Ids become free, and their holders and perhaps another node, who held
\* nothing, are hung up on.
Leave(ids, others) ==
  /\ others \cap Holders = {}
  /\ holder' = [i \in Id |-> IF i \in ids THEN None ELSE holder[i]]
  /\ closed' = closed \cup others
                 \cup {n \in Node : \E i \in ids : holder[i] = n}
  /\ UNCHANGED told

RegistryNext ==
  \/ \E n \in Node : \/ \E i \in Id : Join(n, i)
                     \/ Tell(n)
                     \/ Leave({}, {n})
  \/ \E ids \in SUBSET Id : Leave(ids, {})

RegistrySpec == RegistryInit /\ [][RegistryNext]_registryVars

=============================================================================
