------------------------------- MODULE MCWire -------------------------------
(***************************************************************************)
(* Wire with two-digit integers of base 6: integers up to 35, payloads of  *)
(* 8 to 13 bytes against a limit of 12, RPC payloads on both sides of the  *)
(* base and of their limit.                                                *)
(***************************************************************************)
EXTENDS Wire

MCMessages ==
  [from : {<<>>, <<3>>}, to : {<<1>>}, type : {{LastType}, {LastType + 1}},
   data : {{}, {<<>>}, {<<2>>}}]
    \cup [from : {<<>>, <<0>>}, to : {<<>>}, type : {{}}, data : {{}, {<<3>>}}]

MCRpcPayload == {[i \in 1..n |-> i % Base] : n \in {0, 1, 5, 6, 7, 9}}

=============================================================================
