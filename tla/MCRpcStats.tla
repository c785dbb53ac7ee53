----------------------------- MODULE MCRpcStats -----------------------------
(***************************************************************************)
(* RpcStats for TLC: routers and goroutines are interchangeable.           *)
(***************************************************************************)
EXTENDS RpcStats, TLC

Symmetry == Permutations(RouterId) \cup Permutations(Handler)

=============================================================================
