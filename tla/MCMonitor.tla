----------------------------- MODULE MCMonitor ------------------------------
(***************************************************************************)
(* Monitor for TLC: a short and a long password, the generated file being  *)
(* as long as the short one's, two debug calls and two tabs.  The parts    *)
(* meet in the token, the clock and the process only, so debug calls are   *)
(* made before the first update, with one of the files and after the page  *)
(* has started.  Calls and updates are made by one tab with the first      *)
(* token; two tabs are open before either, with one of the files.          *)
(***************************************************************************)
EXTENDS Monitor, TLC

CONSTANTS short, long

MCPassword == {short, long}

MCSize == (short :> 1) @@ (long :> 2) @@ (Root :> 1) @@ (Blank :> 1)

Symmetry ==
  Permutations(Request) \cup Permutations(Call) \cup Permutations(Tab)

Debugging == offered \/ \E c \in Call : state[c] # "new"

OneTab ==
  /\ \A t, u \in Tab : page[t] # "closed" /\ page[u] # "closed" => t = u
  /\ \A t \in Tab : page[t] \in {"closed", "load", "validating", "in", "login", "entering",
                           "admitted"}
  /\ cookie \in {0, TokenExpire}

FewRequests ==
  /\ Debugging => /\ updates = 0 /\ stops <= 1 /\ file.text = short
                  /\ \A t \in Tab : page[t] \in {"closed", "in"}
  /\ updates > 0 => clock <= 1
  /\ ~OneTab => ~Debugging /\ updates = 0 /\ stops = 0 /\ file.text = short

=============================================================================
