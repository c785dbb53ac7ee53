--------------------------- MODULE MCRouterClient ---------------------------
(***************************************************************************)
(* RouterClient for TLC.  Any number of calls of Send multiplies the       *)
(* states; here the application calls it from the end of the first         *)
(* heartbeat loop on, which is after a reconnect, or during and after      *)
(* Shutdown.  Nobody has to call Send, so that this only leaves behaviours *)
(* out, fair ones and others.                                              *)
(***************************************************************************)
EXTENDS RouterClient

SendStarts == pc[send] = "idle" /\ pc'[send] # "idle"

SendsLate == SendStarts => pc[hb(1)] = "done" \/ pc[stop] # "idle"

=============================================================================
