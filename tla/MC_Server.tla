----------------------------- MODULE MC_Server ------------------------------
(* Instantiation of Server for TLC: two clients and one descriptor number, *)
(* so that a closed client's number is the next one accept returns.        *)
EXTENDS Server, TLC

MC_Fds == {5}
=============================================================================
