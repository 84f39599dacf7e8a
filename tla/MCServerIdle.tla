----------------------------- MODULE MCServerIdle -----------------------------
(* ServerIdle for TLC: interchangeable clients. *)
EXTENDS ServerIdle, TLC

ClientSymmetry == Permutations(Clients)
=============================================================================
