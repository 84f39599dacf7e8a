--------------------------- MODULE MCClientConnection ---------------------------
(* Clients do not differ from one another, nor do keys. *)
EXTENDS ClientConnection, TLC

Symmetry == Permutations(Clients) \cup Permutations(Keys)
=============================================================================
