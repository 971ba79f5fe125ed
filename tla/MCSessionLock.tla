--------------------------- MODULE MCSessionLock ---------------------------
(* Instances of SessionLock for TLC. *)
EXTENDS SessionLock, TLC

\* Requests are told apart by nothing but their name.
Symmetry == Permutations(Requests) \cup Permutations(Cancellers)
=============================================================================
