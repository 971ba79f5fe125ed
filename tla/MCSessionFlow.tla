--------------------------- MODULE MCSessionFlow ---------------------------
(* Instances of SessionFlow for TLC. *)
EXTENDS SessionFlow, TLC

\* Windows of two chats, each with a home of its own.
CONSTANTS w1, w2, h1, h2

TwoChats == (w1 :> h1) @@ (w2 :> h2)

\* One window.
OneWindow == w1 :> h1

\* Requests and sessions are told apart by nothing but their names.
Symmetry == Permutations(Requests) \cup Permutations(Sessions)
=============================================================================
