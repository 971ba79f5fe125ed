----------------------------- MODULE MCProjects -----------------------------
(* Instances of Projects for TLC.                                          *)
EXTENDS Projects, TLC

EveryKind == AllKinds \ {"propose"}

Symmetry == Permutations(Commands)
=============================================================================
