----------------------------- MODULE MCRitualist -----------------------------
(* Instances of Ritualist for TLC. *)
EXTENDS Ritualist, TLC

Symmetry == Permutations(Ids) \cup Permutations(Slots)

QueueSymmetry == Permutations(Clients) \cup Permutations(Slots)

=============================================================================
