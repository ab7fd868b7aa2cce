--------------------------- MODULE MCReviewDomains ---------------------------
(* Instances of ReviewDomains for TLC. *)
EXTENDS ReviewDomains, TLC

ReviewSymmetry == Permutations(Clients)
=============================================================================
