----------------------------- MODULE MCJobQueue -----------------------------
(* Instances of JobQueue for TLC. *)
EXTENDS JobQueue, TLC

\* The pods are interchangeable, and None is not one of them.
PodSymmetry == Permutations(Pods)
=============================================================================
