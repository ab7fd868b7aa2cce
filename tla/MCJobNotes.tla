----------------------------- MODULE MCJobNotes -----------------------------
(* Instances of JobNotes for TLC. *)
EXTENDS JobNotes, TLC

NotesSymmetry == Permutations(Clients)
=============================================================================
