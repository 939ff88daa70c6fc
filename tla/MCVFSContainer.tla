--------------------------- MODULE MCVFSContainer ---------------------------
(* Model checking of VFSContainer: values and symmetry. *)
EXTENDS VFSContainer, TLC

Symmetry == Permutations(Paths) \cup Permutations(Users) \cup Permutations(Requests)
=============================================================================
