------------------------------ MODULE MCSettings ------------------------------
(* Instances of Settings: two saves of the common page at once. *)
EXTENDS Settings, TLC
Alike == Permutations(Savers)
=============================================================================
