---------------------------- MODULE MCInstanceForm ----------------------------
(* Instances of InstanceForm: two regions, of which one has two zones. *)
EXTENDS InstanceForm, TLC

CONSTANTS r1, r2, z1, z2, z3
RegionZones == (r1 :> {z1, z2}) @@ (r2 :> {z3})
TypesAlike  == Permutations(Types)
=============================================================================
