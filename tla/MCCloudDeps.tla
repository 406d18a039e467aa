----------------------------- MODULE MCCloudDeps -----------------------------
(* Instances of CloudDeps: two zones in one region, one in another, which  *)
(* shares its number.                                                      *)
EXTENDS CloudDeps, TLC

CONSTANTS r1, r2, z1, z2, z3
ZoneRegion == (z1 :> r1) @@ (z2 :> r1) @@ (z3 :> r2)
ZoneIdx    == (z1 :> 1) @@ (z2 :> 2) @@ (z3 :> 1)
Alike      == Permutations(Attempts)
=============================================================================
