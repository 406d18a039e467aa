-------------------------- MODULE MCInstanceStore --------------------------
(* Instances of InstanceStore: few hosts and few calls in flight at once. *)
EXTENDS InstanceStore, TLC
CallsAlike == Permutations(Chains)
Alike      == Permutations(Chains) \cup Permutations(Hosts)
=============================================================================
