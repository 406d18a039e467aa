----------------------------- MODULE MCRouteTrie -----------------------------
(* Instances of RouteTrie: domains over two bytes, hosts one byte longer   *)
(* than the longest domain.                                                *)
EXTENDS RouteTrie
Words(n)    == UNION {[1 .. k -> Bytes] : k \in 1 .. n}
ShortWords  == Words(3)
LongerWords == Words(4)
=============================================================================
