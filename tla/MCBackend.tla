---- MODULE MCBackend ----
(* Instances of Backend: three starts of the proxy, two of the ping. *)
EXTENDS Backend
====
