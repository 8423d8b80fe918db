---- MODULE MCFlatStore ----
(* Small instances of FlatStore. *)
EXTENDS FlatStoreInvariant, TLC
\* Payload values are only compared and copied.
Symmetry == Permutations(Payload)
====
