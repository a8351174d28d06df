----------------------------- MODULE MCCatalog -----------------------------
(* Catalog on a small instance. *)
EXTENDS Catalog, TLC

Symmetry == Permutations(Registrations) \cup Permutations(Certificates)
              \cup Permutations(Authorizations) \cup Permutations(Editions)
              \cup Permutations(Feeds)
=============================================================================
