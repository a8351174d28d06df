---------------------------- MODULE MCCatalogTx ----------------------------
(* CatalogTx on small instances. *)
EXTENDS CatalogTx, TLC

Symmetry == Permutations(Clients) \cup Permutations(Registrations)
              \cup Permutations(Certificates) \cup Permutations(Authorizations)
              \cup Permutations(Editions) \cup Permutations(Feeds)
=============================================================================
