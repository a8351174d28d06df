------------------------- MODULE MCRegistrationSync -------------------------
(* RegistrationSync on small instances. *)
EXTENDS RegistrationSync, TLC

\* Jobs in Taiwan's zone, and half a day ahead of it.
Zones == {0, 1}
TaiwanOnly == {0}

Symmetry == Permutations(Refreshers) \cup Permutations(Runners)
=============================================================================
