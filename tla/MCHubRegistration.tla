-------------------------- MODULE MCHubRegistration -------------------------
EXTENDS HubRegistration, TLC
Symmetry == Permutations(Ops) \cup Permutations(Audiences)
=============================================================================
