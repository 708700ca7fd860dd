-------------------------- MODULE MCClientSession --------------------------
EXTENDS ClientSession, TLC

\* Accounts and slots are interchangeable: no action tells them apart.
Symmetry ==
  Permutations(Accounts) \cup Permutations(Saves) \cup Permutations(Deletes)

=============================================================================
