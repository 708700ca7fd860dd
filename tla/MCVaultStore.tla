---------------------------- MODULE MCVaultStore ----------------------------
(* Instances of VaultStore for TLC.                                        *)
EXTENDS VaultStore, TLC

\* Requests are interchangeable, and so are users.  Used by the safety runs
\* only (properties of states and of steps): it is unsound for liveness.
Symmetry == Permutations(Requests) \cup Permutations(Users)
=============================================================================
