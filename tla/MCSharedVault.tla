--------------------------- MODULE MCSharedVault ----------------------------
EXTENDS SharedVault, TLC

\* Requests, emails and passwords are interchangeable; so are tabs, but there
\* are too few of them for that to be worth its time.
Symmetry ==
  Permutations(Requests) \cup Permutations(Emails) \cup Permutations(Passwords)

=============================================================================
