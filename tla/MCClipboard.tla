---------------------------- MODULE MCClipboard -----------------------------
EXTENDS Clipboard, TLC

\* No action tells the clicks apart.
Symmetry == Permutations(Copies)

=============================================================================
