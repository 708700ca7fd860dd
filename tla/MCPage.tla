------------------------------- MODULE MCPage -------------------------------
EXTENDS Page, TLC

=============================================================================
