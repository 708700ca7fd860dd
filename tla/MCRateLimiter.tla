--------------------------- MODULE MCRateLimiter ---------------------------
(* Instances of RateLimiter for TLC.                                       *)
EXTENDS RateLimiter, TLC

\* Requests are interchangeable, and so are addresses.  Used by the safety
\* runs only: symmetry is unsound for liveness.
Symmetry == Permutations(Requests) \cup Permutations(Ips)
=============================================================================
