---------------------------- MODULE MCGenerator -----------------------------
(* The specification is finite as it stands: its bounds are constants. *)
EXTENDS Generator

=============================================================================
