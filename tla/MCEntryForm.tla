---------------------------- MODULE MCEntryForm -----------------------------
(* The specification is finite as it stands: its bounds are constants. *)
EXTENDS EntryForm

=============================================================================
