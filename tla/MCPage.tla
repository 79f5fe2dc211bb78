------------------------------- MODULE MCPage -------------------------------
(***************************************************************************)
(* Page, its lookups those of MCLookups.                                    *)
(***************************************************************************)
EXTENDS Page, MCLookups

=============================================================================
