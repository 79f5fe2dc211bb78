------------------------------ MODULE MCEditor ------------------------------
(***************************************************************************)
(* Editor with interchangeable calls.                                       *)
(***************************************************************************)
EXTENDS Editor, TLC

Symmetry == Permutations(Call)

=============================================================================
