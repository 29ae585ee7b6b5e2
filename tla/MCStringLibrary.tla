--------------------------- MODULE MCStringLibrary ---------------------------
(***************************************************************************)
(* A small instance of StringLibrary for TLC: three strings, and numbers   *)
(* that leave the readable range within two of them.                       *)
(***************************************************************************)
EXTENDS StringLibrary, TLC

Symmetry == Permutations(String)

=============================================================================
