------------------------------- MODULE MCPlugin -------------------------------
(* The one updater of the code, of two statements, and a later one of one;   *)
(* three loads, so that an install can be cut off, found, and found again by *)
(* an older plugin; two failing statements.                                  *)
EXTENDS Plugin

MCStatements == [v \in 0..1 |-> IF v = 0 THEN 2 ELSE 1]

=============================================================================
