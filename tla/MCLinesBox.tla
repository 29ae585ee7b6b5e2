------------------------------- MODULE MCLinesBox ------------------------------
(* Boxes of one row, of a track of one row and of more, more lines than fit in any. *)
EXTENDS LinesBox

MCHeights == {1, 3, 6}

=============================================================================
