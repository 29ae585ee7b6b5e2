---------------------------- MODULE MCTamedFolders ----------------------------
(* Three dinos and no restart, so that the timer's loop can skip one; two      *)
(* dinos and a restart; one dino and three restarts, of which two can lose     *)
(* folders of the same kind, and the third what was added after them; one dino *)
(* to which players give folders with the names of the plugin's, two of them,  *)
(* or one before or after restarts.                                            *)
EXTENDS TamedFolders

MCBounds ==
  {[dinos |-> 3, restarts |-> 0, other |-> 0, named |-> 0, credited |-> 0],
   [dinos |-> 2, restarts |-> 1, other |-> 0, named |-> 0, credited |-> 0],
   [dinos |-> 1, restarts |-> 3, other |-> 1, named |-> 0, credited |-> 1],
   [dinos |-> 1, restarts |-> 2, other |-> 0, named |-> 1, credited |-> 1],
   [dinos |-> 1, restarts |-> 1, other |-> 0, named |-> 2, credited |-> 1]}
=============================================================================
