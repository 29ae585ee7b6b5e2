---------------------------- MODULE ConsoleThreads ----------------------------
(* The threads that change what the console shows.                             *)

Thread == {"game", "console"}
Other(t) == IF t = "game" THEN "console" ELSE "game"

=============================================================================
