---------------------------- MODULE MCEventWriter ----------------------------
(***************************************************************************)
(* A small instance of EventWriter for TLC: a short and a long message and *)
(* one that no packet has room for, a packet of at most two messages or    *)
(* four bytes, files of six bytes, so that packets fill up by either limit *)
(* and files are rotated.                                                  *)
(***************************************************************************)
EXTENDS EventWriter

CONSTANTS short, long, huge

MCSize == (short :> 1) @@ (long :> 3) @@ (huge :> 5)

\* An empty folder, one with room in its last file, one without.
MCInitFiles == {<< >>, <<6, 2>>, <<3>>}

=============================================================================
