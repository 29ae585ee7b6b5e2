------------------------------- MODULE MCConsole ------------------------------
(* One element of each kind, and one event at a time.                           *)
EXTENDS Console

CONSTANTS loading, control, marker, none

MCControls == {control}

=============================================================================
