------------------------------ MODULE MCStorage ------------------------------
(***************************************************************************)
(* A small instance of Storage for TLC.  Commands on different dinos do    *)
(* not touch each other's rows, so one dino is enough: four commands give  *)
(* it a folder twice and delete it, or give it a folder, fail to delete    *)
(* it, give it again and delete it after a restart has read both rows.     *)
(***************************************************************************)
EXTENDS Storage

=============================================================================
