------------------------------ MODULE MCRoster ------------------------------
(***************************************************************************)
(* The instance of Roster for TLC, which needs no definitions.             *)
(***************************************************************************)
EXTENDS Roster

=============================================================================
