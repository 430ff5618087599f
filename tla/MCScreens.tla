------------------------------ MODULE MCScreens ------------------------------
(***************************************************************************)
(* Two terminals with screens of two rows and two columns.                 *)
(***************************************************************************)
EXTENDS Screens

=============================================================================
