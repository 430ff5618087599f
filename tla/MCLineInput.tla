---------------------------- MODULE MCLineInput ----------------------------
(***************************************************************************)
(* Instances of LineInput for TLC: buffers of a few places, screens of a   *)
(* few columns, tabs of two.                                               *)
(***************************************************************************)
EXTENDS LineInputInv

=============================================================================
