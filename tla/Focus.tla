------------------------------- MODULE Focus --------------------------------
(***************************************************************************)
(* Parts that share no state are checked together, one at a time: each     *)
(* behaviour moves the part `focus` names, and the others rest.            *)
(***************************************************************************)
VARIABLE focus
=============================================================================
