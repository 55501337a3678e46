------------------------------- MODULE SqlNull -------------------------------
(***************************************************************************)
(* Null stands for the SQL NULL, for a row that is not there, and for      *)
(* TypeScript's null and undefined.                                        *)
(***************************************************************************)
CONSTANT Null
=============================================================================
