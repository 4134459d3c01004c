----------------------------- MODULE MCSession ------------------------------
(***************************************************************************)
(* Sessions of any number of lines, up to two bytes each, with answers in  *)
(* up to two pieces.                                                       *)
(***************************************************************************)
EXTENDS Session
=============================================================================
