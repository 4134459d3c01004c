------------------------------- MODULE MCUcIa -------------------------------
(***************************************************************************)
(* The interactive front-end with buffers of a few bytes, so that lines    *)
(* shorter and longer than each of them are typed.                         *)
(***************************************************************************)
EXTENDS UcIa

MCBytes == {NL, NUL, "a"}
=============================================================================
