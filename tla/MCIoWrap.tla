----------------------------- MODULE MCIoWrap -------------------------------
(***************************************************************************)
(* Two calls that write, in up to three pieces each, and reads in between. *)
(***************************************************************************)
EXTENDS IoWrap
=============================================================================
