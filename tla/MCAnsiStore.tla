---------------------------- MODULE MCAnsiStore -----------------------------
(***************************************************************************)
(* All streams of eleven bytes that stand for the classes, five at a time. *)
(* An argument of 70 fits, one of 77 does not, nor do three arguments.     *)
(***************************************************************************)
EXTENDS AnsiStore

MCInput == {ESC, "[", "]", "#", "7", "0", ";", "?", "m", "bel", NUL}
=============================================================================
