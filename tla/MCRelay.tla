------------------------------ MODULE MCRelay -------------------------------
(***************************************************************************)
(* From the keyboard to the switch, with buffers of a few bytes: lines     *)
(* that fit, lines as long as the main loop's buffer and longer ones.      *)
(***************************************************************************)
EXTENDS Relay

MCBytes == {NL, NUL, "a", "b"}
MCMemory == {"a", "junk"}
=============================================================================
