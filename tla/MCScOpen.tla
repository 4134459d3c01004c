---------------------------- MODULE MCScOpen --------------------------------
(***************************************************************************)
(* ScOpen with an ssh that sends sequences of ESC, "H" and NUL of any      *)
(* length, in any pieces: ESC H is a complete escape sequence, H and NUL   *)
(* are text, and ESC NUL is malformed.                                     *)
(***************************************************************************)
EXTENDS ScOpen

MCLines == {<<NL>>, <<"A", NL>>, <<"A">>}
MCSshBytes == {ESC, "H", NUL}
=============================================================================
