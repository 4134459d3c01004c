----------------------------- MODULE MCDialogue -----------------------------
(***************************************************************************)
(* A session with a command that has output, one that only changes the     *)
(* prompt, one whose output holds a NUL, and lines with and without a      *)
(* newline.                                                                *)
(***************************************************************************)
EXTENDS Dialogue

MCLines == {<<NL>>, <<"A", NL>>, <<"A">>}
MCLoginPs1 == <<">">>
MCReplies == {[out |-> <<"A", "7">>, ps1 |-> <<">">>],
              [out |-> <<>>,         ps1 |-> <<"#", " ">>],
              [out |-> <<"A", NUL>>, ps1 |-> <<"?">>]}
=============================================================================
