----------------------------- MODULE MCRecBuf -------------------------------
(***************************************************************************)
(* The buffers, of one or two bytes each at the start, so that every one   *)
(* of them grows, and with text that holds NUL bytes.                      *)
(***************************************************************************)
EXTENDS RecBuf

MCChars == {"A", NUL}
MCSizes == [ips1 |-> 1, out |-> 2, ps1 |-> 1, s_out |-> 1, s_ps1 |-> 2]
=============================================================================
