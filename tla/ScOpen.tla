------------------------------- MODULE ScOpen -------------------------------
(***************************************************************************)
(* Sc with nothing assumed about ssh: it may send any byte at any time, be *)
(* it an escape sequence, part of one, a malformed one or text, and it may *)
(* go away at any time.                                                    *)
(***************************************************************************)
EXTENDS Sc

CONSTANTS
  SshBytes,    \* the bytes that may come from ssh
  MaxUnread,   \* bound: bytes from ssh that the machines have not eaten
  MaxText      \* bound: bytes that the current machine has recorded before

ASSUME ScOpenAssumption ==
  SshBytes \subseteq Byte /\ MaxUnread \in Nat /\ MaxText \in Nat

Unread == Len(fromSw) + Len(s_readbuf)
Text   == IF s_curfsm = "init" THEN Len(hp.ips1) ELSE Len(hp.out) + Len(hp.ps1)

SshSendsByte(b) ==
  /\ Unread < MaxUnread /\ Text <= MaxText
  /\ SshSends(<<b>>)

Ssh == (\E b \in SshBytes : SshSendsByte(b)) \/ SshExits

Next == Program \/ Ssh \/ User \/ Idle

Spec     == Init /\ [][Next]_vars
FairSpec == Spec /\ WF_vars(Program)

\* When ssh goes away the program ends; if it was waiting for the user, with the
\* next line.  It does not wait in select for data that will never come, and
\* what ssh sent before is not taken for a complete answer.
SshDeathNoticed == (eof /\ s_state # "READY") ~> exit # "none"
=============================================================================
