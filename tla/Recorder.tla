------------------------------ MODULE Recorder ------------------------------
(***************************************************************************)
(* What the buffers of the backend and of sc.c are for: the machines       *)
(* record text in them, and when one has accepted, sc.c keeps what is to   *)
(* be shown.  Text has no size here; this is how HpBackend and Sc see it.  *)
(***************************************************************************)
EXTENDS HpBackend

VARIABLES
  hp,                   \* what the machines have recorded
  s_outbuf, s_ps1buf    \* what sc.c keeps for the user

rvars == <<hp, s_outbuf, s_ps1buf>>

RecorderInit == hp = HpInit /\ s_outbuf = <<>> /\ s_ps1buf = <<>>

Record ==
  /\ \E f \in Fsm, a \in {"act_rec", "act_recps", "act_noout"}, c \in Byte :
       hp' = Act(f, a, c, hp)
  /\ UNCHANGED <<s_outbuf, s_ps1buf>>

Reset == hp' = cmdout_reset(hp) /\ UNCHANGED <<s_outbuf, s_ps1buf>>

Keep ==
  /\ \E f \in Fsm : s_outbuf' = Output(f, hp) /\ s_ps1buf' = Prompt(f, hp)
  /\ UNCHANGED hp

Purge == s_outbuf' = <<>> /\ UNCHANGED <<hp, s_ps1buf>>

RecorderSpec == RecorderInit /\ [][Record \/ Reset \/ Keep \/ Purge]_rvars
=============================================================================
