----------------------------- MODULE HpBackend -----------------------------
(***************************************************************************)
(* The three state machines of the HP backend (back/hp/): the initial chat *)
(* ("init"), the output of a command ("cmdout") and the echo of one typed  *)
(* character ("inchar"), with the tokenizer they share.  They record what  *)
(* they see in one set of buffers and flags:                               *)
(*   anykey, report   answers the initial chat asks for                    *)
(*   ips1             the prompt at the end of the initial chat            *)
(*   out, ps1         output of a command and the prompt that follows it   *)
(***************************************************************************)
EXTENDS AnsiSeq

Fsm == {"init", "cmdout", "inchar"}
Tok == {"T_ESEQ", "T_REST", "T_EOF"}

Hp == [anykey : BOOLEAN, report : BOOLEAN,
       ips1 : Seq(Byte), out : Seq(Byte), ps1 : Seq(Byte)]

HpInit == [anykey |-> FALSE, report |-> FALSE,
           ips1 |-> <<>>, out |-> <<>>, ps1 |-> <<>>]

Go(st, act)   == [state |-> st, action |-> act]
Nop(st)       == Go(st, "act_nop")
Err           == Nop("S_ERR")
Row(e, r, f)  == [T_ESEQ |-> e, T_REST |-> r, T_EOF |-> f]

\* license, "press any key", last login, prompt
InitDelta ==
  [S_STA |-> Row(Err,                   Nop("S_LIC"),             Err),
   S_LIC |-> Row(Nop("S_CM1"),          Nop("S_LIC"),             Err),
   S_CM1 |-> Row(Nop("S_CM1"),          Nop("S_ANY"),             Err),
   S_ANY |-> Row(Go("S_CM2", "act_ak"), Nop("S_ANY"),             Err),
   S_CM2 |-> Row(Nop("S_CM2"),          Go("S_LAS","act_report"), Err),
   S_LAS |-> Row(Nop("S_CM3"),          Nop("S_LAS"),             Err),
   S_CM3 |-> Row(Nop("S_CM3"),          Go("S_PS1","act_recps"),  Err),
   S_PS1 |-> Row(Nop("S_CM4"),          Go("S_PS1","act_recps"),  Err),
   S_CM4 |-> Row(Nop("S_CM4"),          Err,                      Nop("S_FIN")),
   S_FIN |-> Row(Err, Err, Err),
   S_ERR |-> Row(Err, Err, Err)]

\* command output followed by a prompt, or just a prompt or a question
CmdoutDelta ==
  [S_STA |-> Row(Nop("S_CM1"), Err,                      Err),
   S_CM1 |-> Row(Nop("S_CM1"), Go("S_OUT", "act_rec"),   Err),
   S_OUT |-> Row(Nop("S_CM2"), Go("S_OUT", "act_rec"),   Err),
   S_CM2 |-> Row(Nop("S_CM2"), Go("S_PS1", "act_recps"), Go("S_FIN", "act_noout")),
   S_PS1 |-> Row(Nop("S_CM3"), Go("S_PS1", "act_recps"), Err),
   S_CM3 |-> Row(Nop("S_CM3"), Err,                      Nop("S_FIN")),
   S_FIN |-> Row(Err, Err, Err),
   S_ERR |-> Row(Err, Err, Err)]

\* Mutant: the echo is taken to be complete without what follows it.
IncharDelta_NoTail ==
  [S_STA |-> Row(Nop("S_CM1"), Err,          Err),
   S_CM1 |-> Row(Err,          Nop("S_INC"), Err),
   S_INC |-> Row(Nop("S_CM2"), Err,          Nop("S_FIN")),
   S_CM2 |-> Row(Nop("S_CM2"), Err,          Nop("S_FIN")),
   S_FIN |-> Row(Err, Err, Err),
   S_ERR |-> Row(Err, Err, Err)]

\* one character between escape sequences
IncharDelta ==
  [S_STA |-> Row(Nop("S_CM1"), Err,          Err),
   S_CM1 |-> Row(Err,          Nop("S_INC"), Err),
   S_INC |-> Row(Nop("S_CM2"), Err,          Err),
   S_CM2 |-> Row(Nop("S_CM2"), Err,          Nop("S_FIN")),
   S_FIN |-> Row(Err, Err, Err),
   S_ERR |-> Row(Err, Err, Err)]

delta == [init |-> InitDelta, cmdout |-> CmdoutDelta, inchar |-> IncharDelta]

FsmStates == [init   |-> {"S_STA", "S_LIC", "S_CM1", "S_ANY", "S_CM2", "S_LAS",
                          "S_CM3", "S_PS1", "S_CM4", "S_FIN", "S_ERR"},
              cmdout |-> {"S_STA", "S_CM1", "S_OUT", "S_CM2", "S_PS1", "S_CM3",
                          "S_FIN", "S_ERR"},
              inchar |-> {"S_STA", "S_CM1", "S_INC", "S_CM2", "S_FIN", "S_ERR"}]

AllStates == UNION {FsmStates[f] : f \in Fsm}

\* Mutant: what turns out to be the prompt stays in the output, too.
act_noout_KeepsOutput(h) == [h EXCEPT !.ps1 = h.out]

\* What the action of a transition of machine f does with input byte c.
act_ak(h)       == [h EXCEPT !.anykey = TRUE]
act_report(h)   == [h EXCEPT !.report = TRUE]
act_rec(c, h)   == [h EXCEPT !.out = Append(@, c)]
act_noout(h)    == [h EXCEPT !.ps1 = h.out, !.out = <<>>]
act_recps(f, c, h) == IF f = "init" THEN [h EXCEPT !.ips1 = Append(@, c)]
                                    ELSE [h EXCEPT !.ps1  = Append(@, c)]

Act(f, action, c, h) ==
  CASE action = "act_ak"     -> act_ak(h)
    [] action = "act_report" -> act_report(h)
    [] action = "act_rec"    -> act_rec(c, h)
    [] action = "act_noout"  -> act_noout(h)
    [] action = "act_recps"  -> act_recps(f, c, h)
    [] OTHER                 -> h

\* Mutant: report() leaves its flag up.
flags_read_KeepsReport(h) == [h EXCEPT !.anykey = FALSE]

\* anykey() and report() hand out their flag and clear it.
flags_read(h) == [h EXCEPT !.anykey = FALSE, !.report = FALSE]

\* Mutant: the prompt buffer is not emptied.
cmdout_reset_KeepsPs1(h) == [h EXCEPT !.out = <<>>]

\* The reset callback of cmdout; the one of inchar does nothing, and nobody
\* resets init.
cmdout_reset(h) == [h EXCEPT !.out = <<>>, !.ps1 = <<>>]
f_reset(f, h)   == IF f = "cmdout" THEN cmdout_reset(h) ELSE h

\* Mutant: an incomplete sequence is taken for text.
fsm_hp_mktok_NoWait(d) ==
  IF d[1] = ESC /\ EatOne(d) # -1
  THEN [tok |-> "T_ESEQ", toklen |-> EatOne(d)]
  ELSE [tok |-> "T_REST", toklen |-> 1]

\* fsm_hp_mktok on the bytes d (not the end of data): the token at the head
\* and its length, or the token "more" when d ends inside a sequence.
fsm_hp_mktok(d) ==
  IF d[1] = ESC
  THEN [tok |-> IF EatOne(d) = -1 THEN "more" ELSE "T_ESEQ", toklen |-> EatOne(d)]
  ELSE [tok |-> "T_REST", toklen |-> 1]

\* The tokenizer calls the recogniser, and that panics on a malformed sequence.
MktokPanics(d) == d[1] = ESC /\ EatPanics(d)

\* isaccepting: all three machines have the one accepting state.
isaccepting(st) == st = "S_FIN"

\* C strings end at the first NUL.
CStr(s) ==
  LET nuls == {i \in 1..Len(s) : s[i] = NUL}
  IN  IF nuls = {} THEN s ELSE SubSeq(s, 1, Min(nuls) - 1)

\* What the machine that has just accepted leaves for the user.
Output(f, h) == IF f = "cmdout" THEN CStr(h.out) ELSE <<>>
Prompt(f, h) == CASE f = "init"   -> CStr(h.ips1)
                  [] f = "cmdout" -> CStr(h.ps1)
                  [] OTHER        -> <<>>
=============================================================================
