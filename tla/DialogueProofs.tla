--------------------------- MODULE DialogueProofs ---------------------------
(***************************************************************************)
(* What holds of sc.c.  First whatever ssh sends, for every set of lines   *)
(* and bytes and every buffer size: types, the self checks, and the order  *)
(* of what is written to ssh; before that, what is needed of the           *)
(* recogniser of escape sequences and of the state machines of the HP      *)
(* backend.                                                                *)
(*                                                                         *)
(* Then what holds of swh and an HP switch whose pieces are coherent, for  *)
(* every prompt, every set of replies and of lines, every buffer size and  *)
(* every way the responses are cut: they stay in step, what is shown is    *)
(* what the switch answered, and together they are a shell.  The constants *)
(* that ScOpen has for its own bounds do not occur there.                  *)
(***************************************************************************)
EXTENDS Dialogue, ScOpen, MinFacts, SequenceTheorems

-----------------------------------------------------------------------------
(* The recogniser of escape sequences and the three machines *)

\* ansiseq_eatone says "not enough data" or eats at least one byte, and never
\* more than there are: data + i stays inside the buffer.
LEMMA EatOneInside ==
  ASSUME NEW d, Len(d) \in Nat
  PROVE  EatOne(d) = -1 \/ EatOne(d) \in 1..Len(d)
<1>1. Ends(d) \in SUBSET (1..Len(d))
  BY DEF Ends
<1>2. CASE Ends(d) = {}
  BY <1>2 DEF EatOne
<1>3. CASE Ends(d) # {}
  <2>1. Ends(d) \in SUBSET Nat
    BY <1>1
  <2>2. Min(Ends(d)) \in Ends(d)
    BY <1>3, <2>1, MinMember
  <2>3. QED
    BY <1>1, <1>3, <2>2 DEF EatOne
<1>4. QED
  BY <1>2, <1>3

\* The tokenizer returns a token of the machines, and its length, or asks for
\* more data.
LEMMA MktokType ==
  ASSUME NEW d, Len(d) \in Nat \ {0},
         fsm_hp_mktok(d).tok # "more"
  PROVE  /\ fsm_hp_mktok(d).tok \in {"T_ESEQ", "T_REST"}
         /\ fsm_hp_mktok(d).toklen \in 1..Len(d)
BY EatOneInside DEF fsm_hp_mktok

\* Every entry of the three tables leads to a state of its machine.
LEMMA DeltaType ==
  ASSUME NEW f \in Fsm, NEW st \in FsmStates[f], NEW t \in Tok
  PROVE  delta[f][st][t].state \in FsmStates[f]
<1> USE DEF Row, Go, Nop, Err, Tok
<1>1. CASE f = "init"
  <2>1. st \in FsmStates["init"]
    BY <1>1
  <2>2. QED
    BY <1>1, <2>1 DEF FsmStates, delta, InitDelta
<1>2. CASE f = "cmdout"
  <2>1. st \in FsmStates["cmdout"]
    BY <1>2
  <2>2. QED
    BY <1>2, <2>1 DEF FsmStates, delta, CmdoutDelta
<1>3. CASE f = "inchar"
  <2>1. st \in FsmStates["inchar"]
    BY <1>3
  <2>2. QED
    BY <1>3, <2>1 DEF FsmStates, delta, IncharDelta
<1>4. QED
  BY <1>1, <1>2, <1>3 DEF Fsm

\* Replacing a field of a record by a value of the same type.
LEMMA RecordUpdate ==
  ASSUME NEW B, NEW S, NEW b \in B, NEW x \in S,
         NEW h \in [anykey : B, report : B, ips1 : S, out : S, ps1 : S]
  PROVE  LET R == [anykey : B, report : B, ips1 : S, out : S, ps1 : S]
         IN  /\ [h EXCEPT !.anykey = b] \in R
             /\ [h EXCEPT !.report = b] \in R
             /\ [h EXCEPT !.ips1 = x] \in R
             /\ [h EXCEPT !.out = x] \in R
             /\ [h EXCEPT !.ps1 = x] \in R
OBVIOUS

\* The actions of the tables keep the type of the backend's buffers.
LEMMA ActType ==
  ASSUME NEW f, NEW a, NEW c \in Byte, NEW h \in Hp
  PROVE  Act(f, a, c, h) \in Hp
<1>1. act_ak(h) \in Hp /\ act_report(h) \in Hp
  BY DEF act_ak, act_report, Hp
<1>2. h.ips1 \in Seq(Byte) /\ h.out \in Seq(Byte) /\ h.ps1 \in Seq(Byte)
  BY DEF Hp
<1>3. \A x \in Seq(Byte), g \in Hp : /\ [g EXCEPT !.ips1 = x] \in Hp
                                   /\ [g EXCEPT !.out = x] \in Hp
                                   /\ [g EXCEPT !.ps1 = x] \in Hp
  BY RecordUpdate, Zenon DEF Hp
<1>4. Append(h.ips1, c) \in Seq(Byte) /\ Append(h.out, c) \in Seq(Byte)
        /\ Append(h.ps1, c) \in Seq(Byte) /\ <<>> \in Seq(Byte)
  BY <1>2
<1>5. act_rec(c, h) \in Hp
  BY <1>3, <1>4, Zenon DEF act_rec
<1>6. act_noout(h) \in Hp
  BY <1>2, <1>3, <1>4, Zenon DEF act_noout
<1>7. act_recps(f, c, h) \in Hp
  BY <1>3, <1>4, Zenon DEF act_recps
<1>8. QED
  BY <1>1, <1>5, <1>6, <1>7 DEF Act

\* The initial chat asks for the any key once, on its way from S_ANY to S_CM2,
\* and for the report once, on its way from there to S_LAS.
BeforeKey   == {"S_STA", "S_LIC", "S_CM1", "S_ANY"}
AfterReport == {"S_LAS", "S_CM3", "S_PS1", "S_CM4", "S_FIN"}

LEMMA InitChat ==
  ASSUME NEW st \in FsmStates["init"], NEW t \in {"T_ESEQ", "T_REST"}
  PROVE  LET tr == delta["init"][st][t]
         IN  \/ tr.state = "S_ERR" /\ tr.action = "act_nop"
             \/ st \in BeforeKey /\ tr.state \in BeforeKey /\ tr.action = "act_nop"
             \/ st = "S_ANY" /\ tr.state = "S_CM2" /\ tr.action = "act_ak"
             \/ st = "S_CM2" /\ tr.state = "S_CM2" /\ tr.action = "act_nop"
             \/ st = "S_CM2" /\ tr.state = "S_LAS" /\ tr.action = "act_report"
             \/ /\ st \in AfterReport /\ tr.state \in AfterReport
                /\ tr.action \in {"act_nop", "act_recps"}
BY DEF FsmStates, delta, InitDelta, Row, Go, Nop, Err, BeforeKey, AfterReport

\* The part of a buffer up to a NUL.
LEMMA CStrType ==
  ASSUME NEW s \in Seq(Byte)
  PROVE  CStr(s) \in Seq(Byte)
<1> DEFINE nuls == {i \in 1..Len(s) : s[i] = NUL}
<1>1. CASE nuls = {}
  BY <1>1 DEF CStr
<1>2. CASE nuls # {}
  <2>1. Len(s) \in Nat /\ nuls \in SUBSET Nat
    OBVIOUS
  <2>2. Min(nuls) \in nuls
    <3> HIDE DEF nuls
    <3>1. QED
      BY <1>2, <2>1, MinMember
  <2>3. Min(nuls) \in 1..Len(s)
    BY <2>2
  <2>4. \A i \in 1..Min(nuls)-1 : s[i] \in Byte
    BY <2>1, <2>3
  <2>5. Min(nuls) - 1 \in Int /\ 1 \in Int
    BY <2>1, <2>3
  <2>6. SubSeq(s, 1, Min(nuls) - 1) \in Seq(Byte)
    <3> HIDE DEF nuls
    <3>1. QED
      BY <2>4, <2>5, SubSeqProperties
  <2>7. QED
    BY <1>2, <2>6 DEF CStr
<1>3. QED
  BY <1>1, <1>2

-----------------------------------------------------------------------------
(* The inductive invariant *)

\* How the buffers, the flag and the place in the loop depend on s_state.
Shape ==
  /\ s_state # "OFFLINE"
  /\ s_state = "READY" => s_writebuf = <<>>
  /\ s_state = "WRITING" => s_writebuf # <<>>
  /\ s_state # "READY" => s_outbuf = <<>>
  /\ s_state # "BUSY" => s_readbuf = <<>>
  /\ pc # "loop" => s_state = "BUSY"
  /\ pc # "feed" => eaten = 0

\* The flag is up only between the first "no data" and the next read, which
\* cannot find the pipe empty: select has seen that there is something.
Flag ==
  s_nodataflag => /\ s_state = "BUSY" /\ s_readbuf = <<>>
                  /\ \/ pc = "select"
                     \/ pc = "loop" /\ (fromSw # <<>> \/ eof)

\* During the login: which answers have been sent, which are due and how far
\* the initial chat has come.
Stage(w, ak, rep, sts) ==
  /\ wrote = w /\ hp.anykey = ak /\ hp.report = rep
  /\ curst["init"] \in sts \cup {"S_ERR"}

LoggingIn == s_curfsm = "init" /\ s_state = "BUSY"

Login ==
  LoggingIn =>
    /\ asked = <<>> /\ s_writebuf = <<>>
    /\ \/ Stage(<<>>,               FALSE, FALSE, BeforeKey)
       \/ Stage(<<>>,               TRUE,  FALSE, {"S_CM2"})
       \/ Stage(<<AnyKey>>,         FALSE, FALSE, {"S_CM2"})
       \/ Stage(<<>>,               TRUE,  TRUE,  AfterReport)
       \/ Stage(<<AnyKey>>,         FALSE, TRUE,  AfterReport)
       \/ Stage(<<AnyKey, Report>>, FALSE, FALSE, AfterReport)
    /\ eaten = 0 => hp.anykey = FALSE /\ hp.report = FALSE

\* After it: both answers, then what the user asked for.
LoggedIn ==
  ~LoggingIn => wrote \o s_writebuf = <<AnyKey, Report>> \o asked

Inv == TypeOK /\ Shape /\ Flag /\ SelfChecksHold /\ Login /\ LoggedIn

LEMMA InitInv == Init => Inv
<1> SUFFICES ASSUME Init PROVE Inv
  OBVIOUS
<1> USE DEF Init
<1>1. TypeOK
  <2>1. hp \in Hp
    BY DEF HpInit, Hp
  <2>2. curst \in [Fsm -> AllStates] /\ \A f \in Fsm : curst[f] \in FsmStates[f]
    BY DEF Fsm, FsmStates, AllStates
  <2>3. READBUFSZ \in Nat \ {0}
    BY ScAssumption
  <2>4. Len(s_readbuf) <= s_readbufsz /\ eaten \in 0..Len(s_readbuf)
    BY <2>3
  <2>5. exit \in {"none"} \cup SelfChecks \cup Faults
    OBVIOUS
  <2> HIDE DEF Init
  <2>6. s_readbuf = <<>> /\ s_readbufsz = READBUFSZ /\ s_writebuf = <<>> /\ s_outbuf = <<>>
          /\ s_ps1buf = <<>> /\ fromSw = <<>> /\ wrote = <<>> /\ asked = <<>>
          /\ pc = "loop" /\ s_curfsm = "init" /\ s_state = "BUSY"
    BY DEF Init
  <2>7. s_nodataflag \in BOOLEAN /\ eof \in BOOLEAN
    BY DEF Init
  <2>8. QED
    BY <2>1, <2>2, <2>3, <2>4, <2>5, <2>6, <2>7 DEF TypeOK, States, Fsm
<1>2. Shape /\ Flag /\ SelfChecksHold
  BY DEF Shape, Flag, SelfChecksHold, SelfChecks
<1>3. Login /\ LoggedIn
  BY DEF Login, LoggedIn, LoggingIn, Stage, BeforeKey, HpInit, Fsm
<1>4. QED
  BY <1>1, <1>2, <1>3 DEF Inv

\* Ending the program for a reason that is not a self check changes nothing
\* that the invariant speaks of.
LEMMA PanicInv ==
  ASSUME Inv, NEW why \in Faults, C(why)
  PROVE  Inv'
<1> USE DEF C, bufVars, fsmVars, envVars, histVars
<1>1. TypeOK'
  BY DEF Inv, TypeOK
<1>2. Shape' /\ Flag'
  BY DEF Inv, Shape, Flag
<1>3. SelfChecksHold'
  BY DEF SelfChecksHold, SelfChecks, Faults
<1>4. Login' /\ LoggedIn'
  BY DEF Inv, Login, LoggedIn, LoggingIn, Stage
<1>5. QED
  BY <1>1, <1>2, <1>3, <1>4 DEF Inv

\* A line from the user.
LEMMA CoreWriteInv ==
  ASSUME Inv, NEW line \in Lines, CoreWrite(line)
  PROVE  Inv'
<1> USE DEF bufVars, fsmVars, envVars, histVars
<1>1. line \in Seq(Byte) /\ line # <<>>
  BY ScAssumption
<1>2. s_state = "READY" /\ s_writebuf = <<>> /\ pc = "loop" /\ sc_write(line)
  BY DEF CoreWrite, Inv, TypeOK, States, Shape, Running, sc_busy, sc_ready, sc_offline
<1>3. TypeOK'
  BY <1>1, <1>2 DEF Inv, TypeOK, States, sc_write
<1>4. Shape'
  BY <1>1, <1>2 DEF Inv, Shape, sc_write
<1>5. Flag' /\ SelfChecksHold'
  BY <1>2 DEF Inv, Flag, SelfChecksHold, sc_write
<1>6. Login'
  BY <1>2 DEF Login, LoggingIn, sc_write
<1>7. LoggedIn'
  <2> DEFINE B == Byte \cup {AnyKey, Report}
  <2>1. wrote \o <<>> = <<AnyKey, Report>> \o asked
    BY <1>2 DEF Inv, LoggedIn, LoggingIn
  <2>2. wrote \in Seq(B) /\ asked \in Seq(B) /\ line \in Seq(B) /\ <<AnyKey, Report>> \in Seq(B)
    BY <1>1, SeqMonotonic DEF Inv, TypeOK
  <2> HIDE DEF B
  <2>3. wrote = <<AnyKey, Report>> \o asked
    BY <2>1, <2>2, ConcatEmptySeq
  <2>4. wrote \o line = <<AnyKey, Report>> \o (asked \o line)
    BY <2>2, <2>3, ConcatAssociative
  <2>5. QED
    BY <1>2, <2>4 DEF LoggedIn, sc_write
<1>8. QED
  BY <1>3, <1>4, <1>5, <1>6, <1>7 DEF Inv

\* A byte to the switch, or the failure to write it.
LEMMA OperWritingInv ==
  ASSUME Inv, OperWriting
  PROVE  Inv'
<1> USE DEF bufVars, fsmVars, envVars, histVars
<1>1. s_state = "WRITING" /\ pc = "loop" /\ s_writebuf # <<>> /\ s_writebuf \in Seq(Byte)
  BY DEF OperWriting, Running, Inv, Shape, TypeOK
<1>2. WriteByte
  BY <1>1 DEF OperWriting
<1> DEFINE c == Head(s_writebuf)
<1>3. c \in Byte /\ Tail(s_writebuf) \in Seq(Byte) /\ FsmFor(c) \in {"cmdout", "inchar"}
  BY <1>1, HeadTailProperties DEF FsmFor
<1>4. s_writebuf' = Tail(s_writebuf) /\ wrote' = Append(wrote, c)
  BY <1>2 DEF WriteByte
<1>5. s_curfsm' = FsmFor(c) /\ curst' = [curst EXCEPT ![FsmFor(c)] = "S_STA"]
        /\ hp' = f_reset(FsmFor(c), hp)
  BY <1>2 DEF WriteByte, fsm_reset
<1> HIDE DEF c
<1>6. TypeOK'
  <2>1. hp' \in Hp
    <3>1. hp \in Hp /\ <<>> \in Seq(Byte)
      BY DEF Inv, TypeOK
    <3>2. \A g \in Hp : [g EXCEPT !.out = <<>>] \in Hp /\ [g EXCEPT !.ps1 = <<>>] \in Hp
      BY <3>1, RecordUpdate, Zenon DEF Hp
    <3>3. cmdout_reset(hp) \in Hp
      BY <3>1, <3>2, Zenon DEF cmdout_reset
    <3>4. QED
      BY <1>5, <3>1, <3>3 DEF f_reset
  <2>2. curst' \in [Fsm -> AllStates] /\ \A f \in Fsm : curst'[f] \in FsmStates[f]
    <3>1. \A f \in Fsm : "S_STA" \in FsmStates[f]
      BY DEF FsmStates, Fsm
    <3>2. "S_STA" \in AllStates
      BY <3>1 DEF AllStates, Fsm
    <3>3. QED
      BY <1>3, <1>5, <3>1, <3>2 DEF Inv, TypeOK, Fsm
  <2>3. wrote' \in Seq(Byte \cup {AnyKey, Report})
    <3>1. wrote \in Seq(Byte \cup {AnyKey, Report})
      BY DEF Inv, TypeOK
    <3>2. QED
      BY <1>3, <1>4, <3>1
  <2>4. QED
    BY <1>2, <1>3, <1>4, <1>5, <2>1, <2>2, <2>3 DEF Inv, TypeOK, States, Fsm, WriteByte
<1>7. Shape' /\ Flag' /\ SelfChecksHold'
  BY <1>1, <1>2 DEF Inv, Shape, Flag, SelfChecksHold, WriteByte
<1>8. Login'
  BY <1>3, <1>5 DEF Login, LoggingIn
<1>9. LoggedIn'
  <2> DEFINE B == Byte \cup {AnyKey, Report}
  <2>1. wrote \o s_writebuf = <<AnyKey, Report>> \o asked
    BY <1>1 DEF Inv, LoggedIn, LoggingIn
  <2>2. wrote \in Seq(B) /\ s_writebuf \in Seq(B)
    BY <1>1, SeqMonotonic DEF Inv, TypeOK
  <2> HIDE DEF B
  <2>3. Append(wrote, c) \o Tail(s_writebuf) = wrote \o s_writebuf
    BY <1>1, <2>2 DEF c
  <2>4. QED
    BY <1>2, <1>4, <2>1, <2>3 DEF LoggedIn, WriteByte
<1>10. QED
  BY <1>6, <1>7, <1>8, <1>9 DEF Inv

LEMMA FailInv ==
  ASSUME Inv, OperWritingFails \/ BusyEof \/ FeedPanic \/ FeedWriteFails
  PROVE  Inv'
<1>1. \E why \in Faults : C(why)
  BY DEF OperWritingFails, BusyEof, FeedPanic, FeedWriteFails, Inv, Shape, Faults, Running
<1>2. QED
  BY <1>1, PanicInv

\* A full buffer has grown: read is never asked for 0 bytes.
LEMMA RoomThere ==
  ASSUME TypeOK
  PROVE  Room > 0
<1> DEFINE n == Len(s_readbuf)
<1>1. n \in Nat /\ s_readbufsz \in Nat \ {0} /\ n <= s_readbufsz
  BY DEF TypeOK
<1>2. Room = (IF s_readbufsz = n THEN s_readbufsz * 2 ELSE s_readbufsz) - n
  BY DEF Room, GrownSz
<1> HIDE DEF n
<1>3. QED
  BY <1>1, <1>2

\* read_more keeps within the buffer and loses nothing.
LEMMA ReadCountBounds ==
  ASSUME TypeOK
  PROVE  /\ GrownSz \in Nat \ {0} /\ ReadCount \in Nat
         /\ ReadCount <= Len(fromSw)
         /\ Len(s_readbuf) + ReadCount <= GrownSz
<1>1. Len(s_readbuf) \in Nat /\ Len(fromSw) \in Nat /\ s_readbufsz \in Nat \ {0}
        /\ Len(s_readbuf) <= s_readbufsz
  BY DEF TypeOK
<1>2. GrownSz \in Nat \ {0} /\ GrownSz - Len(s_readbuf) \in Nat
  BY <1>1 DEF GrownSz
<1> DEFINE S == {Len(fromSw), GrownSz - Len(s_readbuf)}
<1>3. S \in SUBSET Nat /\ S # {}
  BY <1>1, <1>2
<1>4. Min(S) \in S /\ \A k \in S : Min(S) <= k
  <2> HIDE DEF S
  <2>1. QED
    BY <1>3, MinMember
<1>5. ReadCount = Min(S)
  BY DEF ReadCount, Room
<1>6. QED
  BY <1>1, <1>2, <1>4, <1>5

LEMMA BusyReadInv ==
  ASSUME Inv, BusyRead
  PROVE  Inv'
<1> USE DEF bufVars, fsmVars, envVars, histVars
<1>1. s_state = "BUSY" /\ pc = "loop" /\ TypeOK
  BY DEF BusyRead, Running, Inv
<1> DEFINE n == ReadCount
<1>2. GrownSz \in Nat \ {0} /\ n \in Nat /\ n <= Len(fromSw) /\ Len(s_readbuf) + n <= GrownSz
  BY <1>1, ReadCountBounds
<1>3. /\ s_readbufsz' = GrownSz
      /\ s_readbuf' = s_readbuf \o SubSeq(fromSw, 1, n)
      /\ fromSw' = SubSeq(fromSw, n + 1, Len(fromSw))
      /\ s_nodataflag' = FALSE /\ pc' = "feed" /\ eaten' = 0
  BY DEF BusyRead
<1> HIDE DEF n
<1>4. TypeOK'
  <2>1. fromSw \in Seq(Byte) /\ s_readbuf \in Seq(Byte) /\ Len(fromSw) \in Nat /\ Len(s_readbuf) \in Nat
    BY <1>1 DEF TypeOK
  <2>2. SubSeq(fromSw, 1, n) \in Seq(Byte) /\ Len(SubSeq(fromSw, 1, n)) = n
          /\ SubSeq(fromSw, n + 1, Len(fromSw)) \in Seq(Byte)
    <3>1. \A i \in 1..n : fromSw[i] \in Byte
      BY <1>2, <2>1
    <3>2. \A i \in n+1..Len(fromSw) : fromSw[i] \in Byte
      BY <1>2, <2>1
    <3>3. n + 1 \in Int /\ n \in Int /\ Len(fromSw) \in Int /\ 1 \in Int
      BY <1>2, <2>1
    <3>4. SubSeq(fromSw, 1, n) \in Seq(Byte)
            /\ Len(SubSeq(fromSw, 1, n)) = IF 1 <= n THEN n - 1 + 1 ELSE 0
      BY <3>1, <3>3, SubSeqProperties
    <3>5. SubSeq(fromSw, n + 1, Len(fromSw)) \in Seq(Byte)
      BY <3>2, <3>3, SubSeqProperties
    <3>6. QED
      BY <1>2, <3>4, <3>5
  <2>3. s_readbuf' \in Seq(Byte) /\ Len(s_readbuf') = Len(s_readbuf) + n
    BY <1>3, <2>1, <2>2, ConcatProperties
  <2>4. Len(s_readbuf') <= s_readbufsz' /\ s_readbufsz' \in Nat \ {0}
          /\ eaten' \in 0..Len(s_readbuf')
    BY <1>2, <1>3, <2>1, <2>3
  <2>5. fromSw' \in Seq(Byte)
    BY <1>3, <2>2
  <2>6. QED
    BY <1>1, <1>3, <2>3, <2>4, <2>5 DEF TypeOK, BusyRead
<1>5. Shape' /\ Flag' /\ SelfChecksHold'
  BY <1>1, <1>3 DEF Inv, Shape, Flag, SelfChecksHold, BusyRead
<1>6. Login' /\ LoggedIn'
  BY <1>1, <1>3 DEF Inv, Shape, Login, LoggedIn, LoggingIn, Stage, BusyRead
<1>7. QED
  BY <1>4, <1>5, <1>6 DEF Inv

\* What fsm_feed has not looked at yet.
LEMMA RestType ==
  ASSUME TypeOK
  PROVE  Rest \in Seq(Byte) /\ Len(Rest) = Len(s_readbuf) - eaten
<1>1. s_readbuf \in Seq(Byte) /\ Len(s_readbuf) \in Nat /\ eaten \in 0..Len(s_readbuf)
  BY DEF TypeOK
<1>2. \A i \in eaten+1..Len(s_readbuf) : s_readbuf[i] \in Byte
  BY <1>1
<1>3. eaten + 1 \in Int /\ Len(s_readbuf) \in Int
  BY <1>1
<1>4. SubSeq(s_readbuf, eaten + 1, Len(s_readbuf)) \in Seq(Byte)
        /\ Len(SubSeq(s_readbuf, eaten + 1, Len(s_readbuf)))
             = IF eaten + 1 <= Len(s_readbuf) THEN Len(s_readbuf) - (eaten + 1) + 1 ELSE 0
  BY <1>2, <1>3, SubSeqProperties
<1>5. QED
  BY <1>1, <1>4 DEF Rest

\* One token to the current machine.
LEMMA FeedTokenInv ==
  ASSUME Inv, FeedToken
  PROVE  Inv'
<1> USE DEF bufVars, fsmVars, envVars, histVars
<1> DEFINE t  == fsm_hp_mktok(Rest)
           tr == delta[s_curfsm][curst[s_curfsm]][t.tok]
<1>1. TypeOK /\ pc = "feed" /\ s_curfsm \in Fsm /\ curst[s_curfsm] \in FsmStates[s_curfsm]
  BY DEF FeedToken, Running, Inv, TypeOK
<1>2. Rest \in Seq(Byte) /\ Len(Rest) \in Nat \ {0} /\ Len(Rest) = Len(s_readbuf) - eaten
  <2>1. eaten < Len(s_readbuf) /\ eaten \in 0..Len(s_readbuf) /\ Len(s_readbuf) \in Nat
    BY <1>1 DEF FeedToken, TypeOK
  <2>2. QED
    BY <1>1, <2>1, RestType
<1>3. t.tok \in {"T_ESEQ", "T_REST"} /\ t.toklen \in 1..Len(Rest)
  BY <1>2, MktokType DEF FeedToken
<1>4. tr.state \in FsmStates[s_curfsm]
  BY <1>1, <1>3, DeltaType DEF Tok
<1>5. /\ hp' = Act(s_curfsm, tr.action, Rest[1], hp)
      /\ curst' = [curst EXCEPT ![s_curfsm] = tr.state]
      /\ eaten' = eaten + t.toklen
      /\ UNCHANGED <<s_state, s_nodataflag, bufVars, s_curfsm, pc, exit, envVars, histVars>>
  BY DEF FeedToken
<1> HIDE DEF t
<1>6. TypeOK'
  <2>1. Rest[1] \in Byte
    BY <1>2
  <2>2. hp' \in Hp
    BY <1>1, <1>5, <2>1, ActType DEF TypeOK
  <2>3. tr.state \in AllStates
    BY <1>1, <1>4 DEF AllStates
  <2> HIDE DEF tr
  <2>4. curst' \in [Fsm -> AllStates] /\ \A f \in Fsm : curst'[f] \in FsmStates[f]
    BY <1>1, <1>4, <1>5, <2>3 DEF TypeOK
  <2>5. eaten' \in 0..Len(s_readbuf')
    <3>1. eaten \in 0..Len(s_readbuf) /\ Len(s_readbuf) \in Nat
      BY <1>1 DEF TypeOK
    <3>2. QED
      BY <1>2, <1>3, <1>5, <3>1
  <2>6. QED
    BY <1>1, <1>5, <2>2, <2>4, <2>5 DEF TypeOK
<1>7. Shape' /\ Flag' /\ SelfChecksHold'
  BY <1>1, <1>5 DEF Inv, Shape, Flag, SelfChecksHold
<1>8. LoggedIn'
  BY <1>5 DEF Inv, LoggedIn, LoggingIn
<1>9. Login'
  <2> SUFFICES ASSUME LoggingIn PROVE Login'
    BY <1>5 DEF Login, LoggingIn
  <2>1. s_curfsm = "init" /\ s_state = "BUSY"
    BY DEF LoggingIn
  <2> DEFINE st == curst["init"]
  <2>2. st \in FsmStates["init"]
    BY <1>1, <2>1
  <2>3. \/ tr.state = "S_ERR" /\ tr.action = "act_nop"
        \/ st \in BeforeKey /\ tr.state \in BeforeKey /\ tr.action = "act_nop"
        \/ st = "S_ANY" /\ tr.state = "S_CM2" /\ tr.action = "act_ak"
        \/ st = "S_CM2" /\ tr.state = "S_CM2" /\ tr.action = "act_nop"
        \/ st = "S_CM2" /\ tr.state = "S_LAS" /\ tr.action = "act_report"
        \/ /\ st \in AfterReport /\ tr.state \in AfterReport
           /\ tr.action \in {"act_nop", "act_recps"}
    <3>1. t.tok \in {"T_ESEQ", "T_REST"}
      BY <1>3
    <3> HIDE DEF t
    <3>2. tr = delta["init"][st][t.tok]
      BY <2>1
    <3> HIDE DEF st, tr
    <3>3. QED
      BY <2>2, <3>1, <3>2, InitChat
  <2> HIDE DEF tr
  <2>4. curst'["init"] = tr.state /\ wrote' = wrote /\ asked' = asked /\ s_writebuf' = s_writebuf
    BY <1>1, <1>5, <2>1 DEF TypeOK
  <2>11. eaten' # 0
    <3>1. eaten \in Nat /\ Len(Rest) \in Nat
      BY <1>1, <1>2 DEF TypeOK
    <3>2. QED
      BY <1>3, <1>5, <3>1
  <2>5. hp \in Hp
    BY <1>1 DEF TypeOK
  <2>6. tr.action = "act_nop" => hp' = hp
    BY <1>5 DEF Act
  <2>7. tr.action = "act_recps" => hp'.anykey = hp.anykey /\ hp'.report = hp.report
    BY <1>5, <2>1, <2>5 DEF Act, act_recps, Hp
  <2>8. tr.action = "act_ak" => hp'.anykey = TRUE /\ hp'.report = hp.report
    BY <1>5, <2>5 DEF Act, act_ak, Hp
  <2>9. tr.action = "act_report" => hp'.anykey = hp.anykey /\ hp'.report = TRUE
    BY <1>5, <2>5 DEF Act, act_report, Hp
  <2>10. QED
    BY <2>3, <2>4, <2>6, <2>7, <2>8, <2>9, <2>11 DEF Inv, Login, Stage, BeforeKey, AfterReport
<1>10. QED
  BY <1>6, <1>7, <1>8, <1>9 DEF Inv

\* fsm_feed returns: it asks for more data, or the answers that have become
\* due are sent and what was eaten is dropped.
LEMMA NeedMoreDataInv ==
  ASSUME Inv, NeedMoreData
  PROVE  Inv'
<1> USE DEF bufVars, fsmVars, envVars, histVars
<1>1. s_state = "BUSY" /\ pc = "feed" /\ eaten = 0 /\ pc' = "select"
  BY DEF NeedMoreData, Running, Inv, Shape
<1>2. TypeOK'
  BY DEF Inv, TypeOK, NeedMoreData
<1>3. Shape' /\ Flag' /\ SelfChecksHold'
  BY <1>1 DEF Inv, Shape, Flag, SelfChecksHold, NeedMoreData
<1>4. Login' /\ LoggedIn'
  BY <1>1 DEF Inv, Login, LoggedIn, LoggingIn, Stage, NeedMoreData
<1>5. QED
  BY <1>2, <1>3, <1>4 DEF Inv

LEMMA Concats ==
  /\ <<>> \o <<>> = <<>>
  /\ <<AnyKey>> \o <<>> = <<AnyKey>>
  /\ <<>> \o <<AnyKey>> = <<AnyKey>>
  /\ <<>> \o <<Report>> = <<Report>>
  /\ <<AnyKey>> \o <<Report>> = <<AnyKey, Report>>
  /\ <<>> \o <<AnyKey, Report>> = <<AnyKey, Report>>
  /\ <<AnyKey, Report>> \o <<>> = <<AnyKey, Report>>
<1> DEFINE B == {AnyKey, Report}
<1>1. <<>> \in Seq(B) /\ <<AnyKey>> \in Seq(B) /\ <<Report>> \in Seq(B) /\ <<AnyKey, Report>> \in Seq(B)
  OBVIOUS
<1> HIDE DEF B
<1>2. <<AnyKey>> \o <<Report>> = <<AnyKey, Report>>
  <2> DEFINE s == <<AnyKey>> \o <<Report>>
             t == <<AnyKey, Report>>
  <2>1. s \in Seq(B) /\ Len(s) = 2
          /\ \A i \in 1..2 : s[i] = IF i <= 1 THEN <<AnyKey>>[i] ELSE <<Report>>[i - 1]
    BY <1>1, ConcatProperties
  <2>2. s[1] = AnyKey /\ s[2] = Report
    BY <2>1
  <2>3. t \in Seq(B) /\ Len(t) = 2 /\ t[1] = AnyKey /\ t[2] = Report
    BY <1>1
  <2> HIDE DEF s, t
  <2>4. \A i \in 1..Len(s) : s[i] = t[i]
    BY <2>1, <2>2, <2>3
  <2>5. s = t
    BY <2>1, <2>3, <2>4, SeqEqual
  <2>6. QED
    BY <2>5 DEF s, t
<1>3. QED
  BY <1>1, <1>2, ConcatEmptySeq

LEMMA AnswersValue ==
  /\ Answers \in Seq(Byte \cup {AnyKey, Report})
  /\ s_curfsm = "init" =>
       /\ hp.anykey = FALSE /\ hp.report = FALSE => Answers = <<>>
       /\ hp.anykey = TRUE  /\ hp.report = FALSE => Answers = <<AnyKey>>
       /\ hp.anykey = FALSE /\ hp.report = TRUE  => Answers = <<Report>>
       /\ hp.anykey = TRUE  /\ hp.report = TRUE  => Answers = <<AnyKey, Report>>
<1> DEFINE a == IF hp.anykey THEN <<AnyKey>> ELSE <<>>
           r == IF hp.report THEN <<Report>> ELSE <<>>
<1>1. Answers = IF s_curfsm # "init" THEN <<>> ELSE a \o r
  BY DEF Answers
<1>2. a \in {<<AnyKey>>, <<>>} /\ r \in {<<Report>>, <<>>}
  BY Zenon
<1>3. (hp.anykey = TRUE => a = <<AnyKey>>) /\ (hp.anykey = FALSE => a = <<>>)
  BY Zenon
<1>4. (hp.report = TRUE => r = <<Report>>) /\ (hp.report = FALSE => r = <<>>)
  BY Zenon
<1> HIDE DEF a, r
<1>5. a \o r \in {<<>>, <<AnyKey>>, <<Report>>, <<AnyKey, Report>>}
  BY <1>2, Concats
<1>6. Answers \in Seq(Byte \cup {AnyKey, Report})
  <2> DEFINE B == Byte \cup {AnyKey, Report}
  <2>1. <<>> \in Seq(B) /\ <<AnyKey>> \in Seq(B) /\ <<Report>> \in Seq(B) /\ <<AnyKey, Report>> \in Seq(B)
    OBVIOUS
  <2>2. Answers \in {<<>>, <<AnyKey>>, <<Report>>, <<AnyKey, Report>>}
    BY <1>1, <1>5, Zenon
  <2>3. QED
    BY <2>1, <2>2, Zenon
<1>7. QED
  BY <1>1, <1>3, <1>4, <1>6, Concats, Zenon

\* The first of the two answers, if both are due.
LEMMA FirstAnswerInv ==
  ASSUME Inv, FirstAnswer
  PROVE  Inv'
<1> USE DEF bufVars, fsmVars, envVars, histVars
<1>1. TypeOK /\ s_state = "BUSY" /\ pc = "feed" /\ exit = "none" /\ eaten > 0 /\ BothDue /\ hp \in Hp
  BY DEF FirstAnswer, Running, Inv, TypeOK, Shape
<1>2. hp' = [hp EXCEPT !.anykey = FALSE] /\ wrote' = Append(wrote, AnyKey)
        /\ UNCHANGED <<s_state, s_nodataflag, bufVars, s_curfsm, curst, eaten, pc, exit,
                       envVars, asked>>
  BY DEF FirstAnswer
<1>3. hp' \in Hp /\ hp'.anykey = FALSE /\ hp'.report = hp.report
  BY <1>1, <1>2 DEF Hp
<1>4. TypeOK'
  <2>1. wrote' \in Seq(Byte \cup {AnyKey, Report})
    <3>1. wrote \in Seq(Byte \cup {AnyKey, Report})
      BY <1>1 DEF TypeOK
    <3>2. QED
      BY <1>2, <3>1
  <2>2. QED
    BY <1>1, <1>2, <1>3, <2>1 DEF TypeOK
<1>5. Shape' /\ Flag' /\ SelfChecksHold'
  BY <1>1, <1>2 DEF Inv, Shape, Flag, SelfChecksHold
<1>6. s_curfsm = "init" /\ LoggingIn /\ LoggingIn' /\ eaten' # 0
  BY <1>1, <1>2 DEF BothDue, LoggingIn
<1>7. Stage(<<>>, TRUE, TRUE, AfterReport)
  BY <1>1, <1>6 DEF Inv, Login, Stage, BothDue
<1>8. Stage(<<AnyKey>>, FALSE, TRUE, AfterReport)'
  BY <1>2, <1>3, <1>7 DEF Stage
<1>9. Login'
  <2>1. asked' = <<>> /\ s_writebuf' = <<>>
    BY <1>2, <1>6 DEF Inv, Login
  <2>2. QED
    BY <1>6, <1>8, <2>1 DEF Login
<1>10. LoggedIn'
  BY <1>6 DEF LoggedIn
<1>11. QED
  BY <1>4, <1>5, <1>9, <1>10 DEF Inv

LEMMA FeedReturnInv ==
  ASSUME Inv, FeedReturn
  PROVE  Inv'
<1> USE DEF bufVars, fsmVars, envVars, histVars
<1>1. TypeOK /\ s_state = "BUSY" /\ pc = "feed" /\ exit = "none"
  BY DEF FeedReturn, Running, Inv, Shape
<1>2. hp' = (IF s_curfsm = "init" THEN [hp EXCEPT !.anykey = FALSE, !.report = FALSE] ELSE hp)
        /\ s_readbuf' = Rest /\ eaten' = 0 /\ pc' = "loop" /\ wrote' = wrote \o Answers
        /\ exit' \in {"none", "fsm in error state"}
        /\ UNCHANGED <<s_state, s_nodataflag, s_readbufsz, s_writebuf, s_outbuf,
                       s_ps1buf, s_curfsm, curst, envVars, asked>>
  BY <1>1 DEF FeedReturn, flags_read
<1>3. TypeOK'
  <2>1. hp' \in Hp
    <3>1. \A g \in Hp : [g EXCEPT !.anykey = FALSE] \in Hp /\ [g EXCEPT !.report = FALSE] \in Hp
      BY DEF Hp
    <3>2. hp \in Hp
      BY <1>1 DEF TypeOK
    <3>3. QED
      BY <1>2, <3>1, <3>2, Zenon
  <2>2. s_readbuf' \in Seq(Byte) /\ Len(s_readbuf') <= s_readbufsz'
          /\ eaten' \in 0..Len(s_readbuf')
    <3>1. Rest \in Seq(Byte) /\ Len(Rest) = Len(s_readbuf) - eaten
      BY <1>1, RestType
    <3>2. Len(s_readbuf) \in Nat /\ eaten \in 0..Len(s_readbuf) /\ s_readbufsz \in Nat
            /\ Len(s_readbuf) <= s_readbufsz
      BY <1>1 DEF TypeOK
    <3>3. s_readbuf' = Rest /\ s_readbufsz' = s_readbufsz /\ eaten' = 0
      BY <1>2
    <3>4. QED
      BY <3>1, <3>2, <3>3
  <2>3. wrote' \in Seq(Byte \cup {AnyKey, Report})
    <3>1. wrote \in Seq(Byte \cup {AnyKey, Report})
      BY <1>1 DEF TypeOK
    <3>2. Answers \in Seq(Byte \cup {AnyKey, Report})
      BY AnswersValue
    <3>3. QED
      BY <1>2, <3>1, <3>2, ConcatProperties
  <2>4. exit' \in {"none"} \cup SelfChecks \cup Faults
    BY <1>2 DEF Faults
  <2>5. QED
    BY <1>1, <1>2, <2>1, <2>2, <2>3, <2>4 DEF TypeOK
<1>4. Shape' /\ Flag' /\ SelfChecksHold'
  BY <1>1, <1>2 DEF Inv, Shape, Flag, SelfChecksHold, SelfChecks
<1>5. CASE LoggingIn
  <2>1. s_curfsm = "init" /\ s_curfsm' = "init" /\ LoggingIn'
    BY <1>2, <1>5 DEF LoggingIn
  <2>2. hp \in Hp /\ hp'.anykey = FALSE /\ hp'.report = FALSE
    BY <1>1, <1>2, <2>1 DEF TypeOK, Hp
  <2>3. curst' = curst /\ wrote' = wrote \o Answers
    BY <1>2
  <2>4. \/ Stage(<<>>, FALSE, FALSE, BeforeKey)'
        \/ Stage(<<AnyKey>>, FALSE, FALSE, {"S_CM2"})'
        \/ Stage(<<AnyKey, Report>>, FALSE, FALSE, AfterReport)'
    <3>1. CASE Stage(<<>>, FALSE, FALSE, BeforeKey)
      BY <2>1, <2>2, <2>3, <3>1, AnswersValue, Concats DEF Stage
    <3>2. CASE Stage(<<>>, TRUE, FALSE, {"S_CM2"})
      BY <2>1, <2>2, <2>3, <3>2, AnswersValue, Concats DEF Stage
    <3>3. CASE Stage(<<AnyKey>>, FALSE, FALSE, {"S_CM2"})
      BY <2>1, <2>2, <2>3, <3>3, AnswersValue, Concats DEF Stage
    <3>4. CASE Stage(<<>>, TRUE, TRUE, AfterReport)
      BY <2>1, <2>2, <2>3, <3>4, AnswersValue, Concats DEF Stage
    <3>5. CASE Stage(<<AnyKey>>, FALSE, TRUE, AfterReport)
      BY <2>1, <2>2, <2>3, <3>5, AnswersValue, Concats DEF Stage
    <3>6. CASE Stage(<<AnyKey, Report>>, FALSE, FALSE, AfterReport)
      BY <2>1, <2>2, <2>3, <3>6, AnswersValue, Concats DEF Stage
    <3>7. QED
      BY <1>5, <3>1, <3>2, <3>3, <3>4, <3>5, <3>6 DEF Inv, Login
  <2>5. asked' = <<>> /\ s_writebuf' = <<>>
    BY <1>2, <1>5 DEF Inv, Login
  <2>6. Login' /\ LoggedIn'
    BY <2>1, <2>2, <2>4, <2>5 DEF Login, LoggedIn
  <2>7. QED
    BY <1>3, <1>4, <2>6 DEF Inv
<1>6. CASE ~LoggingIn
  <2>1. s_curfsm # "init" /\ ~LoggingIn'
    BY <1>1, <1>2, <1>6 DEF LoggingIn
  <2>2. wrote' = wrote
    <3>1. wrote \in Seq(Byte \cup {AnyKey, Report})
      BY <1>1 DEF TypeOK
    <3>2. Answers = <<>>
      BY <2>1 DEF Answers
    <3>3. QED
      BY <1>2, <3>1, <3>2, ConcatEmptySeq
  <2>3. QED
    BY <1>2, <1>3, <1>4, <1>6, <2>1, <2>2 DEF Inv, Login, LoggedIn
<1>7. QED
  BY <1>5, <1>6

\* The initial chat can end only in S_CM4, when both answers have been asked
\* for.
LEMMA InitAccepts ==
  ASSUME NEW st \in FsmStates["init"], isaccepting(delta["init"][st]["T_EOF"].state)
  PROVE  st \in AfterReport
BY DEF isaccepting, FsmStates, delta, InitDelta, Row, Go, Nop, Err, AfterReport

\* The end of the data makes the current machine accept.
LEMMA EnterFinalType ==
  ASSUME TypeOK, EnterFinal
  PROVE  /\ hp' \in Hp
         /\ curst' \in [Fsm -> AllStates] /\ \A f \in Fsm : curst'[f] \in FsmStates[f]
<1>1. s_curfsm \in Fsm /\ curst[s_curfsm] \in FsmStates[s_curfsm]
  BY DEF TypeOK
<1>2. EofTrans.state \in FsmStates[s_curfsm]
  BY <1>1, DeltaType DEF EofTrans, Tok
<1>3. EofTrans.state \in AllStates
  BY <1>1, <1>2 DEF AllStates
<1>4. NUL \in Byte
  BY DEF Byte
<1>5. hp' \in Hp
  BY <1>4, ActType DEF EnterFinal, TypeOK
<1>6. QED
  BY <1>1, <1>2, <1>3, <1>5 DEF EnterFinal, TypeOK

LEMMA BusyNextByteInv ==
  ASSUME Inv, BusyNextByte
  PROVE  Inv'
<1> USE DEF bufVars, fsmVars, envVars, histVars
<1>1. TypeOK /\ s_state = "BUSY" /\ pc = "loop" /\ s_readbuf = <<>> /\ s_writebuf # <<>>
        /\ fromSw = <<>> /\ ~eof
  BY DEF BusyNextByte, NoData, Running, Inv
<1>2. ~LoggingIn
  BY <1>1 DEF Inv, Login
<1>3. TypeOK'
  BY <1>1, EnterFinalType DEF BusyNextByte, TypeOK, States
<1>4. Shape' /\ Flag' /\ SelfChecksHold'
  BY <1>1 DEF Inv, Shape, Flag, SelfChecksHold, BusyNextByte
<1>5. Login' /\ LoggedIn'
  BY <1>2 DEF Inv, Login, LoggedIn, LoggingIn, BusyNextByte
<1>6. QED
  BY <1>3, <1>4, <1>5 DEF Inv

\* Output and prompt are ready for the user.
LEMMA BusyDoneInv ==
  ASSUME Inv, BusyDone
  PROVE  Inv'
<1> USE DEF bufVars, fsmVars, envVars, histVars
<1>1. TypeOK /\ s_state = "BUSY" /\ pc = "loop" /\ s_readbuf = <<>> /\ s_writebuf = <<>>
        /\ fromSw = <<>> /\ ~eof /\ s_outbuf = <<>> /\ Accepts
  BY DEF BusyDone, NoData, Running, Inv, Shape
<1>2. /\ EnterFinal
      /\ s_outbuf' = Output(s_curfsm, hp') /\ s_ps1buf' = Prompt(s_curfsm, hp')
      /\ s_state' = "READY"
      /\ UNCHANGED <<s_nodataflag, s_readbuf, s_readbufsz, s_writebuf, s_curfsm, eaten, pc,
                     exit, envVars, histVars>>
  BY <1>1 DEF BusyDone
<1>3. TypeOK'
  <2>1. hp' \in Hp /\ curst' \in [Fsm -> AllStates] /\ \A f \in Fsm : curst'[f] \in FsmStates[f]
    BY <1>1, <1>2, EnterFinalType
  <2>2. hp'.ips1 \in Seq(Byte) /\ hp'.out \in Seq(Byte) /\ hp'.ps1 \in Seq(Byte)
    BY <2>1 DEF Hp
  <2>3. CStr(hp'.ips1) \in Seq(Byte) /\ CStr(hp'.out) \in Seq(Byte) /\ CStr(hp'.ps1) \in Seq(Byte)
    BY <2>2, CStrType
  <2>4. s_outbuf' \in Seq(Byte) /\ s_ps1buf' \in Seq(Byte)
    BY <1>2, <2>3 DEF Output, Prompt
  <2>5. QED
    BY <1>1, <1>2, <2>1, <2>4 DEF TypeOK, States
<1>4. Shape' /\ Flag' /\ SelfChecksHold'
  BY <1>1, <1>2 DEF Inv, Shape, Flag, SelfChecksHold
<1>5. Login'
  BY <1>2 DEF Login, LoggingIn
<1>6. wrote \o s_writebuf = <<AnyKey, Report>> \o asked
  <2>1. CASE ~LoggingIn
    BY <2>1 DEF Inv, LoggedIn
  <2>2. CASE LoggingIn
    <3>1. s_curfsm = "init" /\ curst["init"] \in FsmStates["init"]
      BY <1>1, <2>2 DEF LoggingIn, TypeOK
    <3>2. curst["init"] \in AfterReport
      BY <1>1, <3>1, InitAccepts DEF Accepts, EofTrans
    <3>3. hp.anykey = FALSE /\ hp.report = FALSE
      BY <1>1, <2>2 DEF Inv, Shape, Login
    <3>4. wrote = <<AnyKey, Report>> /\ asked = <<>>
      BY <2>2, <3>2, <3>3 DEF Inv, Login, Stage, BeforeKey, AfterReport
    <3>5. QED
      BY <1>1, <3>4
  <2>3. QED
    BY <2>1, <2>2
<1>7. LoggedIn'
  BY <1>2, <1>6 DEF LoggedIn
<1>8. QED
  BY <1>3, <1>4, <1>5, <1>7 DEF Inv

\* There is nothing to read: wait for data.
LEMMA BusyWaitInv ==
  ASSUME Inv, BusyWait
  PROVE  Inv'
<1> USE DEF bufVars, fsmVars, envVars, histVars
<1>1. s_state = "BUSY" /\ pc = "loop" /\ s_readbuf = <<>> /\ ~s_nodataflag
  BY DEF BusyWait, NoData, Running, Inv, Flag
<1>2. TypeOK'
  BY <1>1 DEF Inv, TypeOK, BusyWait
<1>3. Shape' /\ Flag' /\ SelfChecksHold'
  BY <1>1 DEF Inv, Shape, Flag, SelfChecksHold, BusyWait
<1>4. Login' /\ LoggedIn'
  BY <1>1 DEF Inv, Login, LoggedIn, LoggingIn, Stage, BusyWait
<1>5. QED
  BY <1>2, <1>3, <1>4 DEF Inv

LEMMA CoreSelectInv ==
  ASSUME Inv, CoreSelect
  PROVE  Inv'
<1> USE DEF bufVars, fsmVars, envVars, histVars, CoreSelect, Readable
<1>1. TypeOK'
  BY DEF Inv, TypeOK
<1>2. Shape' /\ Flag' /\ SelfChecksHold'
  BY DEF Inv, Shape, Flag, SelfChecksHold, Running
<1>3. Login' /\ LoggedIn'
  BY DEF Inv, Login, LoggedIn, LoggingIn, Stage
<1>4. QED
  BY <1>1, <1>2, <1>3 DEF Inv

\* What the other end may do.
LEMMA SshInv ==
  ASSUME Inv, SshExits \/ \E bytes \in Seq(Byte) \ {<<>>} : SshSends(bytes)
  PROVE  Inv'
<1> USE DEF bufVars, fsmVars, envVars, histVars
<1>1. CASE SshExits
  <2>1. TypeOK'
    BY <1>1 DEF Inv, TypeOK, SshExits
  <2>2. Shape' /\ Flag' /\ SelfChecksHold'
    BY <1>1 DEF Inv, Shape, Flag, SelfChecksHold, SshExits
  <2>3. Login' /\ LoggedIn'
    BY <1>1 DEF Inv, Login, LoggedIn, LoggingIn, Stage, SshExits
  <2>4. QED
    BY <2>1, <2>2, <2>3 DEF Inv
<1>2. CASE \E bytes \in Seq(Byte) \ {<<>>} : SshSends(bytes)
  <2> PICK bytes \in Seq(Byte) \ {<<>>} : SshSends(bytes)
    BY <1>2
  <2>1. fromSw' \in Seq(Byte) /\ fromSw' # <<>>
    BY ConcatProperties, EmptySeq DEF Inv, TypeOK, SshSends
  <2>2. TypeOK'
    BY <2>1 DEF Inv, TypeOK, SshSends
  <2>3. Shape' /\ Flag' /\ SelfChecksHold'
    BY <2>1 DEF Inv, Shape, Flag, SelfChecksHold, SshSends
  <2>4. Login' /\ LoggedIn'
    BY DEF Inv, Login, LoggedIn, LoggingIn, Stage, SshSends
  <2>5. QED
    BY <2>2, <2>3, <2>4 DEF Inv
<1>3. QED
  BY <1>1, <1>2

LEMMA StutterInv ==
  ASSUME Inv, UNCHANGED vars
  PROVE  Inv'
<1> USE DEF vars, bufVars, fsmVars, envVars, histVars
<1>1. TypeOK'
  BY DEF Inv, TypeOK
<1>2. Shape' /\ Flag' /\ SelfChecksHold'
  BY DEF Inv, Shape, Flag, SelfChecksHold
<1>3. Login' /\ LoggedIn'
  BY DEF Inv, Login, LoggedIn, LoggingIn, Stage
<1>4. QED
  BY <1>1, <1>2, <1>3 DEF Inv

\* Every step of the program and of its user keeps the invariant, whoever is
\* at the other end.
LEMMA ProgramInv ==
  ASSUME Inv, Program \/ User \/ Idle
  PROVE  Inv'
BY CoreWriteInv, OperWritingInv, FailInv, BusyReadInv, FeedTokenInv, NeedMoreDataInv,
   FirstAnswerInv, FeedReturnInv, BusyNextByteInv, BusyDoneInv, BusyWaitInv, CoreSelectInv, StutterInv
   DEF Program, User, Idle, Feed, Busy

\* Init and every step of the specification establish the invariant.
THEOREM Invariance == Spec => []Inv
<1>1. Inv /\ [Next]_vars => Inv'
  <2> SUFFICES ASSUME Inv, [Next]_vars PROVE Inv'
    OBVIOUS
  <2>1. \A b \in SshBytes : <<b>> \in Seq(Byte) \ {<<>>}
    BY ScOpenAssumption
  <2>2. CASE Ssh
    BY <2>1, <2>2, SshInv DEF Ssh, SshSendsByte
  <2>3. QED
    BY <2>2, ProgramInv, StutterInv DEF Next
<1>2. QED
  BY InitInv, <1>1, PTL DEF Spec

\* Every variable always has its type: the read buffer is never overrun and
\* fsm_feed never looks beyond its end, whatever ssh sends.
THEOREM TypeCorrect == Spec => []TypeOK
BY Invariance, PTL DEF Inv

\* No sequence of bytes from ssh, however it is cut, makes one of sc.c's checks
\* on itself fire.
THEOREM SelfChecksNeverFire == Spec => []SelfChecksHold
BY Invariance, PTL DEF Inv

\* The login's answers, each once and in order, and then what the user typed,
\* byte for byte: for every switch, every line and every way the data arrives.
THEOREM SentOnceInOrder == Spec => []SentInOrder
<1> DEFINE p == <<AnyKey, Report>>
           B == {AnyKey, Report}
<1>1. /\ LoginAnswers(0) = <<>> /\ LoginAnswers(1) = <<AnyKey>> /\ LoginAnswers(2) = p
  <2>1. p \in Seq(B) /\ Len(p) = 2 /\ p[1] = AnyKey
    OBVIOUS
  <2> HIDE DEF p, B
  <2>2. SubSeq(p, 1, 2) = p
    BY <2>1, SubSeqFull
  <2>3. SubSeq(p, 1, 0) = <<>> /\ SubSeq(p, 2, 1) = <<>>
    BY SubSeqEmpty
  <2>4. SubSeq(p, 1, 1) = <<p[1]>> \o SubSeq(p, 2, 1)
    BY <2>1, SubSeqRecursiveFirst
  <2>5. SubSeq(p, 1, 1) = <<AnyKey>>
    BY <2>1, <2>3, <2>4, Concats
  <2>6. QED
    BY <2>2, <2>3, <2>5 DEF LoginAnswers, p
<1>2. Inv => SentInOrder
  <2> SUFFICES ASSUME Inv PROVE SentInOrder
    OBVIOUS
  <2>1. CASE ~LoggingIn
    <3>1. wrote \o s_writebuf = LoginAnswers(2) \o asked
      BY <1>1, <2>1 DEF Inv, LoggedIn
    <3>2. QED
      BY <3>1 DEF SentInOrder
  <2>2. CASE LoggingIn
    <3>1. asked = <<>> /\ s_writebuf = <<>> /\ wrote \in {<<>>, <<AnyKey>>, <<AnyKey, Report>>}
      BY <2>2 DEF Inv, Login, Stage
    <3>2. \E k \in 0..2 : wrote = LoginAnswers(k)
      BY <1>1, <3>1
    <3>3. QED
      BY <2>2, <3>1, <3>2 DEF SentInOrder, LoggingIn
  <2>3. QED
    BY <2>1, <2>2
<1>3. QED
  BY <1>2, Invariance, PTL


-----------------------------------------------------------------------------
(* The inductive invariant: how far the machine is in the switch's response *)

\* The bytes of the response that the machine has eaten; the next ones are in
\* the read buffer, the pipe and the switch.
Pos == done - Len(Rest) - Len(fromSw)

\* A byte is on its way to the switch.
Asking == got < Len(wrote)

\* r and then f are what s has behind its first p bytes.
Behind(s, p, r, f) ==
  /\ \A k \in 1..Len(r) : r[k] = s[p + k]
  /\ \A k \in 1..Len(f) : f[k] = s[p + Len(r) + k]

Stream ==
  /\ resp \in Seq(Byte) /\ done \in 0..Len(resp) /\ Pos \in 0..done
  /\ Behind(resp, Pos, Rest, fromSw)
  /\ done > 0 => PieceMayEnd(done)

\* Whose turn it is: while a byte is on its way there is nothing left of the
\* response to the one before, nor is there when the program is not busy.
Turns ==
  /\ sw \in {"key", "report", "input"} /\ got \in Nat /\ got <= Len(wrote)
  /\ sw = "input" => got >= 2
  /\ Asking => got + 1 = Len(wrote) /\ s_state = "BUSY" /\ pc # "feed"
  /\ Asking \/ s_state # "BUSY" => Pos = Len(resp)
  /\ s_state # "BUSY" => sw = "input"
  /\ s_writebuf \in Seq(Plain)

\* What the responses look like.
EseqAt(s, i)    == s[i + 1] = ESC /\ s[i + 2] = "H"
TextAt(s, i, t) == \A k \in 1..Len(t) : s[i + k] = t[k]

IsGreeting(s) ==
  Len(s) = 6 /\ s[1] = " " /\ EseqAt(s, 1) /\ s[4] = " " /\ EseqAt(s, 4)

IsRequest(s) == Len(s) = 3 /\ EseqAt(s, 0) /\ s[3] = " "

IsText(s, t) ==
  Len(s) = Len(t) + 4 /\ EseqAt(s, 0) /\ TextAt(s, 2, t) /\ EseqAt(s, 2 + Len(t))

IsEcho(s) ==
  /\ Len(s) \in {5, 7} /\ EseqAt(s, 0) /\ s[3] # ESC /\ EseqAt(s, 3)
  /\ Len(s) = 7 => EseqAt(s, 5)

IsOutput(s, t, u) ==
  /\ Len(s) = Len(t) + Len(u) + 6
  /\ EseqAt(s, 0) /\ TextAt(s, 2, t) /\ EseqAt(s, 2 + Len(t))
  /\ TextAt(s, 4 + Len(t), u) /\ EseqAt(s, 4 + Len(t) + Len(u))

IsReply(s, r) == IF r.out = <<>> THEN IsText(s, r.ps1) ELSE IsOutput(s, r.out, r.ps1)

\* Buffer b holds the first k bytes of t.
Recorded(b, t, k) == b \in Seq(Byte) /\ Len(b) = k /\ \A j \in 1..k : b[j] = t[j]

\* Where the machine is, and what it has recorded, behind p bytes of a response.
GreetingAt(p, st) ==
  \/ p = 0 /\ st = "S_STA"
  \/ p = 1 /\ st = "S_LIC"
  \/ p = 3 /\ st = "S_CM1"
  \/ p = 4 /\ st = "S_ANY"
  \/ p = 6 /\ st = "S_CM2"

RequestAt(p, st) ==
  \/ p \in {0, 2} /\ st = "S_CM2"
  \/ p = 3 /\ st = "S_LAS"

\* An escape sequence, text t that is recorded in b, and an escape sequence.
Enclosed(p, st, b, t, before, start, inside, behind) ==
  \/ p = 0 /\ st = before /\ Recorded(b, t, 0)
  \/ p = 2 /\ st = start /\ Recorded(b, t, 0)
  \/ p \in 3..Len(t)+2 /\ st = inside /\ Recorded(b, t, p - 2)
  \/ p = Len(t) + 4 /\ st = behind /\ Recorded(b, t, Len(t))

PromptAt(p, st, b, t) == Enclosed(p, st, b, t, "S_LAS", "S_CM3", "S_PS1", "S_CM4")

EchoAt(p, st) ==
  \/ p = 0 /\ st = "S_STA"
  \/ p = 2 /\ st = "S_CM1"
  \/ p = 3 /\ st = "S_INC"
  \/ p \in {5, 7} /\ st = "S_CM2"

FirstAt(p, st, h, t) ==
  h.ps1 = <<>> /\ Enclosed(p, st, h.out, t, "S_STA", "S_CM1", "S_OUT", "S_CM2")

SecondAt(p, st, h, t, u) ==
  /\ Recorded(h.out, t, Len(t))
  /\ \/ /\ p \in Len(t)+5..Len(t)+Len(u)+4 /\ st = "S_PS1"
        /\ Recorded(h.ps1, u, p - Len(t) - 4)
     \/ p = Len(t) + Len(u) + 6 /\ st = "S_CM3" /\ Recorded(h.ps1, u, Len(u))

\* An answer without output has its prompt where others have their output.
First(r) == IF r.out = <<>> THEN r.ps1 ELSE r.out

ReplyAt(p, st, h, r) ==
  \/ FirstAt(p, st, h, First(r))
  \/ r.out # <<>> /\ SecondAt(p, st, h, r.out, r.ps1)

\* What the switch is saying, what it waits for behind that, and where machine
\* f is, in state st with buffers h, behind p bytes of it.
Greeted(f, p, st, h) ==
  /\ f = "init" /\ sw = "key" /\ got = 0
  /\ IsGreeting(resp) /\ GreetingAt(p, st) /\ h.ips1 = <<>>

Requested(f, p, st, h) ==
  /\ f = "init" /\ sw = "report" /\ got = 1
  /\ IsRequest(resp) /\ RequestAt(p, st) /\ h.ips1 = <<>>

Prompted(f, p, st, h) ==
  /\ f = "init" /\ sw = "input" /\ got = 2 /\ ~Asking
  /\ IsText(resp, LoginPs1) /\ PromptAt(p, st, h.ips1, LoginPs1)

Typed(f, st, h) ==
  /\ f \in {"inchar", "cmdout"} /\ sw = "input" /\ Asking /\ st = "S_STA"
  /\ wrote[got + 1] \in Plain /\ f = FsmFor(wrote[got + 1])
  /\ f = "cmdout" => h.out = <<>> /\ h.ps1 = <<>>

Echoed(f, p, st) ==
  /\ f = "inchar" /\ sw = "input" /\ ~Asking /\ got > 2 /\ wrote[got] # NL
  /\ IsEcho(resp) /\ EchoAt(p, st)

Replied(f, p, st, h) ==
  /\ f = "cmdout" /\ sw = "input" /\ ~Asking /\ got > 2 /\ wrote[got] = NL
  /\ reply \in Replies /\ IsReply(resp, reply) /\ ReplyAt(p, st, h, reply)

Place(f, p, st, h) ==
  \/ Greeted(f, p, st, h)
  \/ Requested(f, p, st, h)
  \/ Prompted(f, p, st, h)
  \/ Typed(f, st, h)
  \/ Echoed(f, p, st)
  \/ Replied(f, p, st, h)

Places == s_state = "BUSY" => Place(s_curfsm, Pos, curst[s_curfsm], hp)

DInv == Inv /\ Stream /\ Turns /\ Places /\ Faithful /\ EndsOnlyWithSsh
-----------------------------------------------------------------------------
(* The recogniser, on an escape sequence of two bytes *)

\* f is the function that Scan defines by recursion, on the first n bytes.
ScanOf(f, d, n) ==
  f = [i \in 0..n |-> IF i = 0 THEN "S_STA"
                      ELSE IF f[i-1] \in {"S_FIN", "S_ERR"} THEN f[i-1]
                      ELSE SeqDelta(f[i-1], mktok(d[i]))]

ScanEquations(f, d, n) ==
  /\ f[0] = "S_STA"
  /\ \A i \in 1..n : f[i] = IF f[i-1] \in {"S_FIN", "S_ERR"} THEN f[i-1]
                            ELSE SeqDelta(f[i-1], mktok(d[i]))

\* Such a function satisfies the equations.
LEMMA ScanOfEquations ==
  ASSUME NEW f, NEW d, NEW n \in Nat, ScanOf(f, d, n)
  PROVE  ScanEquations(f, d, n)
<1> DEFINE g == [i \in 0..n |-> IF i = 0 THEN "S_STA"
                                ELSE IF f[i-1] \in {"S_FIN", "S_ERR"} THEN f[i-1]
                                ELSE SeqDelta(f[i-1], mktok(d[i]))]
<1>1. f = g
  BY Zenon DEF ScanOf
<1>2. 0 \in 0..n /\ \A i \in 1..n : i \in 0..n /\ i # 0
  OBVIOUS
<1>3. /\ g[0] = "S_STA"
      /\ \A i \in 1..n : g[i] = IF f[i-1] \in {"S_FIN", "S_ERR"} THEN f[i-1]
                                ELSE SeqDelta(f[i-1], mktok(d[i]))
  BY <1>2, Zenon
<1>4. QED
  BY <1>1, <1>3, Zenon DEF ScanEquations

\* There is one, for any number of bytes.
LEMMA ScanExists ==
  ASSUME NEW d, NEW n \in Nat
  PROVE  \E f : ScanOf(f, d, n)
<1> DEFINE S == {m \in Nat : ~ \E f : ScanOf(f, d, m)}
<1>1. SUFFICES ASSUME S # {} PROVE FALSE
  BY Zenon
<1>2. PICK m \in S : \A k \in S : m <= k
  BY <1>1, MinMember, Zenon
<1> DEFINE Val(f, i) == IF i = 0 THEN "S_STA"
                        ELSE IF f[i-1] \in {"S_FIN", "S_ERR"} THEN f[i-1]
                        ELSE SeqDelta(f[i-1], mktok(d[i]))
<1>3. CASE m = 0
  <2> DEFINE f == [i \in 0..m |-> "S_STA"]
  <2>1. \A i \in 0..m : i = 0
    BY <1>3
  <2>2. f = [i \in 0..m |-> Val(f, i)]
    BY <2>1, Zenon
  <2>3. ScanOf(f, d, m)
    BY <2>2, Zenon DEF ScanOf
  <2>4. QED
    BY <1>2, <2>3, Zenon
<1>4. CASE m # 0
  <2> DEFINE p == m - 1
  <2>1. p \in Nat /\ ~ (m <= p) /\ m \in Nat
    BY <1>2, <1>4
  <2>2. PICK g : ScanOf(g, d, p)
    BY <1>2, <2>1, Zenon
  <2> DEFINE f == [i \in 0..m |-> Val(g, i)]
  <2>3. \A i \in 0..p : f[i] = g[i]
    <3>1. g = [i \in 0..p |-> Val(g, i)]
      BY <2>2, Zenon DEF ScanOf
    <3> HIDE DEF Val
    <3>2. \A i \in 0..p : i \in 0..m
      BY <2>1
    <3> HIDE DEF p
    <3>3. \A i \in 0..p : g[i] = Val(g, i)
      BY <3>1, Zenon
    <3>4. \A i \in 0..p : f[i] = Val(g, i)
      BY <3>2, Zenon
    <3>5. QED
      BY <3>3, <3>4, Zenon
  <2>4. \A i \in 0..m : i # 0 => i - 1 \in 0..p
    BY <2>1
  <2>5. \A i \in 0..m : Val(g, i) = Val(f, i)
    <3> HIDE DEF f, p
    <3>1. QED
      BY <2>3, <2>4, Zenon
  <2>6. f = [i \in 0..m |-> Val(f, i)]
    <3> DEFINE h == [i \in 0..m |-> Val(f, i)]
    <3> HIDE DEF Val
    <3>1. f = h
      BY <2>5, Zenon
    <3>2. QED
      BY <3>1, Zenon
  <2>7. ScanOf(f, d, m)
    BY <2>6, Zenon DEF ScanOf
  <2>8. QED
    BY <1>2, <2>7, Zenon
<1>5. QED
  BY <1>3, <1>4

\* So Scan is one.
LEMMA ScanIs ==
  ASSUME NEW d, Len(d) \in Nat
  PROVE  ScanEquations(Scan(d), d, Len(d))
<1>1. \E f : ScanOf(f, d, Len(d))
  BY ScanExists
<1>2. Scan(d) = CHOOSE f : ScanOf(f, d, Len(d))
  BY Zenon DEF Scan, ScanOf
<1>3. ScanOf(Scan(d), d, Len(d))
  BY <1>1, <1>2, Zenon
<1>4. QED
  BY <1>3, ScanOfEquations

\* The two bytes of the switch's escape sequences.
LEMMA EseqScan ==
  /\ SeqDelta("S_STA", mktok(ESC)) = "S_ESC"
  /\ SeqDelta("S_ESC", mktok("H")) = "S_FIN"
<1>1. mktok(ESC) = "T_ESCP"
  BY DEF mktok, ESC, Digits, CCHRS
<1>2. mktok("H") = "T_CCHR"
  <2>1. "H" \in CCHRS /\ "H" \notin Digits /\ "H" # ESC
    BY DEF CCHRS, Digits, ESC
  <2>2. "H" \notin {"bel", "st", "#", "(", ")", "[", "]", "?", ";"}
    OBVIOUS
  <2> DEFINE h == "H"
  <2>3. /\ h \in CCHRS /\ h \notin Digits /\ h # ESC /\ h # "bel" /\ h # "st" /\ h # "#"
        /\ h # "(" /\ h # ")" /\ h # "[" /\ h # "]" /\ h # "?" /\ h # ";"
    BY <2>1, <2>2
  <2> HIDE DEF h
  <2>4. mktok(h) = "T_CCHR"
    BY <2>3, Zenon DEF mktok
  <2>5. QED
    BY <2>4 DEF h
<1>3. SeqDelta("S_STA", "T_ESCP") = "S_ESC"
  BY DEF SeqDelta
<1>4. SeqDelta("S_ESC", "T_CCHR") = "S_FIN"
  BY DEF SeqDelta
<1>5. QED
  BY <1>1, <1>2, <1>3, <1>4, Zenon

\* The token at the head of data that begins with text, or with an escape
\* sequence of two bytes or the first half of one.
LEMMA TokenAhead ==
  ASSUME NEW d \in Seq(Byte), Len(d) # 0,
         d[1] = ESC => Len(d) = 1 \/ d[2] = "H"
  PROVE  /\ ~MktokPanics(d)
         /\ d[1] # ESC => fsm_hp_mktok(d) = [tok |-> "T_REST", toklen |-> 1]
         /\ d[1] = ESC /\ Len(d) = 1 => fsm_hp_mktok(d).tok = "more"
         /\ d[1] = ESC /\ Len(d) > 1 => fsm_hp_mktok(d) = [tok |-> "T_ESEQ", toklen |-> 2]
<1>1. CASE d[1] # ESC
  BY <1>1 DEF MktokPanics, fsm_hp_mktok
<1>2. CASE d[1] = ESC
  <2> DEFINE sc == Scan(d)
             e  == Ends(d)
  <2>1. Len(d) \in Nat /\ Len(d) >= 1
    OBVIOUS
  <2>2. sc[0] = "S_STA" /\ sc[1] = SeqDelta(sc[0], mktok(d[1]))
    <3>1. ScanEquations(sc, d, Len(d))
      BY <2>1, ScanIs
    <3> HIDE DEF sc
    <3>2. 1 \in 1..Len(d) /\ 1 - 1 = 0
      BY <2>1
    <3>3. sc[0] = "S_STA"
      BY <3>1, Zenon DEF ScanEquations
    <3>4. sc[1] = IF sc[1-1] \in {"S_FIN", "S_ERR"} THEN sc[1-1] ELSE SeqDelta(sc[1-1], mktok(d[1]))
      BY <3>1, <3>2, Zenon DEF ScanEquations
    <3>5. QED
      BY <3>2, <3>3, <3>4
  <2>3. sc[1] = "S_ESC"
    BY <1>2, <2>2, EseqScan
  <2>4. e = {i \in 1..Len(d) : sc[i] \in {"S_FIN", "S_ERR"}}
    BY Zenon DEF Ends
  <2>5. CASE Len(d) = 1
    <3> HIDE DEF sc, e
    <3>1. e = {}
      BY <2>3, <2>4, <2>5
    <3>2. EatOne(d) = -1 /\ ~EatPanics(d)
      BY <3>1 DEF EatOne, EatPanics, e
    <3>3. QED
      BY <1>2, <2>5, <3>2 DEF MktokPanics, fsm_hp_mktok
  <2>6. CASE Len(d) > 1
    <3>1. d[2] = "H"
      BY <1>2, <2>6
    <3>2. sc[2] = SeqDelta(sc[1], mktok(d[2]))
      <4>1. ScanEquations(sc, d, Len(d))
        BY <2>1, ScanIs
      <4> HIDE DEF sc
      <4>2. 2 \in 1..Len(d) /\ 2 - 1 = 1
        BY <2>1, <2>6
      <4>3. sc[2] = IF sc[2-1] \in {"S_FIN", "S_ERR"} THEN sc[2-1] ELSE SeqDelta(sc[2-1], mktok(d[2]))
        BY <4>1, <4>2, Zenon DEF ScanEquations
      <4>4. QED
        BY <2>3, <4>2, <4>3
    <3>3. sc[2] = "S_FIN"
      BY <2>3, <3>1, <3>2, EseqScan
    <3> HIDE DEF sc, e
    <3>4. 2 \in e /\ 1 \notin e /\ e \in SUBSET Nat /\ \A i \in e : i >= 1
      BY <2>1, <2>3, <2>4, <2>6, <3>3
    <3>5. Min(e) \in e /\ \A k \in e : Min(e) <= k
      BY <3>4, MinMember
    <3>6. Min(e) = 2
      <4> DEFINE m == Min(e)
      <4>1. m \in e /\ m <= 2
        BY <3>4, <3>5, Zenon
      <4> HIDE DEF m
      <4>2. m \in Nat /\ m >= 1 /\ m # 1
        BY <3>4, <4>1
      <4>3. m = 2
        BY <4>1, <4>2
      <4>4. QED
        BY <4>3, Zenon DEF m
    <3>7. EatOne(d) = 2 /\ ~EatPanics(d)
      BY <3>3, <3>4, <3>6 DEF EatOne, EatPanics, e, sc
    <3>8. fsm_hp_mktok(d) = [tok |-> "T_ESEQ", toklen |-> 2]
      BY <1>2, <3>7 DEF fsm_hp_mktok
    <3>9. ~MktokPanics(d)
      BY <3>7 DEF MktokPanics
    <3>10. QED
      <4>1. Len(d) # 1
        <5> DEFINE n == Len(d)
        <5>1. n \in Nat /\ n > 1
          BY <2>1, <2>6
        <5> HIDE DEF n
        <5>2. n # 1
          BY <5>1
        <5>3. QED
          BY <5>2 DEF n
      <4>2. QED
        BY <1>2, <3>8, <3>9, <4>1, Zenon
  <2>7. Len(d) = 1 \/ Len(d) > 1
    <3> DEFINE n == Len(d)
    <3>1. n \in Nat /\ n >= 1
      BY <2>1
    <3> HIDE DEF n, sc, e
    <3>2. n = 1 \/ n > 1
      BY <3>1
    <3>3. QED
      BY <3>2 DEF n
  <2>8. QED
    BY <2>5, <2>6, <2>7, Zenon
<1>3. QED
  BY <1>1, <1>2
-----------------------------------------------------------------------------
(* The machines, on the responses *)

\* Where a token takes a machine, and what is done on the way.
To(f, st, t)   == delta[f][st][t].state
Does(f, st, t) == delta[f][st][t].action

\* The entries of the tables that the responses lead through.
LEMMA InitTable ==
  LET to(st, t, next, act) == To("init", st, t) = next /\ Does("init", st, t) = act
  IN  /\ to("S_STA", "T_REST", "S_LIC", "act_nop")
      /\ to("S_LIC", "T_ESEQ", "S_CM1", "act_nop")
      /\ to("S_CM1", "T_REST", "S_ANY", "act_nop")
      /\ to("S_ANY", "T_ESEQ", "S_CM2", "act_ak")
      /\ to("S_CM2", "T_ESEQ", "S_CM2", "act_nop")
      /\ to("S_CM2", "T_REST", "S_LAS", "act_report")
      /\ to("S_LAS", "T_ESEQ", "S_CM3", "act_nop")
      /\ to("S_CM3", "T_REST", "S_PS1", "act_recps")
      /\ to("S_PS1", "T_REST", "S_PS1", "act_recps")
      /\ to("S_PS1", "T_ESEQ", "S_CM4", "act_nop")
      /\ to("S_CM4", "T_EOF",  "S_FIN", "act_nop")
BY DEF delta, InitDelta, Row, Go, Nop, Err, To, Does

LEMMA CmdoutTable ==
  LET to(st, t, next, act) == To("cmdout", st, t) = next /\ Does("cmdout", st, t) = act
  IN  /\ to("S_STA", "T_ESEQ", "S_CM1", "act_nop")
      /\ to("S_CM1", "T_REST", "S_OUT", "act_rec")
      /\ to("S_OUT", "T_REST", "S_OUT", "act_rec")
      /\ to("S_OUT", "T_ESEQ", "S_CM2", "act_nop")
      /\ to("S_CM2", "T_REST", "S_PS1", "act_recps")
      /\ to("S_PS1", "T_REST", "S_PS1", "act_recps")
      /\ to("S_PS1", "T_ESEQ", "S_CM3", "act_nop")
      /\ to("S_CM2", "T_EOF",  "S_FIN", "act_noout")
      /\ to("S_CM3", "T_EOF",  "S_FIN", "act_nop")
BY DEF delta, CmdoutDelta, Row, Go, Nop, Err, To, Does

LEMMA IncharTable ==
  LET to(st, t, next, act) == To("inchar", st, t) = next /\ Does("inchar", st, t) = act
  IN  /\ to("S_STA", "T_ESEQ", "S_CM1", "act_nop")
      /\ to("S_CM1", "T_REST", "S_INC", "act_nop")
      /\ to("S_INC", "T_ESEQ", "S_CM2", "act_nop")
      /\ to("S_CM2", "T_ESEQ", "S_CM2", "act_nop")
      /\ to("S_CM2", "T_EOF",  "S_FIN", "act_nop")
BY DEF delta, IncharDelta, Row, Go, Nop, Err, To, Does

\* A machine accepts only behind the escape sequence that may be the last one.
LEMMA AcceptsOnly ==
  ASSUME NEW f \in Fsm, NEW st \in FsmStates[f], isaccepting(To(f, st, "T_EOF"))
  PROVE  \/ f = "init" /\ st = "S_CM4"
         \/ f = "inchar" /\ st = "S_CM2"
         \/ f = "cmdout" /\ st \in {"S_CM2", "S_CM3"}
<1> USE DEF To, isaccepting, Row, Go, Nop, Err
<1>1. CASE f = "init"
  <2>1. st \in FsmStates["init"]
    BY <1>1
  <2>2. QED
    BY <1>1, <2>1 DEF FsmStates, delta, InitDelta
<1>2. CASE f = "cmdout"
  <2>1. st \in FsmStates["cmdout"]
    BY <1>2
  <2>2. QED
    BY <1>2, <2>1 DEF FsmStates, delta, CmdoutDelta
<1>3. CASE f = "inchar"
  <2>1. st \in FsmStates["inchar"]
    BY <1>3
  <2>2. QED
    BY <1>3, <2>1 DEF FsmStates, delta, IncharDelta
<1>4. QED
  BY <1>1, <1>2, <1>3 DEF Fsm

\* What follows in s behind p bytes is an escape sequence, and the machine is
\* where it should be behind that, or it is a byte of text, likewise.
Ahead(s, p, behindEseq, behindText) ==
  \/ s[p + 1] = ESC /\ s[p + 2] = "H" /\ behindEseq
  \/ s[p + 1] # ESC /\ behindText

\* The actions that record no byte.
Quiet == {"act_nop", "act_ak", "act_report"}

LEMMA GreetingStep ==
  ASSUME NEW s \in Seq(Byte), NEW p \in Nat, NEW st, IsGreeting(s), GreetingAt(p, st), p < Len(s)
  PROVE  Ahead(s, p, /\ GreetingAt(p + 2, To("init", st, "T_ESEQ"))
                     /\ Does("init", st, "T_ESEQ") \in Quiet,
                     /\ GreetingAt(p + 1, To("init", st, "T_REST"))
                     /\ Does("init", st, "T_REST") \in Quiet)
<1>1. " " # ESC /\ "act_nop" \in Quiet /\ "act_ak" \in Quiet
  BY DEF ESC, Quiet
<1>2. p # 6
  <2>1. Len(s) = 6
    BY DEF IsGreeting
  <2>2. QED
    BY <2>1
<1>3. CASE p = 0 /\ st = "S_STA"
  <2>1. p + 1 = 1
    BY <1>3
  <2>2. QED
    BY <1>1, <1>3, <2>1, InitTable, Zenon DEF Ahead, IsGreeting, GreetingAt
<1>4. CASE p = 1 /\ st = "S_LIC"
  <2>1. p + 2 = 3
    BY <1>4
  <2>2. QED
    BY <1>1, <1>4, <2>1, InitTable, Zenon DEF Ahead, IsGreeting, EseqAt, GreetingAt
<1>5. CASE p = 3 /\ st = "S_CM1"
  <2>1. p + 1 = 4
    BY <1>5
  <2>2. QED
    BY <1>1, <1>5, <2>1, InitTable, Zenon DEF Ahead, IsGreeting, GreetingAt
<1>6. CASE p = 4 /\ st = "S_ANY"
  <2>1. p + 2 = 6
    BY <1>6
  <2>2. QED
    BY <1>1, <1>6, <2>1, InitTable, Zenon DEF Ahead, IsGreeting, EseqAt, GreetingAt
<1>7. QED
  BY <1>2, <1>3, <1>4, <1>5, <1>6, Zenon DEF GreetingAt

LEMMA RequestStep ==
  ASSUME NEW s \in Seq(Byte), NEW p \in Nat, NEW st, IsRequest(s), RequestAt(p, st), p < Len(s)
  PROVE  Ahead(s, p, /\ RequestAt(p + 2, To("init", st, "T_ESEQ"))
                     /\ Does("init", st, "T_ESEQ") \in Quiet,
                     /\ RequestAt(p + 1, To("init", st, "T_REST"))
                     /\ Does("init", st, "T_REST") \in Quiet)
<1>1. " " # ESC /\ "act_nop" \in Quiet /\ "act_report" \in Quiet
  BY DEF ESC, Quiet
<1>2. p # 3
  <2>1. Len(s) = 3
    BY DEF IsRequest
  <2>2. QED
    BY <2>1
<1>3. CASE p = 0 /\ st = "S_CM2"
  <2>1. p + 2 = 2
    BY <1>3
  <2>2. QED
    BY <1>1, <1>3, <2>1, InitTable, Zenon DEF Ahead, IsRequest, EseqAt, RequestAt
<1>4. CASE p = 2 /\ st = "S_CM2"
  <2>1. p + 1 = 3
    BY <1>4
  <2>2. QED
    BY <1>1, <1>4, <2>1, InitTable, Zenon DEF Ahead, IsRequest, RequestAt
<1>5. QED
  BY <1>2, <1>3, <1>4, Zenon DEF RequestAt

LEMMA EchoStep ==
  ASSUME NEW s \in Seq(Byte), NEW p \in Nat, NEW st, IsEcho(s), EchoAt(p, st), p < Len(s)
  PROVE  Ahead(s, p, EchoAt(p + 2, To("inchar", st, "T_ESEQ")),
                     EchoAt(p + 1, To("inchar", st, "T_REST")))
<1>1. p # 7 /\ (p = 5 => Len(s) = 7)
  <2> DEFINE n == Len(s)
  <2>1. n \in Nat /\ n \in {5, 7} /\ p < n
    BY DEF IsEcho
  <2> HIDE DEF n
  <2>2. p # 7 /\ (p = 5 => n = 7)
    BY <2>1
  <2>3. QED
    BY <2>2 DEF n
<1>2. CASE p = 0 /\ st = "S_STA"
  <2>1. p + 2 = 2
    BY <1>2
  <2>2. QED
    BY <1>2, <2>1, IncharTable, Zenon DEF Ahead, IsEcho, EseqAt, EchoAt
<1>3. CASE p = 2 /\ st = "S_CM1"
  <2>1. p + 1 = 3
    BY <1>3
  <2>2. QED
    BY <1>3, <2>1, IncharTable, Zenon DEF Ahead, IsEcho, EseqAt, EchoAt
<1>4. CASE p = 3 /\ st = "S_INC"
  <2>1. p + 2 = 5
    BY <1>4
  <2>2. QED
    BY <1>4, <2>1, IncharTable, Zenon DEF Ahead, IsEcho, EseqAt, EchoAt
<1>5. CASE p = 5 /\ st = "S_CM2" /\ Len(s) = 7
  <2>1. p + 2 = 7
    BY <1>5
  <2>2. QED
    BY <1>5, <2>1, IncharTable, Zenon DEF Ahead, IsEcho, EseqAt, EchoAt
<1>6. QED
  BY <1>1, <1>2, <1>3, <1>4, <1>5, Zenon DEF EchoAt

\* One more byte of a text is recorded.
LEMMA RecordNext ==
  ASSUME NEW b, NEW t \in Seq(Plain), NEW k \in Nat, k < Len(t), Recorded(b, t, k)
  PROVE  Recorded(Append(b, t[k + 1]), t, k + 1)
<1> DEFINE c == t[k + 1]
           a == Append(b, c)
<1>1. b \in Seq(Byte) /\ Len(b) = k /\ \A j \in 1..k : b[j] = t[j]
  BY Zenon DEF Recorded
<1>2. c \in Byte
  BY DEF Plain
<1>3. a \in Seq(Byte) /\ Len(a) = k + 1 /\ a[k + 1] = c /\ \A j \in 1..k : a[j] = b[j]
  <2> HIDE DEF c
  <2>1. QED
    BY <1>1, <1>2
<1>4. \A j \in 1..k+1 : j \in 1..k \/ j = k + 1
  OBVIOUS
<1> HIDE DEF a
<1>5. \A j \in 1..k+1 : a[j] = t[j]
  BY <1>1, <1>3, <1>4, Zenon
<1>6. QED
  BY <1>3, <1>5, Zenon DEF Recorded, a, c

\* A byte in the middle of a text.
LEMMA TextByte ==
  ASSUME NEW s, NEW i \in Nat, NEW t \in Seq(Plain), TextAt(s, i, t),
         NEW p \in Nat, i <= p, p < i + Len(t)
  PROVE  s[p + 1] = t[p - i + 1] /\ s[p + 1] # ESC /\ p - i \in Nat /\ p - i < Len(t)
<1> DEFINE k == p - i + 1
<1>1. k \in 1..Len(t) /\ i + k = p + 1 /\ p - i \in Nat /\ p - i < Len(t)
  OBVIOUS
<1>2. t[k] # ESC
  BY <1>1 DEF Plain
<1> HIDE DEF k
<1>3. s[i + k] = t[k]
  BY <1>1, Zenon DEF TextAt
<1>4. QED
  BY <1>1, <1>2, <1>3, Zenon DEF k

\* A text between escape sequences.
LEMMA EnclosedStep ==
  ASSUME NEW s \in Seq(Byte), NEW t \in Seq(Plain) \ {<<>>},
         EseqAt(s, 0), TextAt(s, 2, t), EseqAt(s, 2 + Len(t)),
         NEW p \in Nat, p < Len(t) + 4, NEW st, NEW b,
         NEW before, NEW start, NEW inside, NEW behind,
         Enclosed(p, st, b, t, before, start, inside, behind)
  PROVE  LET At(q, next, b2) == Enclosed(q, next, b2, t, before, start, inside, behind)
         IN  \/ st = before /\ s[p + 1] = ESC /\ s[p + 2] = "H" /\ At(p + 2, start, b)
             \/ st = inside /\ s[p + 1] = ESC /\ s[p + 2] = "H" /\ At(p + 2, behind, b)
             \/ /\ st \in {start, inside} /\ s[p + 1] # ESC
                /\ At(p + 1, inside, Append(b, s[p + 1]))
<1> DEFINE n == Len(t)
<1>1. n \in Nat /\ n > 0 /\ p < n + 4
  OBVIOUS
<1>2. CASE p = 0 /\ st = before /\ Recorded(b, t, 0)
  <2>1. p + 2 = 2
    BY <1>2
  <2>2. QED
    BY <1>2, <2>1, Zenon DEF Enclosed, EseqAt
<1>3. ASSUME p \in 2..n+1, st \in {start, inside}, Recorded(b, t, p - 2)
      PROVE  /\ s[p + 1] # ESC
             /\ Enclosed(p + 1, inside, Append(b, s[p + 1]), t, before, start, inside, behind)
  <2>1. p >= 2 /\ p < 2 + n
    BY <1>1, <1>3
  <2>2. s[p + 1] = t[p - 2 + 1] /\ s[p + 1] # ESC /\ p - 2 \in Nat /\ p - 2 < n
    BY <2>1, TextByte
  <2>3. Recorded(Append(b, t[p - 2 + 1]), t, p - 2 + 1)
    BY <1>3, <2>2, RecordNext
  <2>4. p - 2 + 1 = (p + 1) - 2 /\ p + 1 \in 3..n+2
    BY <1>1, <1>3
  <2>5. Recorded(Append(b, s[p + 1]), t, (p + 1) - 2)
    BY <2>2, <2>3, <2>4, Zenon
  <2>6. Enclosed(p + 1, inside, Append(b, s[p + 1]), t, before, start, inside, behind)
    <3> DEFINE q == p + 1
               b2 == Append(b, s[p + 1])
    <3>1. q \in 3..Len(t)+2
      BY <1>1, <1>3
    <3>2. Recorded(b2, t, q - 2)
      BY <2>5, Zenon
    <3> HIDE DEF q, b2
    <3>3. Enclosed(q, inside, b2, t, before, start, inside, behind)
      BY <3>1, <3>2, Zenon DEF Enclosed
    <3>4. QED
      BY <3>3, Zenon DEF q, b2
  <2>7. QED
    BY <2>2, <2>6, Zenon
<1>4. CASE p = 2 /\ st = start /\ Recorded(b, t, 0)
  <2>1. p \in 2..n+1 /\ p - 2 = 0
    BY <1>1, <1>4
  <2>2. QED
    BY <1>3, <1>4, <2>1, Zenon
<1>5. CASE p \in 3..n+2 /\ st = inside /\ Recorded(b, t, p - 2)
  <2>1. CASE p = n + 2
    <3>1. p - 2 = n /\ p + 2 = n + 4 /\ 2 + n = p
      BY <1>1, <2>1
    <3>2. s[p + 1] = ESC /\ s[p + 2] = "H"
      BY <3>1, Zenon DEF EseqAt, n
    <3>3. Enclosed(p + 2, behind, b, t, before, start, inside, behind)
      BY <1>5, <3>1, Zenon DEF Enclosed, n
    <3>4. QED
      BY <1>5, <3>2, <3>3, Zenon
  <2>2. CASE p # n + 2
    <3>1. p \in 2..n+1
      BY <1>1, <1>5, <2>2
    <3>2. QED
      BY <1>3, <1>5, <3>1, Zenon
  <2>3. QED
    BY <2>1, <2>2
<1>6. p # n + 4
  BY <1>1
<1>7. QED
  BY <1>2, <1>4, <1>5, <1>6, Zenon DEF Enclosed, n

LEMMA PromptStep ==
  ASSUME NEW s \in Seq(Byte), NEW t \in Seq(Plain) \ {<<>>}, IsText(s, t),
         NEW p \in Nat, p < Len(s), NEW st, NEW b, PromptAt(p, st, b, t)
  PROVE  Ahead(s, p, /\ PromptAt(p + 2, To("init", st, "T_ESEQ"), b, t)
                     /\ Does("init", st, "T_ESEQ") = "act_nop",
                     /\ PromptAt(p + 1, To("init", st, "T_REST"), Append(b, s[p + 1]), t)
                     /\ Does("init", st, "T_REST") = "act_recps")
<1>1. EseqAt(s, 0) /\ TextAt(s, 2, t) /\ EseqAt(s, 2 + Len(t)) /\ p < Len(t) + 4
  BY Zenon DEF IsText
<1>2. LET At(q, next, b2) == PromptAt(q, next, b2, t)
      IN  \/ st = "S_LAS" /\ s[p + 1] = ESC /\ s[p + 2] = "H" /\ At(p + 2, "S_CM3", b)
          \/ st = "S_PS1" /\ s[p + 1] = ESC /\ s[p + 2] = "H" /\ At(p + 2, "S_CM4", b)
          \/ /\ st \in {"S_CM3", "S_PS1"} /\ s[p + 1] # ESC
             /\ At(p + 1, "S_PS1", Append(b, s[p + 1]))
  BY <1>1, EnclosedStep, Zenon DEF PromptAt
<1>3. QED
  BY <1>2, InitTable, Zenon DEF Ahead

\* What the actions on the way leave in the buffers.
LEMMA ActFields ==
  ASSUME NEW c \in Byte, NEW h \in Hp
  PROVE  /\ \A f : Act(f, "act_nop", c, h) = h
         /\ \A f : Act(f, "act_ak", c, h).ips1 = h.ips1
         /\ \A f : Act(f, "act_report", c, h).ips1 = h.ips1
         /\ Act("init", "act_recps", c, h).ips1 = Append(h.ips1, c)
         /\ Act("cmdout", "act_recps", c, h).ps1 = Append(h.ps1, c)
         /\ Act("cmdout", "act_recps", c, h).out = h.out
         /\ Act("cmdout", "act_rec", c, h).out = Append(h.out, c)
         /\ Act("cmdout", "act_rec", c, h).ps1 = h.ps1
         /\ Act("cmdout", "act_noout", c, h).out = <<>>
         /\ Act("cmdout", "act_noout", c, h).ps1 = h.out
BY DEF Act, act_ak, act_report, act_recps, act_rec, act_noout, Hp

LEMMA RecordedNone ==
  ASSUME NEW t
  PROVE  Recorded(<<>>, t, 0)
<1>1. <<>> \in Seq(Byte) /\ Len(<<>>) = 0 /\ \A j : j \notin 1..0
  OBVIOUS
<1>2. QED
  BY <1>1, Zenon DEF Recorded

\* The first text of an answer goes into the output buffer.
LEMMA FirstStep ==
  ASSUME NEW s \in Seq(Byte), NEW t \in Seq(Plain) \ {<<>>},
         EseqAt(s, 0), TextAt(s, 2, t), EseqAt(s, 2 + Len(t)),
         NEW p \in Nat, p < Len(t) + 4, s[p + 1] \in Byte,
         NEW st, NEW h \in Hp, FirstAt(p, st, h, t)
  PROVE  Ahead(s, p, /\ FirstAt(p + 2, To("cmdout", st, "T_ESEQ"), h, t)
                     /\ Does("cmdout", st, "T_ESEQ") = "act_nop",
                     FirstAt(p + 1, To("cmdout", st, "T_REST"),
                             Act("cmdout", Does("cmdout", st, "T_REST"), s[p + 1], h), t))
<1>1. h.ps1 = <<>> /\ Enclosed(p, st, h.out, t, "S_STA", "S_CM1", "S_OUT", "S_CM2")
  BY Zenon DEF FirstAt
<1>2. LET At(q, next, b2) == Enclosed(q, next, b2, t, "S_STA", "S_CM1", "S_OUT", "S_CM2")
      IN  \/ st = "S_STA" /\ s[p + 1] = ESC /\ s[p + 2] = "H" /\ At(p + 2, "S_CM1", h.out)
          \/ st = "S_OUT" /\ s[p + 1] = ESC /\ s[p + 2] = "H" /\ At(p + 2, "S_CM2", h.out)
          \/ /\ st \in {"S_CM1", "S_OUT"} /\ s[p + 1] # ESC
             /\ At(p + 1, "S_OUT", Append(h.out, s[p + 1]))
  BY <1>1, EnclosedStep, Zenon
<1>3. /\ Act("cmdout", "act_rec", s[p + 1], h).out = Append(h.out, s[p + 1])
      /\ Act("cmdout", "act_rec", s[p + 1], h).ps1 = h.ps1
  BY ActFields
<1>4. QED
  BY <1>1, <1>2, <1>3, CmdoutTable, Zenon DEF Ahead, FirstAt

\* The second one, the prompt, goes into the prompt buffer.
LEMMA SecondStep ==
  ASSUME NEW s \in Seq(Byte), NEW t \in Seq(Plain) \ {<<>>}, NEW u \in Seq(Plain) \ {<<>>},
         IsOutput(s, t, u),
         NEW p \in Nat, p < Len(s), s[p + 1] \in Byte, NEW st, NEW h \in Hp,
         \/ p = Len(t) + 4 /\ FirstAt(p, st, h, t)
         \/ SecondAt(p, st, h, t, u)
  PROVE  Ahead(s, p, /\ SecondAt(p + 2, To("cmdout", st, "T_ESEQ"), h, t, u)
                     /\ Does("cmdout", st, "T_ESEQ") = "act_nop",
                     SecondAt(p + 1, To("cmdout", st, "T_REST"),
                              Act("cmdout", Does("cmdout", st, "T_REST"), s[p + 1], h), t, u))
<1> DEFINE m == Len(t)
           n == Len(u)
           c == s[p + 1]
           g == Act("cmdout", "act_recps", c, h)
<1>1. m \in Nat /\ n \in Nat /\ m > 0 /\ n > 0 /\ Len(s) = m + n + 6
  BY DEF IsOutput
<1>2. TextAt(s, 4 + m, u) /\ EseqAt(s, 4 + m + n)
  BY Zenon DEF IsOutput
<1>3. g.ps1 = Append(h.ps1, c) /\ g.out = h.out
  BY ActFields
<1>4. ASSUME p \in m+4..m+n+3, st \in {"S_CM2", "S_PS1"}, Recorded(h.out, t, m),
             Recorded(h.ps1, u, p - m - 4)
      PROVE  c # ESC /\ SecondAt(p + 1, "S_PS1", g, t, u)
  <2> DEFINE i == 4 + m
             j == p - i
  <2>1. i \in Nat /\ i <= p /\ p < i + n /\ j = p - m - 4
    BY <1>1, <1>4
  <2>2. c = u[j + 1] /\ c # ESC /\ j \in Nat /\ j < n
    <3> HIDE DEF i
    <3>1. TextAt(s, i, u)
      BY <1>2 DEF i
    <3>2. QED
      BY <2>1, <3>1, TextByte
  <2>3. Recorded(Append(h.ps1, u[j + 1]), u, j + 1)
    <3>1. Recorded(h.ps1, u, j)
      BY <1>4, <2>1, Zenon
    <3> HIDE DEF j
    <3>2. QED
      BY <2>2, <3>1, RecordNext
  <2>4. p + 1 \in m+5..m+n+4 /\ j + 1 = (p + 1) - m - 4
    BY <1>1, <1>4
  <2>5. Recorded(g.ps1, u, (p + 1) - m - 4)
    <3> HIDE DEF j, c, g
    <3>1. QED
      BY <1>3, <2>2, <2>3, <2>4, Zenon
  <2>6. Recorded(g.out, t, m)
    BY <1>3, <1>4, Zenon
  <2> DEFINE q == p + 1
  <2>7. q \in m+5..m+n+4 /\ Recorded(g.ps1, u, q - m - 4)
    BY <2>4, <2>5, Zenon
  <2> HIDE DEF q, g, c
  <2>8. SecondAt(q, "S_PS1", g, t, u)
    BY <2>6, <2>7, Zenon DEF SecondAt
  <2>9. QED
    BY <2>2, <2>8, Zenon DEF q
<1>5. CASE p = m + 4 /\ FirstAt(p, st, h, t)
  <2>1. h.ps1 = <<>> /\ st = "S_CM2" /\ Recorded(h.out, t, m)
    <3>1. p # 0 /\ p # 2 /\ p \notin 3..m+2
      BY <1>1, <1>5
    <3>2. QED
      BY <1>5, <3>1, Zenon DEF FirstAt, Enclosed
  <2>2. p \in m+4..m+n+3 /\ p - m - 4 = 0
    BY <1>1, <1>5
  <2>3. Recorded(h.ps1, u, p - m - 4)
    BY <2>1, <2>2, RecordedNone, Zenon
  <2>4. c # ESC /\ SecondAt(p + 1, "S_PS1", g, t, u)
    BY <1>4, <2>1, <2>2, <2>3, Zenon
  <2>5. QED
    BY <2>1, <2>4, CmdoutTable, Zenon DEF Ahead
<1>6. CASE p \in m+5..m+n+4 /\ st = "S_PS1" /\ Recorded(h.ps1, u, p - m - 4) /\ Recorded(h.out, t, m)
  <2>1. CASE p = m + n + 4
    <3>1. p - m - 4 = n /\ p + 2 = m + n + 6 /\ 4 + m + n = p
      BY <1>1, <2>1
    <3>2. s[p + 1] = ESC /\ s[p + 2] = "H"
      BY <1>2, <3>1, Zenon DEF EseqAt
    <3>3. SecondAt(p + 2, "S_CM3", h, t, u)
      BY <1>6, <3>1, Zenon DEF SecondAt
    <3>4. QED
      BY <1>6, <3>2, <3>3, CmdoutTable, Zenon DEF Ahead
  <2>2. CASE p # m + n + 4
    <3>1. p \in m+4..m+n+3
      <4>1. p \in m+5..m+n+4
        BY <1>6
      <4> HIDE DEF m, n, c, g
      <4>2. QED
        BY <1>1, <2>2, <4>1
    <3>2. c # ESC /\ SecondAt(p + 1, "S_PS1", g, t, u)
      BY <1>4, <1>6, <3>1, Zenon
    <3>3. QED
      BY <1>6, <3>2, CmdoutTable, Zenon DEF Ahead
  <2>3. QED
    BY <2>1, <2>2
<1>7. p # m + n + 6
  BY <1>1
<1>8. QED
  BY <1>5, <1>6, <1>7, Zenon DEF SecondAt

\* A prompt behind no output is recorded as output and moved at the end.
LEMMA ReplyStep ==
  ASSUME NEW s \in Seq(Byte), NEW r \in [out : Seq(Plain), ps1 : Seq(Plain) \ {<<>>}],
         IsReply(s, r),
         NEW p \in Nat, p < Len(s), s[p + 1] \in Byte, NEW st, NEW h \in Hp,
         ReplyAt(p, st, h, r)
  PROVE  Ahead(s, p, /\ ReplyAt(p + 2, To("cmdout", st, "T_ESEQ"), h, r)
                     /\ Does("cmdout", st, "T_ESEQ") = "act_nop",
                     ReplyAt(p + 1, To("cmdout", st, "T_REST"),
                             Act("cmdout", Does("cmdout", st, "T_REST"), s[p + 1], h), r))
<1> DEFINE t == First(r)
<1>1. r.out \in Seq(Plain) /\ r.ps1 \in Seq(Plain) \ {<<>>}
  OBVIOUS
<1>2. t \in Seq(Plain) \ {<<>>}
  BY <1>1 DEF First
<1>3. EseqAt(s, 0) /\ TextAt(s, 2, t) /\ EseqAt(s, 2 + Len(t))
  BY Zenon DEF First, IsReply, IsText, IsOutput
<1>4. CASE FirstAt(p, st, h, t) /\ p < Len(t) + 4
  <2> HIDE DEF t
  <2>1. Ahead(s, p, /\ FirstAt(p + 2, To("cmdout", st, "T_ESEQ"), h, t)
                    /\ Does("cmdout", st, "T_ESEQ") = "act_nop",
                    FirstAt(p + 1, To("cmdout", st, "T_REST"),
                            Act("cmdout", Does("cmdout", st, "T_REST"), s[p + 1], h), t))
    BY <1>2, <1>3, <1>4, FirstStep, Zenon
  <2>2. QED
    BY <2>1, Zenon DEF Ahead, ReplyAt, t
<1>5. CASE r.out # <<>> /\ ((p = Len(r.out) + 4 /\ FirstAt(p, st, h, r.out)) \/ SecondAt(p, st, h, r.out, r.ps1))
  <2>1. IsOutput(s, r.out, r.ps1) /\ r.out \in Seq(Plain) \ {<<>>}
    BY <1>1, <1>5, Zenon DEF IsReply
  <2>2. Ahead(s, p, /\ SecondAt(p + 2, To("cmdout", st, "T_ESEQ"), h, r.out, r.ps1)
                    /\ Does("cmdout", st, "T_ESEQ") = "act_nop",
                    SecondAt(p + 1, To("cmdout", st, "T_REST"),
                             Act("cmdout", Does("cmdout", st, "T_REST"), s[p + 1], h), r.out, r.ps1))
    BY <1>1, <1>5, <2>1, SecondStep, Zenon
  <2>3. QED
    BY <1>5, <2>2, Zenon DEF Ahead, ReplyAt
<1>6. CASE FirstAt(p, st, h, t) /\ ~(p < Len(t) + 4)
  <2>1. p = Len(t) + 4
    <3>1. Len(t) \in Nat
      BY <1>2
    <3> DEFINE n == Len(t)
    <3> HIDE DEF t
    <3>2. p = 0 \/ p = 2 \/ p \in 3..n+2 \/ p = n + 4
      BY <1>6, Zenon DEF FirstAt, Enclosed
    <3> HIDE DEF n
    <3>3. n \in Nat /\ ~(p < n + 4)
      BY <1>6, <3>1 DEF n
    <3>4. p = n + 4
      BY <3>2, <3>3
    <3>5. QED
      BY <3>4 DEF n
  <2>2. r.out # <<>>
    <3>1. ASSUME r.out = <<>> PROVE FALSE
      <4>1. Len(s) = Len(t) + 4
        BY <3>1, Zenon DEF IsReply, IsText, First
      <4>2. QED
        BY <2>1, <4>1
    <3>2. QED
      BY <3>1
  <2>3. t = r.out
    BY <2>2, Zenon DEF First
  <2>4. QED
    BY <1>5, <1>6, <2>1, <2>2, <2>3, Zenon
<1>7. QED
  BY <1>4, <1>5, <1>6, Zenon DEF ReplyAt

-----------------------------------------------------------------------------
(* The machine takes one token *)

\* Whatever the switch is saying, the next token takes the machine to its place
\* behind it.
LEMMA PlaceStep ==
  ASSUME ~Asking, resp \in Seq(Byte), NEW f, NEW st, NEW h \in Hp,
         NEW p \in Nat, p < Len(resp), Place(f, p, st, h)
  PROVE  LET after(t) == Act(f, Does(f, st, t), resp[p + 1], h)
         IN  Ahead(resp, p, Place(f, p + 2, To(f, st, "T_ESEQ"), after("T_ESEQ")),
                            Place(f, p + 1, To(f, st, "T_REST"), after("T_REST")))
<1> DEFINE c == resp[p + 1]
           g(t) == Act(f, Does(f, st, t), c, h)
<1>1. c \in Byte
  <2>1. p + 1 \in 1..Len(resp)
    <3> DEFINE n == Len(resp)
    <3>1. n \in Nat /\ p < n
      OBVIOUS
    <3> HIDE DEF n
    <3>2. QED
      BY <3>1 DEF n
  <2>2. QED
    BY <2>1
<1>2. /\ \A e : Act(e, "act_nop", c, h) = h
      /\ \A e : Act(e, "act_ak", c, h).ips1 = h.ips1
      /\ \A e : Act(e, "act_report", c, h).ips1 = h.ips1
      /\ Act("init", "act_recps", c, h).ips1 = Append(h.ips1, c)
  <2> HIDE DEF c
  <2>1. QED
    BY <1>1, ActFields
<1>2a. \A t : Does(f, st, t) \in Quiet => g(t).ips1 = h.ips1
  <2> HIDE DEF c
  <2>1. QED
    BY <1>2 DEF Quiet
<1>3. CASE Greeted(f, p, st, h)
  <2>1. f = "init" /\ sw = "key" /\ got = 0 /\ IsGreeting(resp) /\ GreetingAt(p, st) /\ h.ips1 = <<>>
    BY <1>3, Zenon DEF Greeted
  <2>2. Ahead(resp, p, /\ GreetingAt(p + 2, To("init", st, "T_ESEQ"))
                       /\ Does("init", st, "T_ESEQ") \in Quiet,
                       /\ GreetingAt(p + 1, To("init", st, "T_REST"))
                       /\ Does("init", st, "T_REST") \in Quiet)
    BY <2>1, GreetingStep, Zenon
  <2> DEFINE e == "T_ESEQ"
             r == "T_REST"
  <2> HIDE DEF g, c, e, r
  <2>3. Ahead(resp, p, /\ GreetingAt(p + 2, To(f, st, e))
                       /\ g(e).ips1 = h.ips1,
                       /\ GreetingAt(p + 1, To(f, st, r))
                       /\ g(r).ips1 = h.ips1)
    <3>1. Ahead(resp, p, /\ GreetingAt(p + 2, To(f, st, e))
                         /\ Does(f, st, e) \in Quiet,
                         /\ GreetingAt(p + 1, To(f, st, r))
                         /\ Does(f, st, r) \in Quiet)
      BY <2>1, <2>2 DEF e, r
    <3>2. QED
      BY <1>2a, <3>1, Zenon DEF Ahead
  <2>4. Ahead(resp, p, Greeted(f, p + 2, To(f, st, e), g(e)), Greeted(f, p + 1, To(f, st, r), g(r)))
    BY <2>1, <2>3, Zenon DEF Ahead, Greeted
  <2>5. QED
    BY <2>4, Zenon DEF Ahead, Place, g, c, e, r
<1>4. CASE Requested(f, p, st, h)
  <2>1. f = "init" /\ sw = "report" /\ got = 1 /\ IsRequest(resp) /\ RequestAt(p, st) /\ h.ips1 = <<>>
    BY <1>4, Zenon DEF Requested
  <2>2. Ahead(resp, p, /\ RequestAt(p + 2, To("init", st, "T_ESEQ"))
                       /\ Does("init", st, "T_ESEQ") \in Quiet,
                       /\ RequestAt(p + 1, To("init", st, "T_REST"))
                       /\ Does("init", st, "T_REST") \in Quiet)
    BY <2>1, RequestStep, Zenon
  <2> DEFINE e == "T_ESEQ"
             r == "T_REST"
  <2> HIDE DEF g, c, e, r
  <2>3. Ahead(resp, p, /\ RequestAt(p + 2, To(f, st, e))
                       /\ g(e).ips1 = h.ips1,
                       /\ RequestAt(p + 1, To(f, st, r))
                       /\ g(r).ips1 = h.ips1)
    <3>1. Ahead(resp, p, /\ RequestAt(p + 2, To(f, st, e))
                         /\ Does(f, st, e) \in Quiet,
                         /\ RequestAt(p + 1, To(f, st, r))
                         /\ Does(f, st, r) \in Quiet)
      BY <2>1, <2>2 DEF e, r
    <3>2. QED
      BY <1>2a, <3>1, Zenon DEF Ahead
  <2>4. Ahead(resp, p, Requested(f, p + 2, To(f, st, e), g(e)), Requested(f, p + 1, To(f, st, r), g(r)))
    BY <2>1, <2>3, Zenon DEF Ahead, Requested
  <2>5. QED
    BY <2>4, Zenon DEF Ahead, Place, g, c, e, r
<1>5. CASE Prompted(f, p, st, h)
  <2>1. f = "init" /\ IsText(resp, LoginPs1) /\ PromptAt(p, st, h.ips1, LoginPs1)
    BY <1>5, Zenon DEF Prompted
  <2>2. Ahead(resp, p, /\ PromptAt(p + 2, To("init", st, "T_ESEQ"), h.ips1, LoginPs1)
                       /\ Does("init", st, "T_ESEQ") = "act_nop",
                       /\ PromptAt(p + 1, To("init", st, "T_REST"), Append(h.ips1, c), LoginPs1)
                       /\ Does("init", st, "T_REST") = "act_recps")
    BY <2>1, DialogueAssumption, PromptStep, Zenon
  <2> HIDE DEF c
  <2>3. QED
    BY <1>2, <1>5, <2>1, <2>2, Zenon DEF Ahead, Place, Prompted, c
<1>6. CASE Echoed(f, p, st)
  <2>1. f = "inchar" /\ IsEcho(resp) /\ EchoAt(p, st)
    BY <1>6, Zenon DEF Echoed
  <2>2. Ahead(resp, p, EchoAt(p + 2, To("inchar", st, "T_ESEQ")),
                       EchoAt(p + 1, To("inchar", st, "T_REST")))
    BY <2>1, EchoStep, Zenon
  <2>3. QED
    BY <1>6, <2>1, <2>2, Zenon DEF Ahead, Place, Echoed
<1>7. CASE Replied(f, p, st, h)
  <2>1. f = "cmdout" /\ reply \in Replies /\ IsReply(resp, reply) /\ ReplyAt(p, st, h, reply)
    BY <1>7, Zenon DEF Replied
  <2>2. reply \in [out : Seq(Plain), ps1 : Seq(Plain) \ {<<>>}]
    BY <2>1, DialogueAssumption, Zenon
  <2>3. Ahead(resp, p, /\ ReplyAt(p + 2, To("cmdout", st, "T_ESEQ"), h, reply)
                       /\ Does("cmdout", st, "T_ESEQ") = "act_nop",
                       ReplyAt(p + 1, To("cmdout", st, "T_REST"),
                               Act("cmdout", Does("cmdout", st, "T_REST"), c, h), reply))
    BY <1>1, <2>1, <2>2, ReplyStep, Zenon
  <2> HIDE DEF c
  <2>4. QED
    BY <1>2, <1>7, <2>1, <2>3, Zenon DEF Ahead, Place, Replied, c
<1>8. ~Typed(f, st, h)
  BY Zenon DEF Typed
<1>9. QED
  BY <1>3, <1>4, <1>5, <1>6, <1>7, <1>8, Zenon DEF Place

\* The machine is never in the error state.
LEMMA PlaceIsNoError ==
  ASSUME NEW f, NEW p, NEW st, NEW h, Place(f, p, st, h)
  PROVE  st # "S_ERR"
<1>1. Greeted(f, p, st, h) => st # "S_ERR"
  BY DEF Greeted, GreetingAt
<1>2. Requested(f, p, st, h) => st # "S_ERR"
  BY DEF Requested, RequestAt
<1>3. Prompted(f, p, st, h) => st # "S_ERR"
  BY DEF Prompted, PromptAt, Enclosed
<1>4. Typed(f, st, h) => st # "S_ERR"
  BY DEF Typed
<1>5. Echoed(f, p, st) => st # "S_ERR"
  BY DEF Echoed, EchoAt
<1>6. Replied(f, p, st, h) => st # "S_ERR"
  BY DEF Replied, ReplyAt, FirstAt, SecondAt, Enclosed
<1>7. QED
  BY <1>1, <1>2, <1>3, <1>4, <1>5, <1>6, Zenon DEF Place

-----------------------------------------------------------------------------
(* The bytes on their way to the machine *)

\* A part of a sequence.
LEMMA Part ==
  ASSUME NEW s \in Seq(Byte), NEW m \in Nat, NEW n \in Nat, m <= n, n <= Len(s)
  PROVE  LET r == SubSeq(s, m + 1, n)
         IN  /\ r \in Seq(Byte) /\ Len(r) = n - m
             /\ \A j \in 1..n-m : r[j] = s[m + j]
<1> DEFINE r == SubSeq(s, m + 1, n)
           l == Len(s)
<1>1. l \in Nat /\ n <= l
  OBVIOUS
<1>2. m + 1 \in Int /\ n \in Int
  OBVIOUS
<1>3. \A i \in m+1..n : s[i] \in Byte
  <2>1. \A i \in m+1..n : i \in 1..l
    <3> HIDE DEF l
    <3>1. QED
      BY <1>1
  <2>2. QED
    BY <2>1, ElementOfSeq
<1>4. /\ r \in Seq(Byte) /\ Len(r) = IF m + 1 <= n THEN n - (m + 1) + 1 ELSE 0
      /\ \A i \in 1..n-(m+1)+1 : r[i] = s[(m+1)+i-1]
  BY <1>2, <1>3, SubSeqProperties
<1> HIDE DEF r, l
<1>5. (IF m + 1 <= n THEN n - (m + 1) + 1 ELSE 0) = n - m
  OBVIOUS
<1>6. \A j \in 1..n-m : j \in 1..n-(m+1)+1 /\ (m+1)+j-1 = m + j
  OBVIOUS
<1>7. \A j \in 1..n-m : r[j] = s[m + j]
  BY <1>4, <1>6, Zenon
<1>8. Len(r) = n - m
  BY <1>4, <1>5
<1>9. QED
  BY <1>4, <1>7, <1>8, Zenon DEF r

\* Bytes are taken off the front,
LEMMA BehindEaten ==
  ASSUME NEW s \in Seq(Byte), NEW p \in Nat, NEW r \in Seq(Byte), NEW f \in Seq(Byte),
         Behind(s, p, r, f), NEW k \in 0..Len(r), NEW q \in Seq(Byte),
         Len(q) = Len(r) - k, \A j \in 1..Len(q) : q[j] = r[k + j]
  PROVE  Behind(s, p + k, q, f)
<1> DEFINE n == Len(r)
           l == Len(f)
<1>1. n \in Nat /\ k \in 0..n /\ l \in Nat
  OBVIOUS
<1>2. /\ \A j \in 1..n : r[j] = s[p + j]
      /\ \A j \in 1..l : f[j] = s[p + n + j]
  BY Zenon DEF Behind
<1>3. Len(q) = n - k /\ \A j \in 1..n-k : q[j] = r[k + j]
  BY Zenon
<1> HIDE DEF n, l
<1>4. \A j \in 1..n-k : k + j \in 1..n /\ p + (k + j) = p + k + j
  BY <1>1
<1>5. ASSUME NEW j \in 1..n-k
      PROVE  q[j] = s[p + k + j]
  <2>1. k + j \in 1..n /\ p + (k + j) = p + k + j
    BY <1>4, Zenon
  <2>2. q[j] = r[k + j]
    BY <1>3, Zenon
  <2>3. r[k + j] = s[p + (k + j)]
    BY <1>2, <2>1, Zenon
  <2>4. QED
    BY <2>1, <2>2, <2>3, Zenon
<1>6. p + k + (n - k) = p + n
  BY <1>1
<1>7. \A j \in 1..l : f[j] = s[p + k + (n - k) + j]
  BY <1>2, <1>6, Zenon
<1>8. QED
  BY <1>3, <1>5, <1>7, Zenon DEF Behind, l

\* moved from the pipe into the buffer,
LEMMA BehindRead ==
  ASSUME NEW s \in Seq(Byte), NEW p \in Nat, NEW r \in Seq(Byte), NEW f \in Seq(Byte),
         Behind(s, p, r, f), NEW m \in 0..Len(f)
  PROVE  LET q == r \o SubSeq(f, 1, m)
             g == SubSeq(f, m + 1, Len(f))
         IN  Behind(s, p, q, g) /\ Len(q) = Len(r) + m /\ Len(g) = Len(f) - m
<1> DEFINE n == Len(r)
           l == Len(f)
           h == SubSeq(f, 1, m)
           q == r \o h
           g == SubSeq(f, m + 1, l)
<1>1. n \in Nat /\ l \in Nat /\ m \in Nat /\ m <= l
  OBVIOUS
<1>2. /\ \A j \in 1..n : r[j] = s[p + j]
      /\ \A j \in 1..l : f[j] = s[p + n + j]
  BY Zenon DEF Behind
<1>3. h \in Seq(Byte) /\ Len(h) = m /\ \A j \in 1..m : h[j] = f[j]
  <2>1. SubSeq(f, 0 + 1, m) \in Seq(Byte) /\ Len(SubSeq(f, 0 + 1, m)) = m - 0
          /\ \A j \in 1..m-0 : SubSeq(f, 0 + 1, m)[j] = f[0 + j]
    <3>1. 0 \in Nat /\ 0 <= m /\ m \in Nat /\ m <= Len(f)
      BY <1>1
    <3>2. QED
      BY <3>1, Part
  <2>2. 0 + 1 = 1 /\ m - 0 = m /\ \A j \in 1..m : 0 + j = j
    BY <1>1
  <2>3. QED
    BY <2>1, <2>2, Zenon
<1>4. g \in Seq(Byte) /\ Len(g) = l - m /\ \A j \in 1..l-m : g[j] = f[m + j]
  <2>1. l \in Nat /\ l <= Len(f)
    BY <1>1
  <2>2. QED
    BY <1>1, <2>1, Part
<1>5. q \in Seq(Byte) /\ Len(q) = n + m
        /\ \A j \in 1..n+m : q[j] = IF j <= n THEN r[j] ELSE h[j - n]
  <2> HIDE DEF h
  <2>1. q \in Seq(Byte) /\ Len(q) = Len(r) + Len(h)
          /\ \A j \in 1..Len(r)+Len(h) : q[j] = IF j <= Len(r) THEN r[j] ELSE h[j - Len(r)]
    BY <1>3, ConcatProperties
  <2>2. QED
    BY <1>3, <2>1, Zenon
<1> HIDE DEF n, l, h, q, g
<1>6. \A j \in 1..n+m : q[j] = s[p + j]
  <2> SUFFICES ASSUME NEW j \in 1..n+m PROVE q[j] = s[p + j]
    OBVIOUS
  <2>1. CASE j <= n
    <3>1. j \in 1..n
      BY <1>1, <2>1
    <3>2. QED
      BY <1>2, <1>5, <2>1, <3>1, Zenon
  <2>2. CASE ~(j <= n)
    <3>1. j - n \in 1..m /\ j - n \in 1..l /\ p + n + (j - n) = p + j
      BY <1>1, <2>2
    <3>2. q[j] = h[j - n]
      BY <1>5, <2>2, Zenon
    <3>3. h[j - n] = f[j - n]
      BY <1>3, <3>1, Zenon
    <3>4. f[j - n] = s[p + n + (j - n)]
      BY <1>2, <3>1, Zenon
    <3>5. QED
      BY <3>1, <3>2, <3>3, <3>4, Zenon
  <2>3. QED
    BY <2>1, <2>2
<1>7. \A j \in 1..l-m : g[j] = s[p + (n + m) + j]
  <2>1. \A j \in 1..l-m : m + j \in 1..l /\ p + n + (m + j) = p + (n + m) + j
    BY <1>1
  <2>2. QED
    BY <1>2, <1>4, <2>1, Zenon
<1>8. Behind(s, p, q, g)
  BY <1>4, <1>5, <1>6, <1>7, Zenon DEF Behind
<1>9. QED
  BY <1>4, <1>5, <1>8, Zenon DEF n, l, h, q, g

\* The first k bytes of g are those of s behind i.
Copies(g, s, i, k) == \A j \in 1..k : g[j] = s[i + j]

\* g is the first l bytes of f and k of h.
Glued(g, f, l, h, k) == \A j \in 1..l+k : g[j] = IF j <= l THEN f[j] ELSE h[j - l]

LEMMA CopiesGlued ==
  ASSUME NEW i \in Nat, NEW l \in Nat, NEW k \in Nat, NEW d, d = i + l,
         NEW s, NEW f, NEW h, NEW g,
         Copies(f, s, i, l), Copies(h, s, d, k), Glued(g, f, l, h, k)
  PROVE  Copies(g, s, i, l + k)
<1> SUFFICES ASSUME NEW j \in 1..l+k PROVE g[j] = s[i + j]
  BY Zenon DEF Copies
<1>1. CASE j <= l
  <2>1. j \in 1..l
    BY <1>1
  <2>2. QED
    BY <1>1, <2>1, Zenon DEF Copies, Glued
<1>2. CASE ~(j <= l)
  <2>1. j - l \in 1..k /\ d + (j - l) = i + j
    BY <1>2
  <2>2. QED
    BY <1>2, <2>1, Zenon DEF Copies, Glued
<1>3. QED
  BY <1>1, <1>2

\* And when more is sent by the switch.
LEMMA BehindSent ==
  ASSUME NEW s \in Seq(Byte), NEW p \in Nat, NEW r \in Seq(Byte), NEW f \in Seq(Byte),
         Behind(s, p, r, f), NEW d \in Nat, d = p + Len(r) + Len(f),
         NEW m \in d..Len(s)
  PROVE  LET g == f \o SubSeq(s, d + 1, m)
         IN  Behind(s, p, r, g) /\ Len(g) = Len(f) + (m - d)
<1> DEFINE n == Len(r)
           l == Len(f)
           h == SubSeq(s, d + 1, m)
           g == f \o h
<1>1. n \in Nat /\ l \in Nat /\ m \in Nat /\ d <= m /\ d = p + n + l
  <2> DEFINE z == Len(s)
  <2>1. m \in d..z /\ z \in Nat /\ n \in Nat /\ l \in Nat /\ d = p + n + l
    OBVIOUS
  <2> HIDE DEF z, n, l
  <2>2. QED
    BY <2>1
<1>2. /\ \A j \in 1..n : r[j] = s[p + j]
      /\ \A j \in 1..l : f[j] = s[p + n + j]
  BY Zenon DEF Behind
<1>3. h \in Seq(Byte) /\ Len(h) = m - d /\ \A j \in 1..m-d : h[j] = s[d + j]
  <2>1. m <= Len(s)
    <3> DEFINE z == Len(s)
    <3>1. m \in d..z /\ z \in Nat
      OBVIOUS
    <3> HIDE DEF z, n, l
    <3>2. m <= z
      BY <3>1
    <3>3. QED
      BY <3>2 DEF z
  <2>2. QED
    BY <1>1, <2>1, Part
<1>4. g \in Seq(Byte) /\ Len(g) = l + (m - d)
        /\ \A j \in 1..l+(m-d) : g[j] = IF j <= l THEN f[j] ELSE h[j - l]
  <2> HIDE DEF h
  <2>1. g \in Seq(Byte) /\ Len(g) = Len(f) + Len(h)
          /\ \A j \in 1..Len(f)+Len(h) : g[j] = IF j <= Len(f) THEN f[j] ELSE h[j - Len(f)]
    BY <1>3, ConcatProperties
  <2>2. QED
    BY <1>3, <2>1, Zenon
<1> HIDE DEF n, l, h, g
<1>5. \A j \in 1..l+(m-d) : g[j] = s[p + n + j]
  <2> DEFINE i == p + n
             k == m - d
  <2>1. i \in Nat /\ k \in Nat /\ d = i + l
    BY <1>1
  <2>2. Copies(f, s, i, l) /\ Copies(h, s, d, k) /\ Glued(g, f, l, h, k)
    BY <1>2, <1>3, <1>4, Zenon DEF Copies, Glued
  <2> HIDE DEF i, k
  <2>3. l \in Nat
    BY <1>1
  <2>4. Copies(g, s, i, l + k)
    BY <2>1, <2>2, <2>3, CopiesGlued, Zenon
  <2>5. QED
    BY <2>4, Zenon DEF Copies, i, k
<1>6. Behind(s, p, r, g)
  BY <1>2, <1>4, <1>5, Zenon DEF Behind, n
<1>7. QED
  BY <1>4, <1>6, Zenon DEF l, h, g

-----------------------------------------------------------------------------
(* What the switch says *)

\* Something more is said behind s.
LEMMA Joined ==
  ASSUME NEW s \in Seq(Byte), NEW t \in Seq(Byte)
  PROVE  /\ s \o t \in Seq(Byte) /\ Len(s \o t) = Len(s) + Len(t)
         /\ TextAt(s \o t, 0, s) /\ TextAt(s \o t, Len(s), t)
<1> DEFINE a == s \o t
           m == Len(s)
           n == Len(t)
<1>1. m \in Nat /\ n \in Nat
  OBVIOUS
<1>2. a \in Seq(Byte) /\ Len(a) = m + n
        /\ \A i \in 1..m+n : a[i] = IF i <= m THEN s[i] ELSE t[i - m]
  BY ConcatProperties
<1> HIDE DEF a, m, n
<1>3. \A k \in 1..m : 0 + k \in 1..m+n /\ 0 + k <= m /\ 0 + k = k
  BY <1>1
<1>4. \A k \in 1..n : m + k \in 1..m+n /\ ~(m + k <= m) /\ (m + k) - m = k
  BY <1>1
<1>5. \A k \in 1..m : a[0 + k] = s[k]
  BY <1>2, <1>3, Zenon
<1>6. \A k \in 1..n : a[m + k] = t[k]
  BY <1>2, <1>4, Zenon
<1>7. QED
  BY <1>2, <1>5, <1>6, Zenon DEF TextAt, a, m, n

LEMMA Kept ==
  ASSUME NEW s \in Seq(Byte), NEW t \in Seq(Byte), NEW i \in Nat
  PROVE  /\ \A k \in 1..Len(s) : (s \o t)[k] = s[k]
         /\ i + 2 <= Len(s) /\ EseqAt(s, i) => EseqAt(s \o t, i)
         /\ \A u \in Seq(Byte) : i + Len(u) <= Len(s) /\ TextAt(s, i, u) => TextAt(s \o t, i, u)
<1> DEFINE a == s \o t
           m == Len(s)
<1>1. m \in Nat /\ TextAt(a, 0, s)
  BY Joined
<1>2. \A k \in 1..m : a[0 + k] = s[k]
  BY <1>1, Zenon DEF TextAt
<1> HIDE DEF a, m
<1>3. \A k \in 1..m : a[k] = s[k]
  <2>1. \A k \in 1..m : 0 + k = k
    BY <1>1
  <2>2. QED
    BY <1>2, <2>1, Zenon
<1>4. i + 2 <= m => i + 1 \in 1..m /\ i + 2 \in 1..m
  BY <1>1
<1>5. ASSUME i + 2 <= m, EseqAt(s, i) PROVE EseqAt(a, i)
  BY <1>3, <1>4, <1>5, Zenon DEF EseqAt
<1>6. ASSUME NEW u \in Seq(Byte), i + Len(u) <= m, TextAt(s, i, u) PROVE TextAt(a, i, u)
  <2> DEFINE n == Len(u)
  <2>1. n \in Nat /\ i + n <= m
    BY <1>6
  <2>2. \A k \in 1..n : s[i + k] = u[k]
    BY <1>6, Zenon DEF TextAt
  <2> HIDE DEF n
  <2>3. \A k \in 1..n : i + k \in 1..m
    BY <1>1, <2>1
  <2>4. \A k \in 1..n : a[i + k] = u[k]
    BY <1>3, <2>2, <2>3, Zenon
  <2>5. QED
    BY <2>4, Zenon DEF TextAt, n
<1>7. QED
  BY <1>3, <1>5, <1>6, Zenon DEF a, m

LEMMA EseqType == Eseq \in Seq(Byte) /\ Len(Eseq) = 2 /\ EseqAt(Eseq, 0)
BY DEF Eseq, EseqAt, Byte, CCHRS

LEMMA WordsType == Words \in Seq(Byte) /\ Len(Words) = 1 /\ Words[1] = " "
BY DEF Words, Byte

\* An escape sequence behind s.
LEMMA EseqBehind ==
  ASSUME NEW s \in Seq(Byte)
  PROVE  s \o Eseq \in Seq(Byte) /\ Len(s \o Eseq) = Len(s) + 2 /\ EseqAt(s \o Eseq, Len(s))
<1> DEFINE a == s \o Eseq
           n == Len(s)
<1>1. a \in Seq(Byte) /\ Len(a) = n + Len(Eseq) /\ TextAt(a, n, Eseq)
  BY EseqType, Joined
<1>2. Len(Eseq) = 2 /\ Eseq[0 + 1] = ESC /\ Eseq[0 + 2] = "H"
  BY EseqType, Zenon DEF EseqAt
<1>3. 0 + 1 = 1 /\ 0 + 2 = 2 /\ 1 \in 1..2 /\ 2 \in 1..2
  OBVIOUS
<1> HIDE DEF a, n
<1>4. \A k \in 1..2 : a[n + k] = Eseq[k]
  BY <1>1, <1>2 DEF TextAt
<1>5. a[n + 1] = ESC /\ a[n + 2] = "H"
  BY <1>2, <1>3, <1>4
<1>6. EseqAt(a, n)
  BY <1>5, Zenon DEF EseqAt
<1>7. QED
  BY <1>1, <1>2, <1>6 DEF a, n

\* Text between escape sequences; also the echo of a character.
LEMMA TextBytes ==
  ASSUME NEW t \in Seq(Byte)
  PROVE  Eseq \o t \o Eseq \in Seq(Byte) /\ IsText(Eseq \o t \o Eseq, t)
<1> DEFINE a == Eseq \o t
           s == a \o Eseq
           n == Len(t)
<1>1. a \in Seq(Byte) /\ Len(a) = 2 + n /\ n \in Nat /\ TextAt(a, 2, t)
  <2>1. a \in Seq(Byte) /\ Len(a) = Len(Eseq) + n /\ TextAt(a, Len(Eseq), t)
    BY EseqType, Joined
  <2>2. n \in Nat
    OBVIOUS
  <2> HIDE DEF a, n
  <2>3. QED
    BY <2>1, <2>2, EseqType, Zenon
<1>2. EseqAt(a, 0)
  <2>1. 0 \in Nat /\ 0 + 2 <= Len(Eseq)
    BY EseqType
  <2>2. QED
    BY <2>1, EseqType, Kept
<1> HIDE DEF a
<1>3. s \in Seq(Byte) /\ Len(s) = 2 + n + 2 /\ EseqAt(s, 2 + n)
  BY <1>1, EseqBehind
<1>4. EseqAt(s, 0) /\ TextAt(s, 2, t)
  <2>1. 0 + 2 <= Len(a) /\ 2 + n <= Len(a)
    <3> HIDE DEF n
    <3>1. QED
      BY <1>1
  <2>2. EseqAt(s, 0)
    BY <1>1, <1>2, <2>1, EseqType, Kept
  <2>3. TextAt(s, 2, t)
    BY <1>1, <2>1, EseqType, Kept
  <2>4. QED
    BY <2>2, <2>3, Zenon
<1>5. 2 + n + 2 = n + 4
  BY <1>1
<1> HIDE DEF s
<1>6. Len(s) = Len(t) + 4
  BY <1>3, <1>5, Zenon DEF n
<1>7. IsText(s, t)
  BY <1>3, <1>4, <1>6, Zenon DEF IsText, n
<1>8. QED
  BY <1>3, <1>7, Zenon DEF s, a

\* Output and a prompt.
LEMMA OutputBytes ==
  ASSUME NEW t \in Seq(Byte), NEW u \in Seq(Byte)
  PROVE  LET s == Eseq \o t \o Eseq \o u \o Eseq
         IN  s \in Seq(Byte) /\ IsOutput(s, t, u)
<1> DEFINE a == Eseq \o t \o Eseq
           b == a \o u
           s == b \o Eseq
           m == Len(t)
           n == Len(u)
<1>1. a \in Seq(Byte) /\ Len(a) = m + 4 /\ EseqAt(a, 0) /\ TextAt(a, 2, t) /\ EseqAt(a, 2 + m)
  BY TextBytes, Zenon DEF IsText
<1>2. m \in Nat /\ n \in Nat
  OBVIOUS
<1> HIDE DEF a
<1>3. b \in Seq(Byte) /\ Len(b) = m + 4 + n /\ TextAt(b, m + 4, u)
  BY <1>1, Joined
<1>4. EseqAt(b, 0) /\ TextAt(b, 2, t) /\ EseqAt(b, 2 + m)
  <2>1. 0 + 2 <= Len(a) /\ 2 + m <= Len(a) /\ 2 + m + 2 <= Len(a) /\ 2 + m \in Nat
    <3> HIDE DEF m
    <3>1. QED
      BY <1>1, <1>2
  <2>2. QED
    BY <1>1, <2>1, Kept
<1> HIDE DEF b
<1>5. s \in Seq(Byte) /\ Len(s) = m + 4 + n + 2 /\ EseqAt(s, m + 4 + n)
  BY <1>3, EseqBehind
<1>6. EseqAt(s, 0) /\ TextAt(s, 2, t) /\ EseqAt(s, 2 + m) /\ TextAt(s, m + 4, u)
  <2>1. /\ 0 + 2 <= Len(b) /\ 2 + m <= Len(b) /\ 2 + m + 2 <= Len(b) /\ m + 4 + n <= Len(b)
        /\ 2 + m \in Nat /\ m + 4 \in Nat
    <3> HIDE DEF m, n
    <3>1. QED
      BY <1>2, <1>3
  <2>2. EseqAt(s, 0) /\ EseqAt(s, 2 + m)
    BY <1>3, <1>4, <2>1, EseqType, Kept
  <2>3. TextAt(s, 2, t) /\ TextAt(s, m + 4, u)
    BY <1>3, <1>4, <2>1, EseqType, Kept
  <2>4. QED
    BY <2>2, <2>3
<1>7. m + 4 = 4 + m /\ m + 4 + n = 4 + m + n /\ m + 4 + n + 2 = m + n + 6
  <2> HIDE DEF m, n
  <2>1. QED
    BY <1>2
<1> HIDE DEF s
<1>8. IsOutput(s, t, u)
  BY <1>5, <1>6, <1>7, Zenon DEF IsOutput, m, n
<1>9. QED
  BY <1>5, <1>8, Zenon DEF s, b, a

\* The answer to a line.
LEMMA ReplyBytes ==
  ASSUME NEW r \in [out : Seq(Plain), ps1 : Seq(Plain) \ {<<>>}]
  PROVE  LET s == IF r.out = <<>> THEN Eseq \o r.ps1 \o Eseq
                  ELSE Eseq \o r.out \o Eseq \o r.ps1 \o Eseq
         IN  s \in Seq(Byte) /\ IsReply(s, r)
<1>1. r.out \in Seq(Byte) /\ r.ps1 \in Seq(Byte)
  <2>1. Plain \subseteq Byte
    BY DEF Plain
  <2>2. r.out \in Seq(Plain) /\ r.ps1 \in Seq(Plain)
    OBVIOUS
  <2>3. QED
    BY <2>1, <2>2, SeqMonotonic
<1>2. CASE r.out = <<>>
  BY <1>1, <1>2, TextBytes, Zenon DEF IsReply
<1>3. CASE r.out # <<>>
  BY <1>1, <1>3, OutputBytes, Zenon DEF IsReply
<1>4. QED
  BY <1>2, <1>3, Zenon

\* The echo of a character.
LEMMA EchoBytes ==
  ASSUME NEW c \in Plain, NEW s \in {Eseq \o <<c>> \o Eseq, Eseq \o <<c>> \o Eseq \o Eseq}
  PROVE  s \in Seq(Byte) /\ IsEcho(s)
<1> DEFINE t == <<c>>
           a == Eseq \o t \o Eseq
           b == a \o Eseq
<1>1. t \in Seq(Byte) /\ Len(t) = 1 /\ t[1] = c /\ c # ESC
  BY DEF Plain
<1> HIDE DEF t
<1>2. /\ a \in Seq(Byte) /\ Len(a) = 1 + 4 /\ EseqAt(a, 0) /\ EseqAt(a, 2 + 1)
      /\ \A k \in 1..1 : a[2 + k] = t[k]
  BY <1>1, TextBytes, Zenon DEF IsText, TextAt
<1> HIDE DEF a
<1>3. Len(a) = 5 /\ EseqAt(a, 3) /\ a[2 + 1] = c
  <2>1. 1 + 4 = 5 /\ 2 + 1 = 3 /\ 1 \in 1..1
    OBVIOUS
  <2>2. QED
    BY <1>1, <1>2, <2>1, Zenon
<1>4. a[3] # ESC
  BY <1>1, <1>3
<1>5. b \in Seq(Byte) /\ Len(b) = 7 /\ EseqAt(b, 5)
  <2>1. b \in Seq(Byte) /\ Len(b) = Len(a) + 2 /\ EseqAt(b, Len(a))
    BY <1>2, EseqBehind
  <2> HIDE DEF b
  <2>2. 5 + 2 = 7
    OBVIOUS
  <2>3. QED
    BY <1>3, <2>1, <2>2, Zenon
<1>6. EseqAt(b, 0) /\ EseqAt(b, 3) /\ b[3] = a[3]
  <2>1. 0 \in Nat /\ 0 + 2 <= Len(a) /\ 3 + 2 <= Len(a) /\ 3 \in 1..Len(a)
    BY <1>3
  <2>2. QED
    BY <1>2, <1>3, <2>1, EseqType, Kept
<1>7. b[3] # ESC
  <2> HIDE DEF b
  <2>1. QED
    BY <1>4, <1>6, Zenon
<1> HIDE DEF b
<1>8. 5 \in {5, 7} /\ 7 \in {5, 7} /\ 5 # 7
  OBVIOUS
<1>9. IsEcho(a)
  BY <1>2, <1>3, <1>4, <1>8, Zenon DEF IsEcho
<1>10. IsEcho(b)
  BY <1>5, <1>6, <1>7, <1>8, Zenon DEF IsEcho
<1>11. s = a \/ s = b
  BY DEF a, b, t
<1>12. QED
  BY <1>2, <1>5, <1>9, <1>10, <1>11, Zenon

\* The end of the licence, and the request for a report.
LEMMA RequestBytes == Eseq \o Words \in Seq(Byte) /\ IsRequest(Eseq \o Words)
<1> DEFINE s == Eseq \o Words
<1>1. s \in Seq(Byte) /\ Len(s) = 2 + 1 /\ TextAt(s, 2, Words)
  BY EseqType, WordsType, Joined
<1>2. EseqAt(s, 0)
  <2>1. 0 \in Nat /\ 0 + 2 <= Len(Eseq)
    BY EseqType
  <2>2. QED
    BY <2>1, EseqType, WordsType, Kept
<1> HIDE DEF s
<1>3. s[2 + 1] = " "
  <2>1. 1 \in 1..1
    OBVIOUS
  <2>2. QED
    BY <1>1, <2>1, WordsType, Zenon DEF TextAt
<1>4. 2 + 1 = 3
  OBVIOUS
<1>5. QED
  BY <1>1, <1>2, <1>3, <1>4, Zenon DEF IsRequest, s

LEMMA GreetingBytes ==
  LET s == Words \o Eseq \o Words \o Eseq IN s \in Seq(Byte) /\ IsGreeting(s)
<1> DEFINE a == Words \o Eseq
           b == a \o Words
           s == b \o Eseq
<1>1. a \in Seq(Byte) /\ Len(a) = 3 /\ EseqAt(a, 1)
  <2>1. a \in Seq(Byte) /\ Len(a) = Len(Words) + 2 /\ EseqAt(a, Len(Words))
    BY WordsType, EseqBehind
  <2> HIDE DEF a
  <2>2. 1 + 2 = 3
    OBVIOUS
  <2>3. QED
    BY <2>1, <2>2, WordsType, Zenon
<1>2. a[1] = " "
  <2>1. 0 \in Nat /\ 1 \in 1..Len(Words)
    <3>1. 0 \in Nat /\ 1 \in 1..1
      OBVIOUS
    <3>2. QED
      BY <3>1, WordsType, Zenon
  <2>2. a[1] = Words[1]
    BY <2>1, EseqType, WordsType, Kept
  <2> HIDE DEF a
  <2>3. QED
    BY <2>2, WordsType, Zenon
<1> HIDE DEF a
<1>3. b \in Seq(Byte) /\ Len(b) = 4 /\ TextAt(b, 3, Words)
  <2>1. b \in Seq(Byte) /\ Len(b) = Len(a) + Len(Words) /\ TextAt(b, Len(a), Words)
    BY <1>1, WordsType, Joined
  <2> HIDE DEF b
  <2>2. 3 + 1 = 4
    OBVIOUS
  <2>3. QED
    BY <1>1, <2>1, <2>2, WordsType, Zenon
<1>4. EseqAt(b, 1) /\ b[1] = " "
  <2>1. 0 \in Nat /\ 1 \in Nat /\ 1 + 2 <= Len(a) /\ 1 \in 1..Len(a)
    BY <1>1
  <2>2. EseqAt(b, 1)
    BY <1>1, <2>1, WordsType, Kept
  <2>3. b[1] = a[1]
    BY <1>1, <2>1, WordsType, Kept, ZenonT(30)
  <2> HIDE DEF b
  <2>4. QED
    BY <1>2, <2>2, <2>3, Zenon
<1>5. b[4] = " "
  <2>1. 1 \in 1..1 /\ 3 + 1 = 4
    OBVIOUS
  <2> HIDE DEF b
  <2>2. QED
    BY <1>3, <2>1, WordsType, Zenon DEF TextAt
<1> HIDE DEF b
<1>6. s \in Seq(Byte) /\ Len(s) = 6 /\ EseqAt(s, 4)
  <2>1. s \in Seq(Byte) /\ Len(s) = Len(b) + 2 /\ EseqAt(s, Len(b))
    BY <1>3, EseqBehind
  <2> HIDE DEF s
  <2>2. 4 + 2 = 6
    OBVIOUS
  <2>3. QED
    BY <1>3, <2>1, <2>2, Zenon
<1>7. EseqAt(s, 1) /\ s[1] = " " /\ s[4] = " "
  <2>1. 0 \in Nat /\ 1 \in Nat /\ 3 \in Nat /\ 1 + 2 <= Len(b) /\ 1 \in 1..Len(b) /\ 4 \in 1..Len(b)
    BY <1>3
  <2>2. QED
    BY <1>3, <1>4, <1>5, <2>1, EseqType, Kept
<1> HIDE DEF s
<1>8. QED
  BY <1>6, <1>7, Zenon DEF IsGreeting, s, b, a

-----------------------------------------------------------------------------
(* Steps that leave the machine where it is *)

Chat == Stream /\ Turns /\ Places /\ Faithful /\ EndsOnlyWithSsh

\* How far the machine is, in numbers.
LEMMA Counts ==
  ASSUME Inv, Stream
  PROVE  /\ Rest \in Seq(Byte) /\ fromSw \in Seq(Byte)
         /\ Len(Rest) \in Nat /\ Len(fromSw) \in Nat /\ Len(resp) \in Nat
         /\ Pos \in Nat /\ done \in Nat /\ done <= Len(resp) /\ Pos <= done
         /\ Pos + Len(Rest) + Len(fromSw) = done
<1> DEFINE r == Len(Rest)
           l == Len(fromSw)
           n == Len(resp)
           p == Pos
<1>1. Rest \in Seq(Byte) /\ fromSw \in Seq(Byte) /\ resp \in Seq(Byte)
  BY RestType DEF Inv, TypeOK, Stream
<1>2. r \in Nat /\ l \in Nat /\ n \in Nat
  BY <1>1
<1>3. p = done - r - l /\ done \in 0..n /\ p \in 0..done
  BY DEF Stream, Pos
<1> HIDE DEF r, l, n, p
<1>4. p \in Nat /\ done \in Nat /\ done <= n /\ p <= done /\ p + r + l = done
  BY <1>2, <1>3
<1>5. QED
  BY <1>1, <1>2, <1>4 DEF r, l, n, p

\* Outside fsm_feed all of the buffer is still to be eaten.
LEMMA RestIsAll ==
  ASSUME Inv, eaten = 0
  PROVE  Rest = s_readbuf
<1>1. s_readbuf \in Seq(Byte) /\ eaten + 1 = 1
  BY DEF Inv, TypeOK
<1>2. QED
  BY <1>1, SubSeqFull DEF Rest

LEMMA StreamKept ==
  ASSUME Stream, UNCHANGED <<resp, done, fromSw>>, Rest' = Rest
  PROVE  Stream' /\ Pos' = Pos
<1>1. Pos' = Pos
  BY DEF Pos
<1>2. Stream'
  BY <1>1 DEF Stream, Behind, PieceMayEnd
<1>3. QED
  BY <1>1, <1>2

LEMMA PlaceKept ==
  ASSUME UNCHANGED <<sw, resp, got, reply, wrote>>,
         NEW f, NEW p, NEW st, NEW h, Place(f, p, st, h),
         s_curfsm' = f, Pos' = p, curst'[f] = st, hp' = h
  PROVE  Places'
<1>1. Asking' = Asking
  BY DEF Asking
<1>2. Place(s_curfsm, Pos, curst[s_curfsm], hp)' = Place(f, p, st, h)
  BY <1>1, Zenon DEF Place, Greeted, Requested, Prompted, Typed, Echoed, Replied
<1>3. QED
  BY <1>2, Zenon DEF Places

\* Nothing changes but what is on its way, and what the machine has not eaten
\* stays the same.
LEMMA Frame ==
  ASSUME Turns, Places, Faithful, Pos' = Pos, pc' = "feed" => ~Asking,
         UNCHANGED <<sw, resp, got, reply, wrote, s_state, s_curfsm, curst, hp,
                     s_writebuf, s_outbuf, s_ps1buf>>
  PROVE  Turns' /\ Places' /\ Faithful'
<1>1. Asking' = Asking
  BY DEF Asking
<1>2. Turns'
  BY <1>1 DEF Turns
<1>3. Places'
  <2>1. CASE s_state = "BUSY"
    <3>1. Place(s_curfsm, Pos, curst[s_curfsm], hp)
      BY <2>1 DEF Places
    <3>2. QED
      BY <3>1, PlaceKept
  <2>2. CASE s_state # "BUSY"
    BY <2>2 DEF Places
  <2>3. QED
    BY <2>1, <2>2
<1>4. Faithful'
  BY DEF Faithful, OnScreen
<1>5. QED
  BY <1>2, <1>3, <1>4

\* What the program does when it waits or gives up, and the end of ssh.
LEMMA QuietSteps ==
  ASSUME Inv, Chat, UNCHANGED swVars,
         \/ NeedMoreData \/ BusyWait \/ CoreSelect \/ SshExits
         \/ UNCHANGED vars
         \/ \E why : C(why)
  PROVE  Stream' /\ Turns' /\ Places' /\ Faithful'
<1> USE DEF NeedMoreData, BusyWait, CoreSelect, SshExits, C, vars, bufVars, fsmVars, envVars, histVars, swVars
<1>1. UNCHANGED <<s_readbuf, eaten, fromSw, wrote, s_state, s_curfsm, curst, hp,
                  s_writebuf, s_outbuf, s_ps1buf, sw, resp, done, got, reply>>
  OBVIOUS
<1>2. pc' = "feed" => pc = "feed"
  OBVIOUS
<1>3. Stream /\ Turns /\ Places /\ Faithful
  BY DEF Chat
<1> HIDE DEF NeedMoreData, BusyWait, CoreSelect, SshExits, C, vars, bufVars, fsmVars, envVars, histVars, swVars
<1>4. Rest' = Rest
  BY <1>1 DEF Rest
<1>5. Stream' /\ Pos' = Pos
  BY <1>1, <1>3, <1>4, StreamKept
<1>6. pc' = "feed" => ~Asking
  BY <1>2, <1>3 DEF Turns
<1>7. QED
  BY <1>1, <1>3, <1>5, <1>6, Frame

\* A piece of the response.
LEMMA SwSendStep ==
  ASSUME Inv, Chat, SwSend
  PROVE  Stream' /\ Turns' /\ Places' /\ Faithful'
<1> PICK m \in done+1..Len(resp) :
      /\ PieceMayEnd(m)
      /\ SshSends(SubSeq(resp, done + 1, m))
      /\ done' = m
      /\ UNCHANGED <<sw, resp, got, reply>>
  BY DEF SwSend
<1>1. Stream /\ Turns /\ Places /\ Faithful
  BY DEF Chat
<1>2. fromSw' = fromSw \o SubSeq(resp, done + 1, m)
        /\ UNCHANGED <<s_readbuf, eaten, wrote, s_state, s_curfsm, curst, hp, pc,
                       s_writebuf, s_outbuf, s_ps1buf>>
  BY DEF SshSends, bufVars, fsmVars, histVars
<1>3. Rest' = Rest
  BY <1>2 DEF Rest
<1> DEFINE r == Len(Rest)
           l == Len(fromSw)
           n == Len(resp)
           p == Pos
<1>4. Rest \in Seq(Byte) /\ fromSw \in Seq(Byte) /\ resp \in Seq(Byte)
        /\ r \in Nat /\ l \in Nat /\ n \in Nat /\ p \in Nat /\ done \in Nat /\ done <= n /\ p + r + l = done
  BY <1>1, Counts DEF Stream
<1>5. Behind(resp, p, Rest, fromSw)
  BY <1>1 DEF Stream
<1> HIDE DEF p
<1>6. m \in done..n /\ m \in 0..n /\ m > 0
  <2> HIDE DEF n
  <2>1. m \in done+1..n
    BY DEF n
  <2>2. QED
    BY <1>4, <2>1
<1>7. Behind(resp, p, Rest, fromSw') /\ Len(fromSw') = l + (m - done)
  <2>1. done = p + Len(Rest) + Len(fromSw) /\ m \in done..Len(resp)
    BY <1>4, <1>6, Zenon
  <2>2. QED
    BY <1>2, <1>4, <1>5, <2>1, BehindSent
<1>8. Pos' = p
  <2>1. Pos' = m - r - (l + (m - done))
    BY <1>3, <1>7, Zenon DEF Pos
  <2> HIDE DEF r, l, n
  <2>2. QED
    BY <1>4, <1>6, <2>1
<1>9. p \in 0..m
  <2> HIDE DEF r, l, n
  <2>1. QED
    BY <1>4, <1>6
<1>10. Stream'
  <2> HIDE DEF r, l
  <2>1. PieceMayEnd(m)'
    BY DEF PieceMayEnd
  <2>2. done' = m /\ resp' = resp
    OBVIOUS
  <2>3. QED
    BY <1>3, <1>4, <1>6, <1>7, <1>8, <1>9, <2>1, <2>2, Zenon DEF Stream
<1>11. pc' = "feed" => ~Asking
  BY <1>1, <1>2 DEF Turns
<1>12. QED
  BY <1>1, <1>2, <1>8, <1>10, <1>11, Frame DEF p

\* A read from the pipe.
LEMMA BusyReadStep ==
  ASSUME Inv, Chat, BusyRead, UNCHANGED swVars
  PROVE  Stream' /\ Turns' /\ Places' /\ Faithful'
<1>1. Stream /\ Turns /\ Places /\ Faithful
  BY DEF Chat
<1> DEFINE m == ReadCount
<1>2. /\ s_readbuf' = s_readbuf \o SubSeq(fromSw, 1, m)
      /\ fromSw' = SubSeq(fromSw, m + 1, Len(fromSw))
      /\ eaten' = 0 /\ eaten = 0
      /\ UNCHANGED <<sw, resp, done, got, reply, wrote, s_state, s_curfsm, curst, hp,
                     s_writebuf, s_outbuf, s_ps1buf>>
  BY DEF BusyRead, Inv, Shape, Running, histVars, swVars
<1>3. m \in Nat /\ m <= Len(fromSw)
  BY ReadCountBounds DEF Inv
<1> HIDE DEF m
<1> DEFINE r == Len(Rest)
           l == Len(fromSw)
           n == Len(resp)
           p == Pos
<1>4. Rest \in Seq(Byte) /\ fromSw \in Seq(Byte) /\ resp \in Seq(Byte)
        /\ r \in Nat /\ l \in Nat /\ n \in Nat /\ p \in Nat /\ done \in Nat /\ done <= n /\ p + r + l = done
  BY <1>1, Counts DEF Stream
<1>5. Rest = s_readbuf
  BY <1>2, RestIsAll
<1>6. Rest' = s_readbuf'
  <2>1. s_readbuf' \in Seq(Byte)
    <3>1. Inv'
      BY BusyReadInv
    <3>2. QED
      BY <3>1 DEF Inv, TypeOK
  <2>2. eaten' + 1 = 1
    BY <1>2
  <2>3. QED
    BY <2>1, <2>2, SubSeqFull DEF Rest
<1>7. m \in 0..Len(fromSw)
  <2> HIDE DEF r, n, p
  <2>1. QED
    BY <1>3, <1>4
<1>8. Behind(resp, p, Rest, fromSw)
  BY <1>1 DEF Stream
<1> HIDE DEF p
<1>9. Behind(resp, p, Rest', fromSw') /\ Len(Rest') = r + m /\ Len(fromSw') = l - m
  BY <1>2, <1>4, <1>5, <1>6, <1>7, <1>8, BehindRead
<1>10. Pos' = p
  <2>1. Pos' = done - (r + m) - (l - m)
    BY <1>2, <1>9, Zenon DEF Pos
  <2> HIDE DEF r, l, n
  <2>2. QED
    BY <1>3, <1>4, <2>1
<1>11. Stream'
  <2>1. done \in 0..Len(resp) /\ p \in 0..done /\ (done > 0 => PieceMayEnd(done))
    BY <1>1 DEF Stream, p
  <2>2. (done > 0 => PieceMayEnd(done))'
    BY <1>2, <2>1 DEF PieceMayEnd
  <2>3. QED
    BY <1>2, <1>4, <1>9, <1>10, <2>1, <2>2, Zenon DEF Stream
<1>12. ~Asking
  <2>1. ASSUME Asking PROVE FALSE
    <3>1. p = n
      BY <1>1, <2>1 DEF Turns, p
    <3>2. r = 0 /\ l = 0
      <4> HIDE DEF r, l, n
      <4>1. QED
        BY <1>4, <3>1
    <3>3. Rest = <<>> /\ fromSw = <<>>
      BY <1>4, <3>2, EmptySeq
    <3>4. QED
      BY <1>5, <3>3 DEF BusyRead
  <2>2. QED
    BY <2>1
<1>13. QED
  BY <1>1, <1>2, <1>10, <1>11, <1>12, Frame DEF p

-----------------------------------------------------------------------------
(* Steps of the machine *)

\* In fsm_feed, the rest of the buffer begins with the next byte of the
\* response; nothing malformed is ever fed.
LEMMA NextToken ==
  ASSUME Inv, Chat, pc = "feed", eaten < Len(s_readbuf)
  PROVE  LET c == resp[Pos + 1]
             g(t) == Act(s_curfsm, Does(s_curfsm, curst[s_curfsm], t), c, hp)
             At(p, t) == Place(s_curfsm, p, To(s_curfsm, curst[s_curfsm], t), g(t))
         IN  /\ ~MktokPanics(Rest) /\ Rest[1] = c
             /\ \/ fsm_hp_mktok(Rest).tok = "more"
                \/ /\ fsm_hp_mktok(Rest) = [tok |-> "T_ESEQ", toklen |-> 2]
                   /\ 2 \in 0..Len(Rest) /\ At(Pos + 2, "T_ESEQ")
                \/ /\ fsm_hp_mktok(Rest) = [tok |-> "T_REST", toklen |-> 1]
                   /\ 1 \in 0..Len(Rest) /\ At(Pos + 1, "T_REST")
<1> DEFINE p == Pos
           c == resp[p + 1]
           f == s_curfsm
           st == curst[f]
           g(t) == Act(f, Does(f, st, t), c, hp)
           r == Len(Rest)
           l == Len(fromSw)
           n == Len(resp)
<1>1. Stream /\ Turns /\ Places /\ resp \in Seq(Byte) /\ hp \in Hp /\ s_state = "BUSY"
  BY DEF Chat, Stream, Inv, TypeOK, Shape
<1>2. Rest \in Seq(Byte) /\ r \in Nat /\ l \in Nat /\ n \in Nat /\ p \in Nat /\ done \in Nat
        /\ done <= n /\ p + r + l = done
  BY <1>1, Counts
<1>3. r > 0
  <2> DEFINE b == Len(s_readbuf)
  <2>1. r = b - eaten /\ b \in Nat /\ eaten \in 0..b /\ eaten < b
    BY RestType DEF Inv, TypeOK
  <2> HIDE DEF r, b
  <2>2. QED
    BY <2>1
<1>4. p < n /\ 1 \in 1..r /\ (r > 1 => 2 \in 1..r) /\ 1 \in 0..r /\ (r > 1 => 2 \in 0..r)
  <2> HIDE DEF r, l, n, p
  <2>1. QED
    BY <1>2, <1>3
<1>5. Behind(resp, p, Rest, fromSw)
  BY <1>1 DEF Stream
<1>6. Rest[1] = c /\ (r > 1 => Rest[2] = resp[p + 2])
  <2> HIDE DEF p
  <2>1. QED
    BY <1>4, <1>5, Zenon DEF Behind
<1>7. ~Asking /\ Place(f, p, st, hp)
  BY <1>1 DEF Turns, Places
<1>8. Ahead(resp, p, Place(f, p + 2, To(f, st, "T_ESEQ"), g("T_ESEQ")),
                     Place(f, p + 1, To(f, st, "T_REST"), g("T_REST")))
  <2> HIDE DEF p, f, st
  <2>1. QED
    BY <1>1, <1>2, <1>4, <1>7, PlaceStep
<1> HIDE DEF p, f, st, g, c
<1>9. \/ c = ESC /\ resp[p + 2] = "H" /\ Place(f, p + 2, To(f, st, "T_ESEQ"), g("T_ESEQ"))
      \/ c # ESC /\ Place(f, p + 1, To(f, st, "T_REST"), g("T_REST"))
  BY <1>8, Zenon DEF Ahead, c
<1>10. r = 1 \/ r > 1
  <2> HIDE DEF r
  <2>1. QED
    BY <1>2, <1>3
<1>11. r # 0
  <2> HIDE DEF r
  <2>1. QED
    BY <1>2, <1>3
<1>12. Rest[1] = ESC => r = 1 \/ Rest[2] = "H"
  BY <1>6, <1>9, <1>10, Zenon
<1>13. /\ ~MktokPanics(Rest)
       /\ Rest[1] # ESC => fsm_hp_mktok(Rest) = [tok |-> "T_REST", toklen |-> 1]
       /\ Rest[1] = ESC /\ r = 1 => fsm_hp_mktok(Rest).tok = "more"
       /\ Rest[1] = ESC /\ r > 1 => fsm_hp_mktok(Rest) = [tok |-> "T_ESEQ", toklen |-> 2]
  BY <1>2, <1>11, <1>12, TokenAhead
<1>14. \/ fsm_hp_mktok(Rest).tok = "more"
       \/ /\ fsm_hp_mktok(Rest) = [tok |-> "T_ESEQ", toklen |-> 2]
          /\ 2 \in 0..r /\ Place(f, p + 2, To(f, st, "T_ESEQ"), g("T_ESEQ"))
       \/ /\ fsm_hp_mktok(Rest) = [tok |-> "T_REST", toklen |-> 1]
          /\ 1 \in 0..r /\ Place(f, p + 1, To(f, st, "T_REST"), g("T_REST"))
  BY <1>4, <1>6, <1>9, <1>10, <1>13, Zenon
<1>15. QED
  BY <1>6, <1>13, <1>14, Zenon DEF p, f, st, g, c, r

LEMMA FeedNeverPanics ==
  ASSUME Inv, Chat
  PROVE  ~FeedPanic
<1>1. ASSUME FeedPanic PROVE FALSE
  <2>1. pc = "feed" /\ eaten < Len(s_readbuf) /\ MktokPanics(Rest)
    BY <1>1 DEF FeedPanic, Running
  <2>2. QED
    BY <2>1, NextToken
<1>2. QED
  BY <1>1

\* k bytes are eaten.
LEMMA Eaten ==
  ASSUME Inv, Stream, NEW k \in 0..Len(Rest), eaten' = eaten + k,
         UNCHANGED <<resp, done, fromSw, s_readbuf>>
  PROVE  Stream' /\ Pos' = Pos + k
<1> DEFINE r == Len(Rest)
           l == Len(fromSw)
           n == Len(resp)
           p == Pos
           b == Len(s_readbuf)
<1>1. Rest \in Seq(Byte) /\ fromSw \in Seq(Byte) /\ resp \in Seq(Byte) /\ s_readbuf \in Seq(Byte)
        /\ r \in Nat /\ l \in Nat /\ n \in Nat /\ p \in Nat /\ done \in Nat /\ done <= n /\ p + r + l = done
  BY Counts DEF Stream, Inv, TypeOK
<1>2. r = b - eaten /\ b \in Nat /\ eaten \in Nat /\ eaten <= b
  <2>1. r = b - eaten /\ b \in Nat /\ eaten \in 0..b
    BY RestType DEF Inv, TypeOK
  <2> HIDE DEF r, b
  <2>2. QED
    BY <2>1
<1>3. k \in Nat /\ k <= r /\ eaten + k \in Nat /\ eaten + k <= b /\ p + k <= done /\ p + k \in 0..done
        /\ b <= b
  <2>1. k \in 0..r
    OBVIOUS
  <2> HIDE DEF r, b, l, n, p
  <2>2. QED
    BY <1>1, <1>2, <2>1
<1> DEFINE q == SubSeq(s_readbuf, (eaten + k) + 1, b)
<1>4. /\ Len(Rest) = b - eaten
      /\ \A j \in 1..b-eaten : Rest[j] = s_readbuf[eaten + j]
  BY <1>1, <1>2, <1>3, Part DEF Rest
<1>5. /\ q \in Seq(Byte) /\ Len(q) = b - (eaten + k)
      /\ \A j \in 1..b-(eaten+k) : q[j] = s_readbuf[(eaten + k) + j]
  <2> DEFINE e == eaten + k
  <2>1. e \in Nat /\ e <= b /\ b \in Nat /\ b <= Len(s_readbuf)
    BY <1>2, <1>3, Zenon
  <2> HIDE DEF e
  <2>2. SubSeq(s_readbuf, e + 1, b) \in Seq(Byte) /\ Len(SubSeq(s_readbuf, e + 1, b)) = b - e
          /\ \A j \in 1..b-e : SubSeq(s_readbuf, e + 1, b)[j] = s_readbuf[e + j]
    BY <1>1, <2>1, Part
  <2>3. QED
    BY <2>2, Zenon DEF e
<1>6. Rest' = q
  BY Zenon DEF Rest
<1> HIDE DEF q
<1>7. Len(q) = r - k /\ \A j \in 1..Len(q) : q[j] = Rest[k + j]
  <2> HIDE DEF r, b
  <2>1. \A j \in 1..b-(eaten+k) : k + j \in 1..b-eaten /\ eaten + (k + j) = (eaten + k) + j
    BY <1>2, <1>3
  <2>2. b - (eaten + k) = r - k
    BY <1>2, <1>3
  <2>3. \A j \in 1..b-(eaten+k) : q[j] = Rest[k + j]
    BY <1>4, <1>5, <2>1, Zenon
  <2>4. QED
    BY <1>5, <2>2, <2>3, Zenon
<1>8. Behind(resp, p + k, q, fromSw)
  <2>1. Behind(resp, p, Rest, fromSw)
    BY DEF Stream
  <2> HIDE DEF p
  <2>2. QED
    BY <1>1, <1>5, <1>7, <2>1, BehindEaten
<1>9. Pos' = p + k
  <2>1. Pos' = done - (r - k) - l
    BY <1>6, <1>7, Zenon DEF Pos
  <2> HIDE DEF r, l, n, p, b
  <2>2. QED
    BY <1>1, <1>3, <2>1
<1>10. (done > 0 => PieceMayEnd(done))'
  BY DEF Stream, PieceMayEnd
<1>11. done \in 0..Len(resp)
  BY DEF Stream
<1> HIDE DEF p
<1>12. Stream'
  BY <1>1, <1>3, <1>6, <1>8, <1>9, <1>10, <1>11, Zenon DEF Stream
<1>13. QED
  BY <1>9, <1>12 DEF p

LEMMA FeedTokenStep ==
  ASSUME Inv, Chat, FeedToken, UNCHANGED swVars
  PROVE  Stream' /\ Turns' /\ Places' /\ Faithful'
<1> DEFINE t == fsm_hp_mktok(Rest)
           c == resp[Pos + 1]
           f == s_curfsm
           st == curst[f]
           g(k) == Act(f, Does(f, st, k), c, hp)
<1>1. Stream /\ Turns /\ f \in Fsm /\ curst \in [Fsm -> AllStates] /\ s_state = "BUSY" /\ pc = "feed"
  BY DEF Chat, FeedToken, Running, Inv, TypeOK, Shape
<1>2. /\ hp' = Act(f, Does(f, st, t.tok), Rest[1], hp)
      /\ curst' = [curst EXCEPT ![f] = To(f, st, t.tok)]
      /\ eaten' = eaten + t.toklen
      /\ UNCHANGED <<sw, resp, done, got, reply, wrote, s_state, s_curfsm, s_readbuf, fromSw, pc,
                     s_writebuf, s_outbuf, s_ps1buf>>
      /\ eaten < Len(s_readbuf) /\ t.tok # "more"
  <2>1. /\ hp' = Act(f, Does(f, st, t.tok), Rest[1], hp)
        /\ curst' = [curst EXCEPT ![f] = To(f, st, t.tok)]
        /\ eaten' = eaten + t.toklen
        /\ eaten < Len(s_readbuf) /\ t.tok # "more"
    BY Zenon DEF FeedToken, To, Does
  <2>2. UNCHANGED <<sw, resp, done, got, reply, wrote, s_state, s_curfsm, s_readbuf, fromSw, pc,
                    s_writebuf, s_outbuf, s_ps1buf>>
    BY DEF FeedToken, bufVars, envVars, histVars, swVars
  <2>3. QED
    BY <2>1, <2>2
<1>3. Rest[1] = c /\ \/ /\ t = [tok |-> "T_ESEQ", toklen |-> 2]
                        /\ 2 \in 0..Len(Rest) /\ Place(f, Pos + 2, To(f, st, "T_ESEQ"), g("T_ESEQ"))
                     \/ /\ t = [tok |-> "T_REST", toklen |-> 1]
                        /\ 1 \in 0..Len(Rest) /\ Place(f, Pos + 1, To(f, st, "T_REST"), g("T_REST"))
  BY <1>1, <1>2, NextToken
<1>4. PICK k \in 0..Len(Rest), e \in {"T_ESEQ", "T_REST"} :
        t = [tok |-> e, toklen |-> k] /\ Place(f, Pos + k, To(f, st, e), g(e))
  <2> HIDE DEF t, g, f, st, c
  <2>1. QED
    BY <1>3, Zenon
<1>5. t.tok = e /\ t.toklen = k
  <2> HIDE DEF t
  <2>1. QED
    BY <1>4
<1> HIDE DEF t
<1>6. Stream' /\ Pos' = Pos + k
  BY <1>1, <1>2, <1>5, Eaten
<1>7. Places'
  <2>1. hp' = g(e) /\ curst'[f] = To(f, st, e) /\ s_curfsm' = f
    BY <1>1, <1>2, <1>3, <1>5
  <2>2. Place(f, Pos + k, To(f, st, e), g(e))
    BY <1>4
  <2> HIDE DEF f, st, g, c
  <2>3. QED
    BY <1>2, <1>6, <2>1, <2>2, PlaceKept
<1>8. Turns'
  BY <1>1, <1>2 DEF Turns, Asking
<1>9. Faithful'
  BY <1>1, <1>2 DEF Faithful
<1>10. QED
  BY <1>6, <1>7, <1>8, <1>9

-----------------------------------------------------------------------------
(* Steps that pass the turn to the switch *)

\* An answer of the login goes out exactly when the switch has said all that
\* comes before it.
LEMMA AnswersInTurn ==
  ASSUME Inv, Chat, pc = "feed"
  PROVE  \/ wrote \o Answers = wrote
         \/ /\ wrote \o Answers = Append(wrote, AnyKey) /\ wrote = <<>> /\ s_curfsm = "init"
            /\ sw = "key" /\ Pos = Len(resp)
         \/ /\ wrote \o Answers = Append(wrote, Report) /\ wrote = <<AnyKey>> /\ s_curfsm = "init"
            /\ sw = "report" /\ Pos = Len(resp)
<1> DEFINE st == curst["init"]
<1>1. /\ s_state = "BUSY" /\ ~Asking /\ wrote \in Seq(Byte \cup {AnyKey, Report})
      /\ Place(s_curfsm, Pos, curst[s_curfsm], hp)
  BY DEF Inv, TypeOK, Shape, Chat, Turns, Places
<1>2. got = Len(wrote)
  <2> DEFINE n == Len(wrote)
  <2>1. n \in Nat /\ got \in Nat /\ got <= n /\ ~(got < n)
    BY <1>1 DEF Chat, Turns, Asking
  <2> HIDE DEF n
  <2>2. got = n
    BY <2>1
  <2>3. QED
    BY <2>2 DEF n
<1>3. CASE Answers = <<>>
  BY <1>1, <1>3, ConcatEmptySeq
<1>4. CASE s_curfsm # "init"
  BY <1>3, <1>4 DEF Answers
<1>5. CASE s_curfsm = "init"
  <2>1. Login /\ LoggingIn
    BY <1>1, <1>5 DEF Inv, LoggingIn
  <2>2. Place("init", Pos, st, hp) /\ st # "S_ERR"
    BY <1>1, <1>5, PlaceIsNoError
  <2>3. CASE Stage(<<>>, TRUE, FALSE, {"S_CM2"})
    <3>1. Answers = <<AnyKey>> /\ wrote = <<>> /\ st = "S_CM2"
      BY <1>5, <2>2, <2>3, AnswersValue DEF Stage
    <3>2. wrote \o Answers = Append(wrote, AnyKey)
      BY <3>1
    <3>3. got = 0
      BY <1>2, <3>1
    <3>4. Greeted("init", Pos, "S_CM2", hp)
      BY <2>2, <3>1, <3>3 DEF Place, Requested, Prompted, Typed, Echoed, Replied
    <3>5. sw = "key" /\ Pos = Len(resp)
      BY <3>4 DEF Greeted, GreetingAt, IsGreeting
    <3>6. QED
      BY <1>5, <3>1, <3>2, <3>5
  <2>4. CASE Stage(<<AnyKey>>, FALSE, TRUE, AfterReport)
    <3>1. Answers = <<Report>> /\ wrote = <<AnyKey>> /\ st \in AfterReport
      BY <1>5, <2>2, <2>4, AnswersValue DEF Stage
    <3>2. wrote \o Answers = Append(wrote, Report)
      BY <3>1
    <3>3. got = 1
      BY <1>2, <3>1
    <3>4. Requested("init", Pos, st, hp)
      BY <2>2, <3>3 DEF Place, Greeted, Prompted, Typed, Echoed, Replied
    <3>5. sw = "report" /\ Pos = Len(resp)
      BY <3>1, <3>4 DEF Requested, RequestAt, IsRequest, AfterReport
    <3>6. QED
      BY <1>5, <3>1, <3>2, <3>5
  <2>5. CASE Stage(<<>>, TRUE, TRUE, AfterReport)
    <3>1. wrote = <<>> /\ st \in AfterReport
      BY <2>2, <2>5 DEF Stage
    <3>2. got = 0
      BY <1>2, <3>1
    <3>3. Greeted("init", Pos, st, hp)
      BY <2>2, <3>2 DEF Place, Requested, Prompted, Typed, Echoed, Replied
    <3>4. QED
      BY <3>1, <3>3 DEF Greeted, GreetingAt, AfterReport
  <2>6. CASE hp.anykey = FALSE /\ hp.report = FALSE
    BY <1>3, <1>5, <2>6, AnswersValue
  <2>7. QED
    BY <2>1, <2>3, <2>4, <2>5, <2>6 DEF Login, Stage
<1>6. QED
  BY <1>4, <1>5

\* An answer on its way does not change where the initial chat is.
LEMMA InitPlaceKept ==
  ASSUME UNCHANGED <<sw, resp, got, reply>>, NEW f, NEW p, NEW st, NEW h,
         Greeted(f, p, st, h) \/ Requested(f, p, st, h) \/ (Prompted(f, p, st, h) /\ ~Asking'),
         s_curfsm' = f, Pos' = p, curst'[f] = st, hp'.ips1 = h.ips1
  PROVE  Places'
BY Zenon DEF Places, Place, Greeted, Requested, Prompted

\* The switch asks for the report only when it has got the key.
LEMMA OneAtATime ==
  ASSUME Inv, Chat, pc = "feed"
  PROVE  ~BothDue
<1> SUFFICES ASSUME BothDue PROVE FALSE
  OBVIOUS
<1> DEFINE B == Byte \cup {AnyKey, Report}
<1>1. Answers = <<AnyKey, Report>>
  <2>1. s_curfsm = "init" /\ hp.anykey = TRUE /\ hp.report = TRUE
    BY DEF BothDue, Inv, TypeOK, Hp
  <2>2. QED
    BY <2>1, AnswersValue
<1>2. wrote \in Seq(B) /\ <<AnyKey, Report>> \in Seq(B)
  BY DEF Inv, TypeOK
<1> HIDE DEF B
<1> DEFINE w == wrote \o Answers
           n == Len(wrote)
<1>3. Len(w) = n + 2 /\ n \in Nat
  BY <1>1, <1>2, ConcatProperties
<1>4. Len(w) = n \/ Len(w) = n + 1
  <2>1. w = wrote \/ w = Append(wrote, AnyKey) \/ w = Append(wrote, Report)
    BY AnswersInTurn
  <2> HIDE DEF w
  <2>2. QED
    BY <1>2, <2>1
<1> HIDE DEF w, n
<1>5. QED
  BY <1>3, <1>4

LEMMA FeedReturnStep ==
  ASSUME Inv, Chat, FeedReturn, UNCHANGED swVars
  PROVE  Stream' /\ Turns' /\ Places' /\ Faithful' /\ exit' = exit
<1> DEFINE f == s_curfsm
           p == Pos
           st == curst[f]
<1>1. /\ Stream /\ Turns /\ s_state = "BUSY" /\ pc = "feed" /\ ~Asking /\ hp \in Hp
      /\ wrote \in Seq(Byte \cup {AnyKey, Report})
      /\ Place(f, p, st, hp)
  BY DEF Chat, FeedReturn, Running, Inv, TypeOK, Shape, Turns, Places
<1>2. /\ wrote' = wrote \o Answers /\ s_readbuf' = Rest /\ eaten' = 0 /\ pc' = "loop"
      /\ hp' = IF f = "init" THEN flags_read(hp) ELSE hp
      /\ UNCHANGED <<sw, resp, done, got, reply, s_state, s_curfsm, curst, fromSw,
                     s_writebuf, s_outbuf, s_ps1buf>>
  BY DEF FeedReturn, envVars, swVars
<1>3. exit' = exit
  <2>1. ~Failed
    <3> HIDE DEF p
    <3>1. st # "S_ERR"
      BY <1>1, PlaceIsNoError
    <3>2. QED
      BY <3>1 DEF Failed
  <2>2. QED
    BY <2>1 DEF FeedReturn
<1>4. Rest' = Rest
  <2>1. Rest \in Seq(Byte) /\ eaten' + 1 = 1
    BY <1>1, <1>2, Counts
  <2>2. Rest' = SubSeq(Rest, 1, Len(Rest))
    <3> DEFINE r == Rest
    <3>1. s_readbuf' = r /\ eaten' + 1 = 1
      BY <1>2, <2>1
    <3> HIDE DEF r
    <3>2. SubSeq(s_readbuf, eaten + 1, Len(s_readbuf))' = SubSeq(r, 1, Len(r))
      BY <3>1
    <3>3. QED
      BY <3>2, Zenon DEF Rest, r
  <2>3. QED
    BY <2>1, <2>2, SubSeqFull
<1>5. Stream' /\ Pos' = p
  BY <1>1, <1>2, <1>4, StreamKept
<1>6. hp'.ips1 = hp.ips1 /\ (f # "init" => hp' = hp)
  BY <1>1, <1>2 DEF flags_read, Hp
<1>7. Faithful'
  BY <1>1, <1>2 DEF Faithful
<1>8. curst'[f] = st /\ s_curfsm' = f
  BY <1>2
<1>9. CASE wrote' = wrote
  <2>1. Turns'
    BY <1>1, <1>2, <1>9 DEF Turns, Asking
  <2>2. ~Asking'
    BY <1>1, <1>2, <1>9 DEF Asking
  <2>3. CASE f # "init"
    <3> HIDE DEF p, f, st
    <3>1. QED
      BY <1>1, <1>2, <1>3, <1>5, <1>6, <1>7, <1>8, <1>9, <2>1, <2>3, PlaceKept
  <2>4. CASE f = "init"
    <3> HIDE DEF p, st
    <3>1. Greeted(f, p, st, hp) \/ Requested(f, p, st, hp) \/ Prompted(f, p, st, hp)
      BY <1>1, <2>4 DEF Place, Typed, Echoed, Replied
    <3> HIDE DEF f
    <3>2. Places'
      BY <1>2, <1>5, <1>6, <1>8, <2>2, <3>1, InitPlaceKept
    <3>3. QED
      BY <1>3, <1>5, <1>7, <2>1, <3>2
  <2>5. QED
    BY <2>3, <2>4
<1>10. CASE /\ f = "init" /\ sw \in {"key", "report"} /\ p = Len(resp)
            /\ \E c \in {AnyKey, Report} : wrote' = Append(wrote, c)
  <2> DEFINE n == Len(wrote)
  <2>1. got + 1 = Len(wrote')
    <3>1. Len(wrote') = n + 1 /\ n \in Nat /\ got \in Nat /\ got <= n /\ ~(got < n)
      BY <1>1, <1>10 DEF Turns, Asking
    <3> HIDE DEF n
    <3>2. QED
      BY <3>1
  <2>2. got <= Len(wrote') /\ got \in Nat
    BY <1>1, <2>1 DEF Turns
  <2>3. Turns'
    <3> HIDE DEF p, f, st
    <3>1. sw' # "input" /\ Pos' = Len(resp') /\ got' + 1 = Len(wrote') /\ got' <= Len(wrote')
      BY <1>2, <1>5, <1>10, <2>1, <2>2
    <3>2. sw' \in {"key", "report"} /\ got' \in Nat /\ s_state' = "BUSY" /\ pc' # "feed" /\ s_writebuf' \in Seq(Plain)
      BY <1>1, <1>2, <1>10 DEF Turns
    <3>3. QED
      BY <3>1, <3>2 DEF Turns, Asking
  <2> HIDE DEF p, st
  <2>4. Greeted(f, p, st, hp) \/ Requested(f, p, st, hp)
    BY <1>1, <1>10 DEF Place, Prompted, Typed, Echoed, Replied
  <2> HIDE DEF f
  <2>5. Places'
    BY <1>2, <1>5, <1>6, <1>8, <2>4, InitPlaceKept
  <2>6. QED
    BY <1>3, <1>5, <1>7, <2>3, <2>5
<1>11. QED
  BY <1>1, <1>2, <1>9, <1>10, AnswersInTurn

\* A byte of the user's line goes out when the response to the last is eaten.
LEMMA WriteByteStep ==
  ASSUME Inv, Chat, OperWriting, UNCHANGED swVars
  PROVE  Stream' /\ Turns' /\ Places' /\ Faithful' /\ exit' = exit
<1> DEFINE c == Head(s_writebuf)
           f == FsmFor(c)
<1>1. /\ Stream /\ Turns /\ s_state = "WRITING" /\ pc = "loop" /\ hp \in Hp
      /\ s_writebuf # <<>> /\ s_writebuf \in Seq(Plain)
      /\ curst \in [Fsm -> AllStates] /\ wrote \in Seq(Byte \cup {AnyKey, Report})
  BY DEF Chat, Turns, OperWriting, Running, Inv, TypeOK, Shape
<1>2. /\ wrote' = Append(wrote, c) /\ s_writebuf' = Tail(s_writebuf)
      /\ s_curfsm' = f /\ curst' = [curst EXCEPT ![f] = "S_STA"] /\ hp' = f_reset(f, hp)
      /\ s_state' = "BUSY"
      /\ UNCHANGED <<sw, resp, done, got, reply, s_readbuf, fromSw, eaten, pc, exit>>
  BY <1>1 DEF OperWriting, WriteByte, fsm_reset, envVars, swVars
<1>3. c \in Plain /\ Tail(s_writebuf) \in Seq(Plain) /\ f \in {"inchar", "cmdout"}
  BY <1>1, HeadTailProperties DEF FsmFor
<1>4. c \in Byte
  BY <1>3 DEF Plain
<1> HIDE DEF c, f
<1>5. Rest' = Rest
  BY <1>2 DEF Rest
<1>6. Stream' /\ Pos' = Pos
  BY <1>1, <1>2, <1>5, StreamKept
<1> DEFINE n == Len(wrote)
<1>7. ~Asking /\ Pos = Len(resp) /\ sw = "input" /\ got \in Nat /\ got <= n /\ got >= 2
  BY <1>1 DEF Turns
<1>8. Len(wrote') = n + 1 /\ wrote'[n + 1] = c /\ n \in Nat
  BY <1>1, <1>2, <1>4
<1>9. got = n
  <2>1. ~(got < n)
    BY <1>7 DEF Asking
  <2> HIDE DEF n
  <2>2. QED
    BY <1>7, <1>8, <2>1
<1>10. Asking' /\ wrote'[got' + 1] = c /\ got' + 1 = Len(wrote')
  <2> HIDE DEF n
  <2>1. got' = n
    BY <1>2, <1>9
  <2>2. n < n + 1
    BY <1>8
  <2>3. QED
    BY <1>8, <2>1, <2>2 DEF Asking
<1>11. Turns'
  <2>1. got' <= Len(wrote')
    BY <1>2, <1>7, <1>10
  <2>2. Pos' = Len(resp')
    BY <1>2, <1>6, <1>7
  <2>3. QED
    BY <1>1, <1>2, <1>3, <1>7, <1>10, <2>1, <2>2 DEF Turns
<1>12. Places'
  <2>1. curst'[f] = "S_STA"
    BY <1>1, <1>2, <1>3 DEF Fsm
  <2>2. f = "cmdout" => hp'.out = <<>> /\ hp'.ps1 = <<>>
    BY <1>1, <1>2 DEF f_reset, cmdout_reset, Hp
  <2>3. sw' = "input"
    BY <1>2, <1>7
  <2>4. Typed(s_curfsm, curst[s_curfsm], hp)'
    BY <1>2, <1>3, <1>10, <2>1, <2>2, <2>3, Zenon DEF Typed, f
  <2>5. QED
    BY <2>4, Zenon DEF Places, Place
<1>13. Faithful'
  BY <1>2 DEF Faithful
<1>14. QED
  BY <1>2, <1>6, <1>11, <1>12, <1>13

\* A line from the user.
LEMMA CoreWriteStep ==
  ASSUME Inv, Chat, NEW line \in Lines, CoreWrite(line), UNCHANGED swVars
  PROVE  Stream' /\ Turns' /\ Places' /\ Faithful' /\ exit' = exit
<1>1. s_state = "READY" /\ s_writebuf = <<>> /\ pc = "loop" /\ sc_write(line) /\ Stream /\ Turns
  BY DEF CoreWrite, Inv, TypeOK, States, Shape, Running, sc_busy, sc_ready, sc_offline, Chat
<1>2. line \in Seq(Plain)
  BY DialogueAssumption
<1>3. /\ s_state' = "WRITING" /\ s_writebuf' = line
      /\ UNCHANGED <<sw, resp, done, got, reply, wrote, s_readbuf, fromSw, eaten, pc, exit>>
  BY <1>1 DEF sc_write, fsmVars, envVars, swVars
<1>4. Rest' = Rest
  BY <1>3 DEF Rest
<1>5. Stream' /\ Pos' = Pos
  BY <1>1, <1>3, <1>4, StreamKept
<1>6. Turns'
  BY <1>1, <1>2, <1>3, <1>5 DEF Turns, Asking
<1>7. Places' /\ Faithful'
  BY <1>3 DEF Places, Faithful
<1>8. QED
  BY <1>3, <1>5, <1>6, <1>7

-----------------------------------------------------------------------------
(* Steps that pass the turn to the user *)

\* A buffer that holds all of a text is the text.
LEMMA RecordedAll ==
  ASSUME NEW b, NEW t \in Seq(Plain), Recorded(b, t, Len(t))
  PROVE  b = t
<1>1. t \in Seq(Byte)
  <2>1. Plain \subseteq Byte
    BY DEF Plain
  <2>2. QED
    BY <2>1, SeqMonotonic
<1>2. b \in Seq(Byte) /\ Len(b) = Len(t) /\ \A j \in 1..Len(b) : b[j] = t[j]
  BY DEF Recorded
<1>3. QED
  BY <1>1, <1>2, SeqEqual

\* No piece but the last ends behind an escape sequence.
LEMMA LastEseq ==
  ASSUME Coherent, Inv, Stream, NoData, NEW i \in Nat, Pos = i + 2, EseqAt(resp, i)
  PROVE  Pos = Len(resp)
<1>1. Rest = s_readbuf /\ Rest = <<>> /\ fromSw = <<>>
  <2>1. eaten = 0
    BY DEF NoData, Running, Inv, Shape
  <2>2. QED
    BY <2>1, RestIsAll DEF NoData
<1>2. Pos = done /\ done \in Nat
  <2>1. Len(Rest) = 0 /\ Len(fromSw) = 0
    BY <1>1, EmptySeq
  <2>2. Pos \in Nat /\ done \in Nat /\ Pos + Len(Rest) + Len(fromSw) = done
    BY Counts
  <2> DEFINE p == Pos
  <2> HIDE DEF p
  <2>3. p \in Nat /\ done \in Nat /\ p + 0 + 0 = done
    BY <2>1, <2>2 DEF p
  <2>4. p = done
    BY <2>3
  <2>5. QED
    BY <2>3, <2>4 DEF p
<1>3. done > 0 /\ done > 1 /\ done - 1 = i + 1
  BY <1>2
<1>4. PieceMayEnd(done) /\ resp[done - 1] = ESC
  BY <1>3 DEF Stream, EseqAt
<1>5. QED
  BY <1>2, <1>3, <1>4 DEF PieceMayEnd

\* So when a machine accepts it has seen all of the response, and has recorded
\* all that it was to record.
LEMMA AcceptsAll ==
  ASSUME Coherent, Inv, Chat, NoData, Accepts
  PROVE  LET h == Act(s_curfsm, EofTrans.action, NUL, hp)
         IN  /\ Pos = Len(resp) /\ sw = "input" /\ ~Asking
             /\ s_curfsm = "init"   => got = 2 /\ h.ips1 = LoginPs1
             /\ s_curfsm # "init"   => got > 2
             /\ s_curfsm = "inchar" => wrote[got] # NL
             /\ s_curfsm = "cmdout" => /\ wrote[got] = NL /\ reply \in Replies
                                       /\ h.out = reply.out /\ h.ps1 = reply.ps1
<1> DEFINE f == s_curfsm
           st == curst[f]
           h == Act(f, Does(f, st, "T_EOF"), NUL, hp)
           p == Pos
           n == Len(resp)
<1>1. /\ Stream /\ f \in Fsm /\ st \in FsmStates[f] /\ s_state = "BUSY" /\ hp \in Hp
      /\ Place(f, p, st, hp)
  BY DEF Chat, Places, NoData, Inv, TypeOK
<1>2. isaccepting(To(f, st, "T_EOF")) /\ EofTrans.action = Does(f, st, "T_EOF")
  BY DEF Accepts, EofTrans, To, Does
<1>3. /\ f = "init" => st = "S_CM4"
      /\ f = "inchar" => st = "S_CM2"
      /\ f = "cmdout" => st \in {"S_CM2", "S_CM3"}
  BY <1>1, <1>2, AcceptsOnly
<1>4. p \in Nat /\ n \in Nat /\ p <= n
  <2>1. p \in Nat /\ n \in Nat /\ done \in Nat /\ done <= n /\ p <= done
    BY <1>1, Counts
  <2> HIDE DEF p, n
  <2>2. QED
    BY <2>1
<1>5. \A i \in Nat : p = i + 2 /\ EseqAt(resp, i) => p = n
  BY <1>1, LastEseq
<1>6. /\ \A e : Act(e, "act_nop", NUL, hp) = hp
      /\ Act("cmdout", "act_noout", NUL, hp).out = <<>>
      /\ Act("cmdout", "act_noout", NUL, hp).ps1 = hp.out
  <2>1. NUL \in Byte
    BY DEF Byte
  <2>2. QED
    BY <1>1, <2>1, ActFields
<1> HIDE DEF p, f, st
<1>7. CASE Prompted(f, p, st, hp)
  <2>1. f = "init" /\ sw = "input" /\ got = 2 /\ ~Asking /\ IsText(resp, LoginPs1)
          /\ PromptAt(p, st, hp.ips1, LoginPs1) /\ st = "S_CM4"
    BY <1>3, <1>7 DEF Prompted
  <2>2. p = Len(LoginPs1) + 4 /\ Recorded(hp.ips1, LoginPs1, Len(LoginPs1))
    BY <2>1 DEF PromptAt, Enclosed
  <2>3. p = n
    BY <2>1, <2>2 DEF IsText
  <2>4. hp.ips1 = LoginPs1
    BY <2>2, RecordedAll, DialogueAssumption
  <2>5. h = hp
    BY <1>6, <2>1, InitTable, Zenon
  <2>6. f # "cmdout" /\ f # "inchar"
    BY <2>1
  <2> HIDE DEF h
  <2>7. QED
    BY <1>2, <2>1, <2>3, <2>4, <2>5, <2>6, Zenon DEF h, p, f, n
<1>8. CASE Echoed(f, p, st)
  <2>1. f = "inchar" /\ sw = "input" /\ ~Asking /\ got > 2 /\ wrote[got] # NL /\ IsEcho(resp)
          /\ EchoAt(p, st) /\ st = "S_CM2"
    BY <1>3, <1>8 DEF Echoed
  <2>2. p \in {5, 7} /\ n \in {5, 7} /\ EseqAt(resp, 3)
    BY <2>1 DEF EchoAt, IsEcho
  <2>3. p = n
    <3>1. CASE p = 5
      <4>1. p = 3 + 2 /\ 3 \in Nat
        BY <3>1
      <4>2. QED
        BY <1>5, <2>2, <4>1
    <3>2. CASE p = 7
      <4> HIDE DEF n
      <4>1. QED
        BY <1>4, <2>2, <3>2
    <3>3. QED
      BY <2>2, <3>1, <3>2
  <2>4. f # "cmdout" /\ f # "init"
    BY <2>1
  <2>5. QED
    BY <2>1, <2>3, <2>4, Zenon DEF p, f, n
<1>9. CASE Replied(f, p, st, hp)
  <2>1. f = "cmdout" /\ sw = "input" /\ ~Asking /\ got > 2 /\ wrote[got] = NL
          /\ reply \in Replies /\ IsReply(resp, reply) /\ ReplyAt(p, st, hp, reply)
          /\ st \in {"S_CM2", "S_CM3"}
    BY <1>3, <1>9 DEF Replied
  <2> DEFINE o == reply.out
             u == reply.ps1
             t == First(reply)
  <2>2. o \in Seq(Plain) /\ u \in Seq(Plain) /\ t \in Seq(Plain)
    <3>1. reply \in [out : Seq(Plain), ps1 : Seq(Plain) \ {<<>>}]
      BY <2>1, DialogueAssumption
    <3>2. QED
      BY <3>1 DEF First
  <2>3. p = n /\ h.out = o /\ h.ps1 = u
    <3>1. CASE FirstAt(p, st, hp, t)
      <4>1. hp.ps1 = <<>> /\ p = Len(t) + 4 /\ st = "S_CM2" /\ Recorded(hp.out, t, Len(t))
        BY <2>1, <3>1 DEF FirstAt, Enclosed
      <4>2. hp.out = t
        BY <2>2, <4>1, RecordedAll
      <4>3. h.out = <<>> /\ h.ps1 = t
        <5>1. Does("cmdout", "S_CM2", "T_EOF") = "act_noout"
          BY CmdoutTable, Zenon
        <5>2. h = Act("cmdout", "act_noout", NUL, hp)
          BY <2>1, <4>1, <5>1
        <5>3. QED
          BY <1>6, <4>2, <5>2
      <4>4. EseqAt(resp, 2 + Len(t))
        BY <2>1 DEF IsReply, IsText, IsOutput, First
      <4>5. p = n
        <5> DEFINE l == Len(t)
        <5>1. l \in Nat
          BY <2>2
        <5> HIDE DEF l
        <5>2. 2 + l \in Nat /\ l + 4 = (2 + l) + 2
          BY <5>1
        <5>3. QED
          BY <1>5, <4>1, <4>4, <5>2 DEF l
      <4>6. o = <<>>
        <5>1. ASSUME o # <<>> PROVE FALSE
          <6>1. t = o /\ n = Len(o) + Len(u) + 6
            BY <2>1, <5>1 DEF First, IsReply, IsOutput
          <6> DEFINE l == Len(o)
                     k == Len(u)
          <6>2. l \in Nat /\ k \in Nat /\ n = l + k + 6 /\ p = l + 4
            BY <2>2, <4>1, <6>1
          <6> HIDE DEF l, k, n
          <6>3. p # n
            BY <6>2
          <6>4. QED
            BY <4>5, <6>3 DEF n
        <5>2. QED
          BY <5>1
      <4>7. t = u
        BY <4>6 DEF First
      <4>8. QED
        BY <4>3, <4>5, <4>6, <4>7
    <3>2. CASE o # <<>> /\ SecondAt(p, st, hp, o, u)
      <4>1. Recorded(hp.out, o, Len(o)) /\ p = Len(o) + Len(u) + 6 /\ st = "S_CM3"
              /\ Recorded(hp.ps1, u, Len(u))
        BY <2>1, <3>2 DEF SecondAt
      <4>2. hp.out = o /\ hp.ps1 = u
        BY <2>2, <4>1, RecordedAll
      <4>3. h = hp
        <5>1. Does("cmdout", "S_CM3", "T_EOF") = "act_nop"
          BY CmdoutTable, Zenon
        <5>2. h = Act("cmdout", "act_nop", NUL, hp)
          BY <2>1, <4>1, <5>1
        <5>3. QED
          BY <1>6, <5>2
      <4>4. p = n
        BY <2>1, <3>2, <4>1 DEF IsReply, IsOutput
      <4>5. QED
        BY <4>2, <4>3, <4>4
    <3>3. QED
      BY <2>1, <3>1, <3>2 DEF ReplyAt
  <2>4. f # "init" /\ f # "inchar"
    BY <2>1
  <2> HIDE DEF h
  <2>5. QED
    BY <1>2, <2>1, <2>3, <2>4, Zenon DEF h, p, f, st, n
<1>10. ~Greeted(f, p, st, hp)
  BY <1>3 DEF Greeted, GreetingAt
<1>11. ~Requested(f, p, st, hp)
  BY <1>3 DEF Requested, RequestAt
<1>12. ~Typed(f, st, hp)
  BY <1>3 DEF Typed
<1>13. QED
  BY <1>1, <1>7, <1>8, <1>9, <1>10, <1>11, <1>12, Zenon DEF Place

\* One more byte of the line.
LEMMA BusyNextByteStep ==
  ASSUME Coherent, Inv, Chat, BusyNextByte, UNCHANGED swVars
  PROVE  Stream' /\ Turns' /\ Places' /\ Faithful' /\ exit' = exit
<1>1. Stream /\ Turns /\ NoData /\ Accepts
  BY DEF Chat, BusyNextByte
<1>2. Pos = Len(resp) /\ sw = "input" /\ ~Asking
  BY <1>1, AcceptsAll
<1>3. /\ s_state' = "WRITING"
      /\ UNCHANGED <<sw, resp, done, got, reply, wrote, s_writebuf, s_readbuf, fromSw, eaten, pc, exit>>
  BY DEF BusyNextByte, bufVars, envVars, histVars, swVars
<1>4. Rest' = Rest
  BY <1>3 DEF Rest
<1>5. Stream' /\ Pos' = Pos
  BY <1>1, <1>3, <1>4, StreamKept
<1>6. Turns'
  BY <1>1, <1>2, <1>3, <1>5 DEF Turns, Asking
<1>7. Places' /\ Faithful'
  BY <1>3 DEF Places, Faithful
<1>8. QED
  BY <1>3, <1>5, <1>6, <1>7

LEMMA CStrEmpty == CStr(<<>>) = <<>>
<1> DEFINE nuls == {i \in 1..Len(<<>>) : <<>>[i] = NUL}
<1>1. nuls = {}
  OBVIOUS
<1> HIDE DEF nuls
<1>2. QED
  BY <1>1 DEF CStr, nuls

\* What is shown is what the switch has answered.
LEMMA BusyDoneStep ==
  ASSUME Coherent, Inv, Chat, BusyDone, UNCHANGED swVars
  PROVE  Stream' /\ Turns' /\ Places' /\ Faithful' /\ exit' = exit
<1>1. Stream /\ Turns /\ NoData /\ Accepts /\ s_outbuf = <<>> /\ s_curfsm \in Fsm
  BY DEF Chat, BusyDone, NoData, Inv, Shape, TypeOK
<1> DEFINE h == Act(s_curfsm, EofTrans.action, NUL, hp)
<1>2. /\ Pos = Len(resp) /\ sw = "input" /\ ~Asking
      /\ s_curfsm = "init"   => h.ips1 = LoginPs1
      /\ s_curfsm = "cmdout" => h.out = reply.out /\ h.ps1 = reply.ps1
  BY <1>1, AcceptsAll
<1>3. /\ hp' = h
      /\ s_outbuf' = Output(s_curfsm, hp') /\ s_ps1buf' = Prompt(s_curfsm, hp') /\ s_state' = "READY"
      /\ UNCHANGED <<sw, resp, done, got, reply, wrote, s_curfsm, s_writebuf, s_readbuf, fromSw,
                     eaten, pc, exit>>
  BY <1>1 DEF BusyDone, EnterFinal, envVars, histVars, swVars
<1> HIDE DEF h
<1>4. Rest' = Rest
  BY <1>3 DEF Rest
<1>5. Stream' /\ Pos' = Pos
  BY <1>1, <1>3, <1>4, StreamKept
<1>6. Turns'
  BY <1>1, <1>2, <1>3, <1>5 DEF Turns, Asking
<1>7. Places'
  BY <1>3 DEF Places
<1>8. Faithful'
  <2>1. CASE s_curfsm = "init"
    <3>1. OnScreen' = [out |-> <<>>, ps1 |-> CStr(LoginPs1)]
      BY <1>2, <1>3, <2>1 DEF OnScreen, Output, Prompt
    <3>2. Show([NoReply EXCEPT !.ps1 = LoginPs1]) = [out |-> <<>>, ps1 |-> CStr(LoginPs1)]
      BY CStrEmpty DEF Show, NoReply
    <3>3. QED
      BY <1>3, <2>1, <3>1, <3>2, Zenon DEF Faithful
  <2>2. CASE s_curfsm = "cmdout"
    <3>1. OnScreen' = [out |-> CStr(reply.out), ps1 |-> CStr(reply.ps1)]
      BY <1>2, <1>3, <2>2 DEF OnScreen, Output, Prompt
    <3>2. OnScreen' = Show(reply)' /\ s_curfsm' = "cmdout" /\ "cmdout" # "init"
      BY <1>3, <2>2, <3>1 DEF Show
    <3>3. QED
      BY <3>2, Zenon DEF Faithful
  <2>3. CASE s_curfsm = "inchar"
    <3>1. OnScreen' = NoReply
      BY <1>3, <2>3 DEF OnScreen, Output, Prompt, NoReply
    <3>2. s_curfsm' # "cmdout" /\ s_curfsm' # "init"
      BY <1>3, <2>3
    <3>3. QED
      BY <3>1, <3>2, Zenon DEF Faithful
  <2>4. QED
    BY <1>1, <2>1, <2>2, <2>3 DEF Fsm
<1>9. QED
  BY <1>3, <1>5, <1>6, <1>7, <1>8

-----------------------------------------------------------------------------
(* The switch reads a byte and answers *)

\* It has said all it had to say, so the new response starts from nothing.
LEMMA NewResponse ==
  ASSUME Inv, Chat, NEW c, Reads(c), resp' \in Seq(Byte), sw' \in {"report", "input"}
  PROVE  /\ Asking /\ ~Asking' /\ got' = got + 1 /\ got' = Len(wrote) /\ wrote[got'] = c /\ got \in Nat
         /\ s_state = "BUSY" /\ Pos' = 0 /\ Stream' /\ Faithful'
         /\ sw' = "input" => (got' >= 2 => Turns')
         /\ sw' = "report" => Turns'
<1>1. /\ Stream /\ Turns /\ done = Len(resp) /\ c = wrote[got + 1] /\ got' = got + 1 /\ done' = 0
      /\ got < Len(wrote) /\ UNCHANGED vars
  BY DEF Chat, Reads
<1>2. /\ Asking /\ s_state = "BUSY" /\ pc # "feed" /\ Pos = Len(resp) /\ got + 1 = Len(wrote) /\ got \in Nat
      /\ s_writebuf \in Seq(Plain)
  BY <1>1 DEF Turns, Asking
<1>3. UNCHANGED <<s_readbuf, fromSw, eaten, wrote, s_state, s_writebuf, s_curfsm, curst, hp, pc>>
  BY <1>1 DEF vars, bufVars, fsmVars, envVars, histVars
<1>4. Rest' = Rest
  BY <1>3 DEF Rest
<1> DEFINE r == Len(Rest)
           l == Len(fromSw)
           p == Pos
<1>5. r = 0 /\ l = 0
  <2>1. p + r + l = done /\ p \in Nat /\ r \in Nat /\ l \in Nat /\ p = done
    BY <1>1, <1>2, Counts
  <2> HIDE DEF p, r, l
  <2>2. QED
    BY <2>1
<1>6. Pos' = 0
  <2>1. Pos' = 0 - r - l
    BY <1>1, <1>3, <1>4, Zenon DEF Pos
  <2> HIDE DEF r, l
  <2>2. QED
    BY <1>5, <2>1
<1>7. Stream'
  <2> DEFINE n == Len(resp')
  <2>1. n \in Nat
    OBVIOUS
  <2>2. 0 \in 0..n /\ 0 \in 0..0 /\ ~(0 > 0)
    <3> HIDE DEF n
    <3>1. QED
      BY <2>1
  <2>3. \A s, q : Behind(s, q, Rest', fromSw')
    <3>1. \A k : k \notin 1..0
      OBVIOUS
    <3> HIDE DEF r, l
    <3>2. Len(Rest') = 0 /\ Len(fromSw') = 0
      BY <1>3, <1>4, <1>5 DEF r, l
    <3>3. QED
      BY <3>1, <3>2, Zenon DEF Behind
  <2>4. QED
    BY <1>1, <1>6, <2>2, <2>3, Zenon DEF Stream
<1>8. ~Asking' /\ got' = Len(wrote) /\ wrote[got'] = c
  <2> DEFINE n == Len(wrote)
  <2>1. got' = n /\ wrote' = wrote
    BY <1>1, <1>2, <1>3
  <2>2. n \in Nat
    BY <1>2
  <2> HIDE DEF n
  <2>3. ~(n < n)
    BY <2>2
  <2>4. QED
    BY <1>1, <1>2, <2>1, <2>3 DEF Asking, n
<1>9. got' \in Nat /\ got' <= Len(wrote')
  <2> DEFINE n == Len(wrote)
  <2>1. got' = n /\ wrote' = wrote /\ n \in Nat
    BY <1>1, <1>2, <1>3
  <2> HIDE DEF n
  <2>2. n <= n
    BY <2>1
  <2>3. QED
    BY <2>1, <2>2 DEF n
<1>10. sw' = "input" => (got' >= 2 => Turns')
  BY <1>2, <1>3, <1>8, <1>9 DEF Turns
<1>11. sw' = "report" => Turns'
  BY <1>2, <1>3, <1>8, <1>9 DEF Turns
<1>12. Faithful'
  BY <1>2, <1>3 DEF Faithful
<1>13. QED
  BY <1>1, <1>2, <1>6, <1>7, <1>8, <1>10, <1>11, <1>12

\* Where the machine is when the switch reads: behind a complete response.
LEMMA PlaceOfReader ==
  ASSUME Inv, Chat, Asking
  PROVE  LET st == curst[s_curfsm]
         IN  /\ sw = "key" => s_curfsm = "init" /\ st = "S_CM2" /\ got = 0 /\ hp.ips1 = <<>>
             /\ sw = "report" => s_curfsm = "init" /\ st = "S_LAS" /\ got = 1 /\ hp.ips1 = <<>>
             /\ sw = "input" => got >= 2 /\ Typed(s_curfsm, st, hp)
<1> DEFINE f == s_curfsm
           st == curst[f]
           p == Pos
<1>1. s_state = "BUSY" /\ p = Len(resp) /\ sw \in {"key", "report", "input"} /\ (sw = "input" => got >= 2)
  BY DEF Chat, Turns
<1>2. Place(f, p, st, hp)
  BY <1>1 DEF Chat, Places
<1> HIDE DEF f, p, st
<1>3. Greeted(f, p, st, hp) => sw = "key" /\ f = "init" /\ st = "S_CM2" /\ got = 0 /\ hp.ips1 = <<>>
  <2> SUFFICES ASSUME Greeted(f, p, st, hp) PROVE st = "S_CM2"
    BY Zenon DEF Greeted
  <2>1. p = 6
    BY <1>1 DEF Greeted, IsGreeting
  <2>2. p # 0 /\ p # 1 /\ p # 3 /\ p # 4
    BY <2>1
  <2>3. QED
    BY <2>2, Zenon DEF Greeted, GreetingAt
<1>4. Requested(f, p, st, hp) => sw = "report" /\ f = "init" /\ st = "S_LAS" /\ got = 1 /\ hp.ips1 = <<>>
  <2> SUFFICES ASSUME Requested(f, p, st, hp) PROVE st = "S_LAS"
    BY Zenon DEF Requested
  <2>1. p = 3
    BY <1>1 DEF Requested, IsRequest
  <2>2. p \notin {0, 2}
    BY <2>1
  <2>3. QED
    BY <2>2, Zenon DEF Requested, RequestAt
<1>5. Typed(f, st, hp) => sw = "input"
  BY DEF Typed
<1>6. ~Prompted(f, p, st, hp) /\ ~Echoed(f, p, st) /\ ~Replied(f, p, st, hp)
  BY Zenon DEF Prompted, Echoed, Replied
<1>7. "key" # "report" /\ "key" # "input" /\ "report" # "input"
  OBVIOUS
<1>8. QED
  BY <1>1, <1>2, <1>3, <1>4, <1>5, <1>6, <1>7, Zenon DEF Place, f, st

\* At the start of a response nothing has been recorded.
LEMMA EnclosedStart ==
  ASSUME NEW t, NEW before, NEW start, NEW inside, NEW behind
  PROVE  Enclosed(0, before, <<>>, t, before, start, inside, behind)
BY RecordedNone, Zenon DEF Enclosed

LEMMA SwKeyStep ==
  ASSUME Inv, Chat, SwKey
  PROVE  Stream' /\ Turns' /\ Places' /\ Faithful'
<1>1. sw = "key" /\ Reads(AnyKey) /\ sw' = "report" /\ resp' = Eseq \o Words
  BY DEF SwKey
<1>2. resp' \in Seq(Byte) /\ IsRequest(resp')
  BY <1>1, RequestBytes
<1>3. Asking /\ got' = got + 1 /\ Pos' = 0 /\ Stream' /\ Turns' /\ Faithful'
  BY <1>1, <1>2, NewResponse
<1>4. s_curfsm = "init" /\ curst[s_curfsm] = "S_CM2" /\ got = 0 /\ hp.ips1 = <<>>
  BY <1>1, <1>3, PlaceOfReader
<1>5. s_curfsm' = s_curfsm /\ curst' = curst /\ hp' = hp
  BY <1>1 DEF Reads, vars, fsmVars
<1>6. RequestAt(0, "S_CM2") /\ got' = 1
  BY <1>3, <1>4 DEF RequestAt
<1>7. Requested(s_curfsm, Pos, curst[s_curfsm], hp)'
  BY <1>1, <1>2, <1>3, <1>4, <1>5, <1>6, Zenon DEF Requested
<1>8. QED
  BY <1>3, <1>7, Zenon DEF Places, Place

LEMMA SwReportStep ==
  ASSUME Inv, Chat, SwReport
  PROVE  Stream' /\ Turns' /\ Places' /\ Faithful'
<1>1. sw = "report" /\ Reads(Report) /\ sw' = "input" /\ resp' = Eseq \o LoginPs1 \o Eseq
  BY DEF SwReport
<1>2. resp' \in Seq(Byte) /\ IsText(resp', LoginPs1)
  <2>1. LoginPs1 \in Seq(Byte)
    BY DialogueAssumption, SeqMonotonic DEF Plain
  <2>2. QED
    BY <1>1, <2>1, TextBytes
<1>3. Asking /\ ~Asking' /\ got' = got + 1 /\ Pos' = 0 /\ Stream' /\ Faithful' /\ (got' >= 2 => Turns')
  BY <1>1, <1>2, NewResponse
<1>4. s_curfsm = "init" /\ curst[s_curfsm] = "S_LAS" /\ got = 1 /\ hp.ips1 = <<>>
  BY <1>1, <1>3, PlaceOfReader
<1>5. s_curfsm' = s_curfsm /\ curst' = curst /\ hp' = hp
  BY <1>1 DEF Reads, vars, fsmVars
<1>6. got' = 2 /\ Turns'
  BY <1>3, <1>4
<1>7. PromptAt(0, "S_LAS", <<>>, LoginPs1)
  BY EnclosedStart, Zenon DEF PromptAt
<1>8. Prompted(s_curfsm, Pos, curst[s_curfsm], hp)'
  BY <1>1, <1>2, <1>3, <1>4, <1>5, <1>6, <1>7, Zenon DEF Prompted
<1>9. QED
  BY <1>3, <1>6, <1>8, Zenon DEF Places, Place

LEMMA SwEchoStep ==
  ASSUME Inv, Chat, NEW c \in Byte, SwEcho(c)
  PROVE  Stream' /\ Turns' /\ Places' /\ Faithful'
<1>1. /\ sw = "input" /\ c # NL /\ Reads(c) /\ sw' = "input"
      /\ resp' \in {Eseq \o <<c>> \o Eseq, Eseq \o <<c>> \o Eseq \o Eseq}
  BY DEF SwEcho
<1>2. Asking /\ wrote[got + 1] = c
  BY <1>1 DEF Reads, Asking
<1>3. got >= 2 /\ Typed(s_curfsm, curst[s_curfsm], hp) /\ got \in Nat
  BY <1>1, <1>2, PlaceOfReader DEF Chat, Turns
<1>4. s_curfsm = "inchar" /\ curst[s_curfsm] = "S_STA" /\ c \in Plain
  BY <1>1, <1>2, <1>3 DEF Typed, FsmFor
<1>5. resp' \in Seq(Byte) /\ IsEcho(resp')
  BY <1>1, <1>4, EchoBytes
<1>6. ~Asking' /\ got' = got + 1 /\ wrote[got'] = c /\ Pos' = 0 /\ Stream' /\ Faithful' /\ (got' >= 2 => Turns')
  BY <1>1, <1>5, NewResponse
<1>7. got' > 2 /\ Turns'
  BY <1>3, <1>6
<1>8. s_curfsm' = s_curfsm /\ curst' = curst /\ wrote' = wrote
  BY <1>1 DEF Reads, vars, fsmVars, histVars
<1>9. EchoAt(0, "S_STA")
  BY DEF EchoAt
<1>10. Echoed(s_curfsm, Pos, curst[s_curfsm])'
  BY <1>1, <1>4, <1>5, <1>6, <1>7, <1>8, <1>9, Zenon DEF Echoed
<1>11. QED
  BY <1>6, <1>7, <1>10, Zenon DEF Places, Place

LEMMA SwReplyStep ==
  ASSUME Inv, Chat, NEW r \in Replies, SwReply(r)
  PROVE  Stream' /\ Turns' /\ Places' /\ Faithful'
<1>1. /\ sw = "input" /\ Reads(NL) /\ sw' = "input" /\ reply' = r
      /\ resp' = IF r.out = <<>> THEN Eseq \o r.ps1 \o Eseq
                 ELSE Eseq \o r.out \o Eseq \o r.ps1 \o Eseq
  BY DEF SwReply
<1>2. Asking /\ wrote[got + 1] = NL
  BY <1>1 DEF Reads, Asking
<1>3. got >= 2 /\ Typed(s_curfsm, curst[s_curfsm], hp) /\ got \in Nat
  BY <1>1, <1>2, PlaceOfReader DEF Chat, Turns
<1>4. s_curfsm = "cmdout" /\ curst[s_curfsm] = "S_STA" /\ hp.out = <<>> /\ hp.ps1 = <<>>
  BY <1>2, <1>3 DEF Typed, FsmFor
<1>5. resp' \in Seq(Byte) /\ IsReply(resp', r)
  BY <1>1, ReplyBytes, DialogueAssumption
<1>6. ~Asking' /\ got' = got + 1 /\ wrote[got'] = NL /\ Pos' = 0 /\ Stream' /\ Faithful' /\ (got' >= 2 => Turns')
  BY <1>1, <1>5, NewResponse
<1>7. got' > 2 /\ Turns'
  BY <1>3, <1>6
<1>8. s_curfsm' = s_curfsm /\ curst' = curst /\ wrote' = wrote /\ hp' = hp
  BY <1>1 DEF Reads, vars, fsmVars, histVars
<1>9. ReplyAt(0, "S_STA", hp, r)
  <2>1. Enclosed(0, "S_STA", hp.out, First(r), "S_STA", "S_CM1", "S_OUT", "S_CM2")
    BY <1>4, EnclosedStart
  <2>2. QED
    BY <1>4, <2>1, Zenon DEF ReplyAt, FirstAt
<1>10. Replied(s_curfsm, Pos, curst[s_curfsm], hp)'
  BY <1>1, <1>4, <1>5, <1>6, <1>7, <1>8, <1>9, Zenon DEF Replied
<1>11. QED
  BY <1>6, <1>7, <1>10, Zenon DEF Places, Place

-----------------------------------------------------------------------------
(* The theorems *)

\* The program ends only for want of ssh.
LEMMA EndsStep ==
  ASSUME EndsOnlyWithSsh, (eof /\ eof') \/ (exit' = exit /\ (eof => eof')),
         exit' = exit \/ exit' \in {"read: EOF", "write"}
  PROVE  EndsOnlyWithSsh'
BY DEF EndsOnlyWithSsh

LEMMA DInitInv == DInit => DInv
<1> SUFFICES ASSUME DInit PROVE DInv
  OBVIOUS
<1> USE DEF DInit, Init
<1>1. Inv
  BY InitInv
<1>2. resp \in Seq(Byte) /\ IsGreeting(resp)
  BY GreetingBytes
<1>3. /\ sw = "key" /\ got = 0 /\ done = 0 /\ wrote = <<>> /\ fromSw = <<>> /\ s_readbuf = <<>> /\ eaten = 0
      /\ s_state = "BUSY" /\ s_writebuf = <<>> /\ exit = "none" /\ s_curfsm = "init"
      /\ curst["init"] = "S_STA" /\ hp.ips1 = <<>>
  BY DEF Fsm, HpInit
<1> HIDE DEF DInit, Init
<1>4. Rest = <<>>
  BY <1>1, <1>3, RestIsAll
<1>5. Pos = 0
  <2> DEFINE l == Len(Rest)
             m == Len(fromSw)
  <2>1. l = 0 /\ m = 0 /\ done = 0
    BY <1>3, <1>4
  <2>2. Pos = done - l - m
    BY DEF Pos
  <2> HIDE DEF l, m
  <2>3. QED
    BY <2>1, <2>2
<1>6. ~Asking
  BY <1>3 DEF Asking
<1>7. Stream
  <2>1. 0 \in 0..Len(resp)
    BY <1>2
  <2>2. QED
    BY <1>2, <1>3, <1>4, <1>5, <2>1 DEF Stream, Behind
<1>8. Turns
  BY <1>3, <1>6 DEF Turns
<1>9. Places
  <2>1. GreetingAt(0, "S_STA")
    BY DEF GreetingAt
  <2>2. Greeted(s_curfsm, Pos, curst[s_curfsm], hp)
    BY <1>2, <1>3, <1>5, <2>1, Zenon DEF Greeted
  <2>3. QED
    BY <2>2, Zenon DEF Places, Place
<1>10. Faithful /\ EndsOnlyWithSsh
  BY <1>3 DEF Faithful, EndsOnlyWithSsh
<1>11. QED
  BY <1>1, <1>7, <1>8, <1>9, <1>10 DEF DInv

LEMMA DStepInv ==
  ASSUME Coherent, DInv, [DNext]_dvars
  PROVE  DInv'
<1>1. Inv /\ Chat /\ EndsOnlyWithSsh
  BY DEF DInv, Chat
<1> DEFINE Kept5 == Stream' /\ Turns' /\ Places' /\ Faithful' /\ EndsOnlyWithSsh'
<1>2. CASE Program /\ UNCHANGED swVars
  <2>1. Inv'
    BY <1>1, <1>2, ProgramInv
  <2>2. CASE NeedMoreData \/ BusyWait \/ CoreSelect
    <3>1. Stream' /\ Turns' /\ Places' /\ Faithful'
      BY <1>1, <1>2, <2>2, QuietSteps
    <3>2. exit' = exit /\ eof' = eof
      BY <1>1, <2>2 DEF NeedMoreData, BusyWait, CoreSelect, C, envVars, Inv, Flag, NoData, Running
    <3>3. QED
      BY <1>1, <2>1, <3>1, <3>2, EndsStep DEF DInv
  <2>3. CASE OperWritingFails \/ BusyEof \/ FeedWriteFails
    <3>0. Room # 0
      <4>1. Room > 0
        BY <1>1, RoomThere DEF Inv
      <4>2. QED
        BY <4>1
    <3>1. eof /\ \E why \in {"read: EOF", "write"} : C(why)
      BY <1>1, <2>3, <3>0 DEF OperWritingFails, BusyEof, FeedWriteFails, Inv, Shape, Running
    <3>2. Stream' /\ Turns' /\ Places' /\ Faithful'
      BY <1>1, <1>2, <3>1, QuietSteps
    <3>3. eof' /\ exit' \in {"read: EOF", "write"}
      BY <3>1 DEF C, envVars
    <3>4. QED
      BY <1>1, <2>1, <3>1, <3>2, <3>3, EndsStep DEF DInv
  <2>4. CASE FeedToken \/ BusyRead
    <3>1. Stream' /\ Turns' /\ Places' /\ Faithful'
      BY <1>1, <1>2, <2>4, FeedTokenStep, BusyReadStep
    <3>2. exit' = exit /\ eof' = eof
      BY <2>4 DEF FeedToken, BusyRead, envVars
    <3>3. QED
      BY <1>1, <2>1, <3>1, <3>2, EndsStep DEF DInv
  <2>5. CASE FeedReturn \/ OperWriting \/ BusyNextByte \/ BusyDone
    <3>1. Stream' /\ Turns' /\ Places' /\ Faithful' /\ exit' = exit
      BY <1>1, <1>2, <2>5, FeedReturnStep, WriteByteStep, BusyNextByteStep, BusyDoneStep
    <3>2. eof' = eof
      BY <2>5 DEF FeedReturn, OperWriting, WriteByte, BusyNextByte, BusyDone, C, envVars
    <3>3. QED
      BY <1>1, <2>1, <3>1, <3>2, EndsStep DEF DInv
  <2>6. ~FeedPanic /\ ~FirstAnswer
    <3>1. FirstAnswer => pc = "feed" /\ BothDue
      BY DEF FirstAnswer, Running
    <3>2. QED
      BY <1>1, <3>1, FeedNeverPanics, OneAtATime
  <2>7. QED
    BY <1>2, <2>2, <2>3, <2>4, <2>5, <2>6 DEF Program, Busy, Feed
<1>3. CASE SshExits /\ UNCHANGED swVars
  <2>1. Stream' /\ Turns' /\ Places' /\ Faithful'
    BY <1>1, <1>3, QuietSteps
  <2>2. exit' = exit /\ (eof => eof')
    BY <1>3 DEF SshExits
  <2>3. Inv'
    BY <1>1, <1>3, SshInv
  <2>4. QED
    BY <1>1, <2>1, <2>2, <2>3, EndsStep DEF DInv
<1>4. CASE User /\ UNCHANGED swVars
  <2>1. PICK line \in Lines : CoreWrite(line)
    BY <1>4 DEF User
  <2>2. Stream' /\ Turns' /\ Places' /\ Faithful' /\ exit' = exit
    BY <1>1, <1>4, <2>1, CoreWriteStep
  <2>3. eof' = eof
    BY <2>1 DEF CoreWrite, C, sc_write, envVars
  <2>4. Inv'
    BY <1>1, <2>1, CoreWriteInv
  <2>5. QED
    BY <1>1, <2>2, <2>3, <2>4, EndsStep DEF DInv
<1>5. CASE UNCHANGED vars /\ UNCHANGED swVars
  <2>1. Stream' /\ Turns' /\ Places' /\ Faithful'
    BY <1>1, <1>5, QuietSteps
  <2>2. exit' = exit /\ eof' = eof
    BY <1>5 DEF vars, envVars
  <2>3. Inv'
    BY <1>1, <1>5, StutterInv
  <2>4. QED
    BY <1>1, <2>1, <2>2, <2>3, EndsStep DEF DInv
<1>6. CASE SwSend
  <2>1. Stream' /\ Turns' /\ Places' /\ Faithful'
    BY <1>1, <1>6, SwSendStep
  <2>2. PICK m \in done+1..Len(resp) : SshSends(SubSeq(resp, done + 1, m))
    BY <1>6 DEF SwSend
  <2>3. exit' = exit /\ eof' = eof
    BY <2>2 DEF SshSends
  <2>4. Inv'
    <3>1. SubSeq(resp, done + 1, m) \in Seq(Byte) \ {<<>>}
      <4> DEFINE n == Len(resp)
                 s == SubSeq(resp, done + 1, m)
      <4>1. resp \in Seq(Byte) /\ n \in Nat /\ done \in Nat /\ m \in done+1..n
        BY <1>1 DEF Chat, Stream
      <4> HIDE DEF n
      <4>2. m \in Nat /\ done <= m /\ m <= n /\ m - done > 0
        BY <4>1
      <4>3. s \in Seq(Byte) /\ Len(s) = m - done
        BY <4>1, <4>2, Part DEF n
      <4> HIDE DEF s
      <4>4. s # <<>>
        BY <4>2, <4>3
      <4>5. QED
        BY <4>3, <4>4 DEF s
    <3>2. QED
      BY <1>1, <2>2, <3>1, SshInv
  <2>5. QED
    BY <1>1, <2>1, <2>3, <2>4, EndsStep DEF DInv
<1>7. CASE SwKey \/ SwReport \/ (\E c \in Byte : SwEcho(c)) \/ \E r \in Replies : SwReply(r)
  <2>1. Stream' /\ Turns' /\ Places' /\ Faithful'
    BY <1>1, <1>7, SwKeyStep, SwReportStep, SwEchoStep, SwReplyStep
  <2>2. UNCHANGED vars
    BY <1>7 DEF SwKey, SwReport, SwEcho, SwReply, Reads
  <2>3. exit' = exit /\ eof' = eof
    BY <2>2 DEF vars, envVars
  <2>4. Inv'
    BY <1>1, <2>2, StutterInv
  <2>5. QED
    BY <1>1, <2>1, <2>3, <2>4, EndsStep DEF DInv
<1>8. QED
  BY <1>2, <1>3, <1>4, <1>5, <1>6, <1>7 DEF DNext, Switch, Idle, dvars

\* Whatever the prompts, the replies and the lines are, and however a coherent
\* connection cuts what the switch says, swh and the switch stay in step.
THEOREM Conversation == Coherent => (DSpec => []DInv)
<1> SUFFICES ASSUME Coherent PROVE DSpec => []DInv
  OBVIOUS
<1>1. DInv /\ [DNext]_dvars => DInv'
  BY DStepInv
<1>2. QED
  BY <1>1, DInitInv, PTL DEF DSpec

\* The next byte goes out only when all of the answer to the last has been
\* eaten.
THEOREM AlwaysInStep == Coherent => (DSpec => []Lockstep)
<1>1. DInv => Lockstep
  <2> SUFFICES ASSUME DInv, s_state \in {"WRITING", "READY"}
               PROVE  fromSw = <<>> /\ s_readbuf = <<>> /\ done = Len(resp) /\ got = Len(wrote)
    BY DEF Lockstep
  <2> DEFINE r == Len(Rest)
             l == Len(fromSw)
             n == Len(resp)
             w == Len(wrote)
             p == Pos
  <2>1. Inv /\ Stream /\ Turns
    BY DEF DInv
  <2>2. p = n /\ ~Asking /\ got \in Nat /\ got <= w /\ s_readbuf = <<>>
    BY <2>1 DEF Turns, Inv, Shape
  <2>3. w \in Nat
    BY <2>1 DEF Inv, TypeOK
  <2>4. got = w
    <3>1. ~(got < w)
      BY <2>2 DEF Asking
    <3> HIDE DEF w
    <3>2. QED
      BY <2>2, <2>3, <3>1
  <2>5. fromSw \in Seq(Byte) /\ r \in Nat /\ l \in Nat /\ n \in Nat /\ done \in Nat /\ done <= n /\ p <= done
          /\ p + r + l = done
    BY <2>1, Counts
  <2>6. done = n /\ l = 0
    <3> HIDE DEF r, l, n, p
    <3>1. QED
      BY <2>2, <2>5
  <2>7. QED
    BY <2>2, <2>4, <2>5, <2>6, EmptySeq
<1>2. QED
  BY <1>1, Conversation, PTL

\* The output and the prompt on the screen are the switch's answer to the last
\* line, complete and of nothing else.
THEOREM ShowsTheAnswer == Coherent => (DSpec => []Faithful)
BY Conversation, PTL DEF DInv

\* No response, however it is cut, is an error for the machines.
THEOREM UnderstandsTheSwitch == Coherent => (DSpec => []EndsOnlyWithSsh)
BY Conversation, PTL DEF DInv
-----------------------------------------------------------------------------
(* swh and the switch are a shell *)

\* Between the login and the next prompt there is something that has been
\* asked.
Entered == s_state # "READY" /\ ~LoggingIn => asked # <<>>

\* The program ends.
LEMMA DieStep ==
  ASSUME exit = "none", exit' # "none", asked' = asked
  PROVE  TheShell!Die
<1>1. Mode # "dead" /\ Mode' = "dead"
  BY DEF Mode
<1>2. Complete' = Complete
  BY DEF Complete
<1>3. Shown' = TheShell!Blank
  BY <1>1 DEF Shown, NoReply, TheShell!Blank
<1>4. QED
  BY <1>1, <1>2, <1>3, Zenon DEF TheShell!Die

\* Nothing changes that the user could see.
LEMMA ShellStutter ==
  ASSUME exit' = exit, asked' = asked, s_state' = "READY" <=> s_state = "READY",
         s_state = "READY" => OnScreen' = OnScreen
  PROVE  UNCHANGED <<Mode, Complete, Shown>>
<1>1. Mode' = Mode
  BY DEF Mode
<1>2. Complete' = Complete
  BY DEF Complete
<1>3. Mode = "ready" => s_state = "READY"
  BY DEF Mode
<1>4. Shown' = Shown
  BY <1>1, <1>3, Zenon DEF Shown, NoReply
<1>5. QED
  BY <1>1, <1>2, <1>4

\* What has been asked ends with a newline if the last byte sent is one.
LEMMA LastAsked ==
  ASSUME Inv, ~LoggingIn, s_writebuf = <<>>, asked # <<>>
  PROVE  asked[Len(asked)] = wrote[Len(wrote)]
<1> DEFINE B == Byte \cup {AnyKey, Report}
           p == <<AnyKey, Report>>
           n == Len(asked)
<1>1. wrote \o <<>> = p \o asked
  BY DEF Inv, LoggedIn
<1>2. wrote \in Seq(B) /\ asked \in Seq(B) /\ p \in Seq(B) /\ Len(p) = 2
  BY SeqMonotonic DEF Inv, TypeOK
<1> HIDE DEF B, p
<1>3. wrote = p \o asked
  BY <1>1, <1>2, ConcatEmptySeq
<1>4. n \in Nat /\ n # 0
  BY <1>2, EmptySeq
<1>5. /\ Len(p \o asked) = 2 + n
      /\ \A i \in 1..2+n : (p \o asked)[i] = IF i <= 2 THEN p[i] ELSE asked[i - 2]
  <2>1. /\ Len(p \o asked) = Len(p) + Len(asked)
        /\ \A i \in 1..Len(p)+Len(asked) :
             (p \o asked)[i] = IF i <= Len(p) THEN p[i] ELSE asked[i - Len(p)]
    BY <1>2, ConcatProperties, Zenon
  <2>2. QED
    BY <1>2, <2>1
<1> HIDE DEF n
<1>6. 2 + n \in 1..2+n /\ ~(2 + n <= 2) /\ (2 + n) - 2 = n
  BY <1>4
<1>7. (p \o asked)[2 + n] = asked[n]
  BY <1>5, <1>6
<1>8. QED
  BY <1>3, <1>5, <1>7, Zenon DEF n

\* The line is accepted.
LEMMA EnterStep ==
  ASSUME Inv, NEW line \in Lines, CoreWrite(line)
  PROVE  TheShell!Enter
<1>1. line \in Seq(Byte) /\ line # <<>> /\ asked \in Seq(Byte)
  BY ScAssumption DEF Inv, TypeOK
<1>2. s_state = "READY" /\ exit = "none" /\ sc_write(line)
  BY DEF CoreWrite, Inv, Shape, TypeOK, States, Running, sc_busy, sc_ready, sc_offline
<1>3. asked' # <<>> /\ s_state' = "WRITING" /\ exit' = "none"
  <2>1. asked' = asked \o line /\ s_state' = "WRITING" /\ exit' = exit
    BY <1>2 DEF sc_write
  <2>2. asked \o line # <<>>
    <3>1. Len(asked \o line) = Len(asked) + Len(line) /\ Len(line) # 0
      BY <1>1, EmptySeq
    <3> DEFINE a == Len(asked)
               l == Len(line)
    <3>2. a \in Nat /\ l \in Nat
      BY <1>1
    <3> HIDE DEF a, l
    <3>3. a + l # 0
      BY <3>1, <3>2 DEF l
    <3>4. Len(asked \o line) # 0
      BY <3>1, <3>3 DEF a, l
    <3>5. QED
      BY <3>4
  <2>3. QED
    BY <1>2, <2>1, <2>2
<1>4. Mode = "ready" /\ Mode' = "running"
  BY <1>2, <1>3 DEF Mode
<1>5. Complete' \in BOOLEAN
  BY DEF Complete
<1>6. Shown' = TheShell!Blank
  BY <1>4 DEF Shown, NoReply, TheShell!Blank
<1>7. QED
  BY <1>4, <1>5, <1>6, Zenon DEF TheShell!Enter

\* A machine has accepted: its text is the answer.
LEMMA AnswerStep ==
  ASSUME Coherent, DInv, Entered, BusyDone, UNCHANGED swVars, Faithful', exit' = exit
  PROVE  TheShell!Login \/ TheShell!Answer
<1>1. /\ Inv /\ Chat /\ NoData /\ Accepts /\ s_writebuf = <<>> /\ s_state = "BUSY" /\ exit = "none"
      /\ s_curfsm \in Fsm /\ wrote \in Seq(Byte \cup {AnyKey, Report})
  BY DEF DInv, Chat, BusyDone, NoData, Running, Inv, TypeOK
<1>2. /\ s_curfsm # "init"   => got > 2
      /\ ~Asking
      /\ s_curfsm = "inchar" => wrote[got] # NL
      /\ s_curfsm = "cmdout" => wrote[got] = NL /\ reply \in Replies
  BY <1>1, AcceptsAll
<1>3. s_state' = "READY" /\ UNCHANGED <<s_curfsm, reply, asked>>
  BY <1>1 DEF BusyDone, C, histVars, swVars
<1>4. got = Len(wrote)
  <2> DEFINE w == Len(wrote)
  <2>1. got \in Nat /\ got <= w /\ w \in Nat /\ ~(got < w)
    BY <1>1, <1>2 DEF Chat, Turns, Asking
  <2> HIDE DEF w
  <2>2. got = w
    BY <2>1
  <2>3. QED
    BY <2>2 DEF w
<1>5. Mode' = "ready" /\ Complete' = Complete /\ Shown' = OnScreen'
  <2>1. Mode' = "ready"
    BY <1>1, <1>3 DEF Mode
  <2>2. QED
    BY <1>3, <2>1 DEF Complete, Shown
<1>6. CASE s_curfsm = "init"
  <2>1. asked = <<>>
    BY <1>1, <1>6 DEF Inv, Login, LoggingIn
  <2>2. Mode = "login"
    BY <1>1, <2>1 DEF Mode
  <2>3. OnScreen' = [out |-> <<>>, ps1 |-> CStr(LoginPs1)]
    <3>1. OnScreen' = Show([NoReply EXCEPT !.ps1 = LoginPs1])
      BY <1>3, <1>6, Zenon DEF Faithful
    <3>2. Show([NoReply EXCEPT !.ps1 = LoginPs1]) = [out |-> <<>>, ps1 |-> CStr(LoginPs1)]
      BY CStrEmpty DEF Show, NoReply
    <3>3. QED
      BY <3>1, <3>2, Zenon
  <2>4. TheShell!Login
    BY <1>5, <2>2, <2>3, Zenon DEF TheShell!Login
  <2>5. QED
    BY <2>4
<1>7. CASE s_curfsm # "init"
  <2>1. asked # <<>> /\ ~LoggingIn
    BY <1>1, <1>7 DEF Entered, LoggingIn
  <2>2. Mode = "running"
    BY <1>1, <2>1 DEF Mode
  <2>3. Complete <=> wrote[got] = NL
    <3>1. asked[Len(asked)] = wrote[got]
      BY <1>1, <1>4, <2>1, LastAsked
    <3>2. QED
      BY <2>1, <3>1, Zenon DEF Complete
  <2>4. CASE s_curfsm = "cmdout"
    <3>1. Complete /\ reply \in Replies
      BY <1>2, <2>3, <2>4
    <3>2. OnScreen' = Show(reply)
      <4>1. OnScreen' = Show(reply')
        <5>1. "cmdout" # "init"
          OBVIOUS
        <5>2. QED
          BY <1>3, <2>4, <5>1, Zenon DEF Faithful, Show
      <4>2. QED
        BY <1>3, <4>1, Zenon DEF Show
    <3>3. OnScreen' \in {Show(r) : r \in Replies}
      BY <3>1, <3>2, Zenon
    <3>4. TheShell!Answer
      BY <1>5, <2>2, <3>1, <3>3, Zenon DEF TheShell!Answer
    <3>5. QED
      BY <3>4
  <2>5. CASE s_curfsm = "inchar"
    <3>1. ~Complete
      BY <1>2, <2>3, <2>5
    <3>2. OnScreen' = NoReply
      <4>1. "inchar" # "init" /\ "inchar" # "cmdout"
        OBVIOUS
      <4>2. QED
        BY <1>3, <2>5, <4>1, Zenon DEF Faithful, NoReply
    <3>3. OnScreen' \in {TheShell!Blank}
      BY <3>2 DEF NoReply, TheShell!Blank
    <3>4. TheShell!Answer
      BY <1>5, <2>2, <3>1, <3>3, Zenon DEF TheShell!Answer
    <3>5. QED
      BY <3>4
  <2>6. QED
    BY <1>1, <1>7, <2>4, <2>5 DEF Fsm
<1>8. QED
  BY <1>6, <1>7

LEMMA EnteredStep ==
  ASSUME DInv, DInv', Entered, [DNext]_dvars
  PROVE  Entered'
<1>1. Inv /\ Inv'
  BY DEF DInv
<1> USE DEF Entered, LoggingIn
<1>2. CASE OperWriting \/ OperWritingFails
  BY <1>2 DEF OperWriting, OperWritingFails, WriteByte, C, fsmVars, histVars
<1>3. CASE BusyNextByte
  <2>1. s_state = "BUSY" /\ s_writebuf # <<>> /\ asked' = asked
    BY <1>3 DEF BusyNextByte, NoData, histVars
  <2>2. ~LoggingIn
    BY <1>1, <2>1 DEF Inv, Login
  <2>3. QED
    BY <2>1, <2>2
<1>4. CASE BusyRead \/ BusyEof \/ BusyDone \/ BusyWait
  BY <1>4 DEF BusyRead, BusyEof, BusyDone, BusyWait, C, fsmVars, histVars
<1>5. CASE Feed \/ CoreSelect
  BY <1>5 DEF Feed, FeedToken, FeedPanic, NeedMoreData, FirstAnswer, FeedReturn, FeedWriteFails, CoreSelect, C,
              fsmVars, histVars
<1>6. CASE User
  <2>1. PICK line \in Lines : CoreWrite(line)
    BY <1>6 DEF User
  <2>2. TheShell!Enter
    BY <1>1, <2>1, EnterStep
  <2>3. Mode' = "running"
    BY <2>2 DEF TheShell!Enter
  <2>4. QED
    BY <2>3 DEF Mode
<1>7. CASE SshExits \/ UNCHANGED vars
  BY <1>7 DEF SshExits, vars, fsmVars, histVars
<1>8. CASE Switch
  BY <1>8 DEF Switch, SwSend, SwKey, SwReport, SwEcho, SwReply, Reads, SshSends, vars, fsmVars, histVars
<1>9. QED
  BY <1>2, <1>3, <1>4, <1>5, <1>6, <1>7, <1>8 DEF DNext, Program, Busy, Idle, dvars

\* A step that hands nothing out and takes nothing in is none of the shell's,
\* or its end.
LEMMA HiddenStep ==
  ASSUME exit = "none" \/ exit' = exit, asked' = asked, s_state' = "READY" <=> s_state = "READY",
         UNCHANGED <<s_outbuf, s_ps1buf>>
  PROVE  TheShell!Die \/ UNCHANGED <<Mode, Complete, Shown>>
<1>1. OnScreen' = OnScreen
  BY DEF OnScreen
<1>2. QED
  BY <1>1, DieStep, ShellStutter

LEMMA ShellStep ==
  ASSUME Coherent, DInv, DInv', Entered, [DNext]_dvars
  PROVE  [TheShell!ShellNext]_(TheShell!svars)
<1> DEFINE Hidden == /\ exit = "none" \/ exit' = exit
                     /\ asked' = asked
                     /\ s_state' = "READY" <=> s_state = "READY"
                     /\ UNCHANGED <<s_outbuf, s_ps1buf>>
<1>1. Inv /\ Chat /\ Faithful'
  BY DEF DInv, Chat
<1>2. CASE User
  <2>1. PICK line \in Lines : CoreWrite(line)
    BY <1>2 DEF User
  <2>2. TheShell!Enter
    BY <1>1, <2>1, EnterStep
  <2>3. QED
    BY <2>2, Zenon DEF TheShell!ShellNext
<1>3. CASE BusyDone /\ UNCHANGED swVars /\ exit' = exit
  BY <1>1, <1>3, AnswerStep, Zenon DEF TheShell!ShellNext
<1>4. CASE BusyDone /\ exit' # exit
  <2>1. exit = "none" /\ exit' # "none" /\ asked' = asked
    BY <1>4 DEF BusyDone, NoData, Running, C, histVars
  <2>2. QED
    BY <2>1, DieStep, Zenon DEF TheShell!ShellNext
<1>5. Hidden => [TheShell!ShellNext]_(TheShell!svars)
  <2>1. Hidden => TheShell!Die \/ UNCHANGED <<Mode, Complete, Shown>>
    BY HiddenStep
  <2> HIDE DEF Hidden
  <2>2. QED
    BY <2>1, Zenon DEF TheShell!ShellNext, TheShell!svars
<1>6. CASE OperWriting \/ OperWritingFails
  BY <1>5, <1>6 DEF OperWriting, OperWritingFails, WriteByte, Running, C, bufVars, histVars
<1>7. CASE BusyRead \/ BusyEof \/ BusyNextByte \/ BusyWait
  BY <1>5, <1>7 DEF BusyRead, BusyEof, BusyNextByte, BusyWait, NoData, Running, C, bufVars, histVars
<1>8. CASE Feed \/ CoreSelect
  BY <1>5, <1>8 DEF Feed, FeedToken, FeedPanic, NeedMoreData, FirstAnswer, FeedReturn, FeedWriteFails, CoreSelect,
                    Running, C, bufVars, histVars
<1>9. CASE SshExits \/ UNCHANGED vars
  BY <1>5, <1>9 DEF SshExits, vars, bufVars, histVars
<1>10. CASE Switch
  BY <1>5, <1>10 DEF Switch, SwSend, SwKey, SwReport, SwEcho, SwReply, Reads, SshSends, vars, bufVars,
                     histVars
<1>11. QED
  BY <1>2, <1>3, <1>4, <1>6, <1>7, <1>8, <1>9, <1>10 DEF DNext, Program, Busy, Idle, dvars

\* Over a coherent connection swh is a shell, whatever is typed and whatever
\* the switch answers: after the login and after each line the user is shown
\* the whole answer, or nothing if the command is still open, before the next
\* line is taken, or the program ends.
THEOREM IsAShell == Coherent => (DSpec => ImplementsShell)
<1> SUFFICES ASSUME Coherent PROVE DSpec => ImplementsShell
  OBVIOUS
<1>1. DInit => TheShell!ShellInit /\ Entered
  <2> SUFFICES ASSUME DInit PROVE TheShell!ShellInit /\ Entered
    OBVIOUS
  <2>1. exit = "none" /\ s_state = "BUSY" /\ asked = <<>> /\ s_curfsm = "init"
    BY DEF DInit, Init
  <2>2. Mode = "login" /\ Entered
    BY <2>1 DEF Mode, Entered, LoggingIn
  <2>3. Complete = FALSE
    BY <2>1 DEF Complete
  <2>4. Shown = TheShell!Blank
    BY <2>2 DEF Shown, NoReply, TheShell!Blank
  <2>5. QED
    BY <2>2, <2>3, <2>4, Zenon DEF TheShell!ShellInit
<1>2. DInv /\ DInv' /\ Entered /\ [DNext]_dvars => Entered' /\ [TheShell!ShellNext]_(TheShell!svars)
  BY EnteredStep, ShellStep
<1>3. DSpec => []DInv
  BY Conversation
<1>4. QED
  BY <1>1, <1>2, <1>3, PTL DEF DSpec, ImplementsShell, TheShell!ShellSteps
=============================================================================
