--------------------------------- MODULE Sc ---------------------------------
(***************************************************************************)
(* Switch communication (sc.c) with the state machine engine it drives     *)
(* (back/fsm.c) and the part of the main loop that calls it (core.c).  The *)
(* program is one thread: it is at the head of the loop that calls         *)
(* sc_operate (pc = "loop"), inside fsm_feed ("feed"), or waiting in       *)
(* select for the switch to say something ("select").                      *)
(* On the other end of the pipes there is ssh, which may send something    *)
(* and may go away; ScOpen and Dialogue say what it sends.                 *)
(***************************************************************************)
EXTENDS HpBackend

CONSTANTS
  Lines,       \* what the user may enter: nonempty sequences of bytes
  READBUFSZ,   \* initial size of the read buffer
  MaxAsked     \* bound: bytes that the user ever enters

ASSUME ScAssumption ==
  /\ Lines \subseteq Seq(Byte) \ {<<>>}
  /\ READBUFSZ \in Nat \ {0}
  /\ MaxAsked \in Nat

VARIABLES
  s_state, s_nodataflag,
  s_readbuf, s_readbufsz, s_writebuf, s_outbuf, s_ps1buf,
  s_curfsm,
  curst,       \* the current state of each machine
  hp,          \* the backend's buffers and flags
  pc,
  eaten,       \* the index i of fsm_feed
  exit,        \* why the program has ended, or "none"
  fromSw,      \* bytes in the pipe from ssh's stdout
  eof,         \* ssh is gone
  wrote,       \* history: everything written to ssh's stdin
  asked        \* history: everything handed to sc_write

bufVars  == <<s_readbuf, s_readbufsz, s_writebuf, s_outbuf, s_ps1buf>>
fsmVars  == <<s_curfsm, curst, hp, eaten>>
envVars  == <<fromSw, eof>>
histVars == <<wrote, asked>>
vars == <<s_state, s_nodataflag, bufVars, fsmVars, pc, exit, envVars, histVars>>

\* What the login answers with, as opposed to what the user types.
AnyKey == "anykey"
Report == "report"

SelfChecks == {"offline", "not ready", "write buffer not empty", "no newline",
               "meh", "outbuf not empty"}
Faults     == {"read: EOF", "write", "ansiseq", "fsm in error state"}

Init ==
  /\ s_state = "BUSY" /\ s_nodataflag = FALSE
  /\ s_readbuf = <<>> /\ s_readbufsz = READBUFSZ
  /\ s_writebuf = <<>> /\ s_outbuf = <<>> /\ s_ps1buf = <<>>
  /\ s_curfsm = "init"
  /\ curst = [f \in Fsm |-> "S_STA"]
  /\ hp = HpInit
  /\ pc = "loop" /\ eaten = 0 /\ exit = "none"
  /\ fromSw = <<>> /\ eof = FALSE
  /\ wrote = <<>> /\ asked = <<>>

sc_ready   == s_state = "READY"
sc_offline == s_state = "OFFLINE"
sc_busy    == ~sc_ready /\ ~sc_offline

Running(where) == exit = "none" /\ pc = where

\* C(): complain and exit.
C(why) ==
  /\ exit' = why
  /\ UNCHANGED <<s_state, s_nodataflag, bufVars, fsmVars, pc, envVars, histVars>>
-----------------------------------------------------------------------------
(* sc_write, called by the main loop with a line from the user *)

\* Mutant: the reply to the last line is not purged.
sc_write_NoPurge(line) ==
  /\ s_writebuf' = line
  /\ s_state' = "WRITING"
  /\ asked' = asked \o line
  /\ UNCHANGED <<s_nodataflag, s_readbuf, s_readbufsz, s_outbuf, s_ps1buf, fsmVars, pc,
                 exit, envVars, wrote>>

sc_write(line) ==
  /\ s_writebuf' = line
  /\ s_state' = "WRITING"
  /\ s_outbuf' = <<>>
  /\ asked' = asked \o line
  /\ UNCHANGED <<s_nodataflag, s_readbuf, s_readbufsz, s_ps1buf, fsmVars, pc,
                 exit, envVars, wrote>>

CoreWrite(line) ==
  /\ Running("loop") /\ ~sc_busy
  /\ Len(asked) + Len(line) <= MaxAsked
  /\ IF sc_offline           THEN C("offline")
     ELSE IF ~sc_ready       THEN C("not ready")
     ELSE IF s_writebuf # <<>> THEN C("write buffer not empty")
     ELSE sc_write(line)
-----------------------------------------------------------------------------
(* sc_operate while WRITING: one byte to the switch, then wait for its echo *)

FsmFor(c) == IF c = NL THEN "cmdout" ELSE "inchar"

fsm_reset(f) ==
  /\ s_curfsm' = f
  /\ curst' = [curst EXCEPT ![f] = "S_STA"]
  /\ hp' = f_reset(f, hp)

WriteByte ==
  /\ wrote' = Append(wrote, Head(s_writebuf))
  /\ s_writebuf' = Tail(s_writebuf)
  /\ fsm_reset(FsmFor(Head(s_writebuf)))
  /\ s_state' = "BUSY"
  /\ UNCHANGED <<s_nodataflag, s_readbuf, s_readbufsz, s_outbuf, s_ps1buf,
                 eaten, pc, exit, envVars, asked>>

OperWriting ==
  /\ Running("loop") /\ s_state = "WRITING"
  /\ ~eof
  /\ IF s_writebuf = <<>> THEN C("no newline") ELSE WriteByte

\* Writing to ssh after it has gone is fatal (EPIPE, EBADF or SIGPIPE).
OperWritingFails ==
  /\ Running("loop") /\ s_state = "WRITING"
  /\ eof
  /\ C(IF s_writebuf = <<>> THEN "no newline" ELSE "write")
-----------------------------------------------------------------------------
(* sc_operate while BUSY *)

\* Mutant: the buffer stays as it is.
GrownSz_Never == s_readbufsz

\* read_more makes room when the buffer is full.
GrownSz == IF s_readbufsz = Len(s_readbuf) THEN s_readbufsz * 2 ELSE s_readbufsz

Room      == GrownSz - Len(s_readbuf)
ReadCount == Min({Len(fromSw), Room})

\* read_more found data, or some is left from before: feed it.
BusyRead ==
  /\ Running("loop") /\ s_state = "BUSY"
  /\ Room > 0
  /\ fromSw # <<>> \/ (s_readbuf # <<>> /\ ~eof)
  /\ s_readbufsz' = GrownSz
  /\ s_readbuf' = s_readbuf \o SubSeq(fromSw, 1, ReadCount)
  /\ fromSw' = SubSeq(fromSw, ReadCount + 1, Len(fromSw))
  /\ s_nodataflag' = FALSE
  /\ pc' = "feed" /\ eaten' = 0
  /\ UNCHANGED <<s_state, s_writebuf, s_outbuf, s_ps1buf, s_curfsm, curst, hp,
                 exit, eof, histVars>>

\* read returns 0 at the end of file, and when there is room for 0 bytes.
BusyEof ==
  /\ Running("loop") /\ s_state = "BUSY"
  /\ Room = 0 \/ (fromSw = <<>> /\ eof)
  /\ C("read: EOF")

\* The bytes that fsm_feed has not looked at yet.
Rest == SubSeq(s_readbuf, eaten + 1, Len(s_readbuf))

Failed == curst[s_curfsm] = "S_ERR"

\* One iteration of fsm_feed.
FeedToken ==
  LET t  == fsm_hp_mktok(Rest)
      tr == delta[s_curfsm][curst[s_curfsm]][t.tok]
  IN  /\ Running("feed") /\ eaten < Len(s_readbuf) /\ ~Failed
      /\ ~MktokPanics(Rest) /\ t.tok # "more"
      /\ hp' = Act(s_curfsm, tr.action, Rest[1], hp)
      /\ curst' = [curst EXCEPT ![s_curfsm] = tr.state]
      /\ eaten' = eaten + t.toklen
      /\ UNCHANGED <<s_state, s_nodataflag, bufVars, s_curfsm, pc, exit,
                     envVars, histVars>>

FeedPanic ==
  /\ Running("feed") /\ eaten < Len(s_readbuf) /\ ~Failed
  /\ MktokPanics(Rest)
  /\ C("ansiseq")

\* fsm_feed has come to the end of the data, to a token that is not complete
\* yet or to the error state.
FeedEnds ==
  \/ eaten = Len(s_readbuf)
  \/ Failed
  \/ eaten < Len(s_readbuf) /\ fsm_hp_mktok(Rest).tok = "more"

NeedMoreData ==
  /\ Running("feed") /\ FeedEnds
  /\ eaten = 0
  /\ pc' = "select"
  /\ UNCHANGED <<s_state, s_nodataflag, bufVars, fsmVars, exit, envVars, histVars>>

\* The answers that the initial chat has asked for meanwhile.
Answers ==
  IF s_curfsm # "init" THEN <<>>
  ELSE (IF hp.anykey THEN <<AnyKey>> ELSE <<>>)
         \o (IF hp.report THEN <<Report>> ELSE <<>>)

BothDue == s_curfsm = "init" /\ hp.anykey /\ hp.report

\* If both are due, ssh may go away between the two writes.
FirstAnswer ==
  /\ Running("feed") /\ FeedEnds
  /\ eaten > 0
  /\ ~eof /\ BothDue
  /\ wrote' = Append(wrote, AnyKey)
  /\ hp' = [hp EXCEPT !.anykey = FALSE]
  /\ UNCHANGED <<s_state, s_nodataflag, bufVars, s_curfsm, curst, eaten, pc, exit,
                 envVars, asked>>

\* The only answer, or the second one, or none, and the end of the round.
FeedReturn ==
  /\ Running("feed") /\ FeedEnds
  /\ eaten > 0
  /\ ~BothDue /\ ~(eof /\ Answers # <<>>)
  /\ wrote' = wrote \o Answers
  /\ hp' = IF s_curfsm = "init" THEN flags_read(hp) ELSE hp
  /\ s_readbuf' = Rest
  /\ eaten' = 0
  /\ exit' = IF Failed THEN "fsm in error state" ELSE exit
  /\ pc' = "loop"
  /\ UNCHANGED <<s_state, s_nodataflag, s_readbufsz, s_writebuf, s_outbuf,
                 s_ps1buf, s_curfsm, curst, envVars, asked>>

FeedWriteFails ==
  /\ Running("feed") /\ FeedEnds
  /\ eaten > 0
  /\ eof /\ Answers # <<>>
  /\ C("write")

\* There is no data.  fsm_feed(NULL, 0) looks where the end of data would
\* lead; fsm_feed(NULL, 1) goes there.
EofTrans == delta[s_curfsm][curst[s_curfsm]]["T_EOF"]

NoData ==
  /\ Running("loop") /\ s_state = "BUSY"
  /\ fromSw = <<>> /\ ~eof /\ s_readbuf = <<>>

Accepts == ~Failed /\ isaccepting(EofTrans.state)

EnterFinal ==
  /\ hp' = Act(s_curfsm, EofTrans.action, NUL, hp)
  /\ curst' = [curst EXCEPT ![s_curfsm] = EofTrans.state]

BusyNextByte ==
  /\ NoData /\ Accepts
  /\ s_writebuf # <<>>
  /\ EnterFinal
  /\ s_state' = "WRITING"
  /\ UNCHANGED <<s_nodataflag, bufVars, s_curfsm, eaten, pc, exit, envVars, histVars>>

BusyDone ==
  /\ NoData /\ Accepts
  /\ s_writebuf = <<>>
  /\ IF s_outbuf # <<>> THEN C("outbuf not empty")
     ELSE /\ EnterFinal
          /\ s_outbuf' = Output(s_curfsm, hp')
          /\ s_ps1buf' = Prompt(s_curfsm, hp')
          /\ s_state' = "READY"
          /\ UNCHANGED <<s_nodataflag, s_readbuf, s_readbufsz, s_writebuf,
                         s_curfsm, eaten, pc, exit, envVars, histVars>>

BusyWait ==
  /\ NoData /\ ~Accepts
  /\ IF s_nodataflag THEN C("meh")
     ELSE /\ s_nodataflag' = TRUE
          /\ pc' = "select"
          /\ UNCHANGED <<s_state, bufVars, fsmVars, exit, envVars, histVars>>

\* Mutant: the end of file does not count as readable.
Readable_NoHup == fromSw # <<>>

\* selectfd(sc_getfd(), true): a read would find data or the end of file.
Readable == fromSw # <<>> \/ eof

CoreSelect ==
  /\ Running("select")
  /\ Readable
  /\ pc' = "loop"
  /\ UNCHANGED <<s_state, s_nodataflag, bufVars, fsmVars, exit, envVars, histVars>>
-----------------------------------------------------------------------------
(* what the other end of the pipes may do *)

SshSends(bytes) ==
  /\ ~eof /\ exit = "none"
  /\ fromSw' = fromSw \o bytes
  /\ UNCHANGED <<s_state, s_nodataflag, bufVars, fsmVars, pc, exit, eof, histVars>>

SshExits ==
  /\ ~eof /\ exit = "none"
  /\ eof' = TRUE
  /\ UNCHANGED <<s_state, s_nodataflag, bufVars, fsmVars, pc, exit, fromSw, histVars>>
-----------------------------------------------------------------------------
Feed    == \/ FeedToken \/ FeedPanic \/ NeedMoreData
           \/ FirstAnswer \/ FeedReturn \/ FeedWriteFails
Busy    == BusyRead \/ BusyEof \/ BusyNextByte \/ BusyDone \/ BusyWait
Program == OperWriting \/ OperWritingFails \/ Busy \/ Feed \/ CoreSelect
User    == \E line \in Lines : CoreWrite(line)
\* The program has ended, or it waits for a user who says nothing more.
Idle    == (exit # "none" \/ s_state = "READY") /\ UNCHANGED vars
-----------------------------------------------------------------------------
States == {"BUSY", "READY", "WRITING", "OFFLINE"}

\* Every variable has its type; the read buffer never holds more than it has
\* room for and fsm_feed never looks beyond what it holds.
TypeOK ==
  /\ s_state \in States /\ s_nodataflag \in BOOLEAN
  /\ s_readbuf \in Seq(Byte) /\ s_readbufsz \in Nat \ {0}
  /\ Len(s_readbuf) <= s_readbufsz
  /\ s_writebuf \in Seq(Byte) /\ s_outbuf \in Seq(Byte) /\ s_ps1buf \in Seq(Byte)
  /\ s_curfsm \in Fsm
  /\ curst \in [Fsm -> AllStates] /\ \A f \in Fsm : curst[f] \in FsmStates[f]
  /\ hp \in Hp
  /\ pc \in {"loop", "feed", "select"}
  /\ eaten \in 0..Len(s_readbuf)
  /\ exit \in {"none"} \cup SelfChecks \cup Faults
  /\ fromSw \in Seq(Byte) /\ eof \in BOOLEAN
  /\ wrote \in Seq(Byte \cup {AnyKey, Report}) /\ asked \in Seq(Byte)

\* Whatever ssh sends, and however it is cut into reads, none of the checks
\* that sc.c makes on itself ever fires: the second "no data" in a row ("meh"),
\* output left over from an earlier command, a write while not ready or while
\* an earlier line is still queued, the writing state with nothing to write.
SelfChecksHold == exit \notin SelfChecks

\* Each of the two answers of the login is sent at most once, in the order
\* "any key", report, and both before anything the user types; every byte the
\* user has entered is sent exactly once and in order, or is still queued.
LoginAnswers(k) == SubSeq(<<AnyKey, Report>>, 1, k)

SentInOrder ==
  \E k \in 0..2 : /\ wrote \o s_writebuf = LoginAnswers(k) \o asked
                  /\ s_state # "BUSY" \/ s_curfsm # "init" => k = 2

=============================================================================
