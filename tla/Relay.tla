------------------------------- MODULE Relay --------------------------------
(***************************************************************************)
(* The way of a line from the keyboard to the switch: the interactive      *)
(* front-end (UcIa), the main loop with its buffer for one line (core.c),  *)
(* and sc.c, reduced to what it does with the line: one byte is written,   *)
(* then the switch's answer to it is awaited.  The user may type ahead at  *)
(* any time.                                                               *)
(***************************************************************************)
EXTENDS UcIa

CONSTANT Memory   \* what memory may hold that nothing has been written to

VARIABLES
  s_state, s_writebuf,   \* of sc.c
  buf,                   \* core_run's buf; none of it is initialised
  wrote                  \* history: the bytes written to ssh

scVars    == <<s_state, s_writebuf, wrote>>
relayVars == <<vars, scVars, buf>>

RelayInit ==
  /\ Init
  /\ s_state = "BUSY" /\ s_writebuf = <<>> /\ wrote = <<>>
  /\ buf \in [1..DestSz -> Memory]

\* uc_hasdata(true), in the loop of core_run.
HasData ==
  /\ s_state = "READY"
  /\ uc_ia_hasdata \/ ReadZero \/ \E n \in 1..READBUFSZ : ReadMore(n)
  /\ UNCHANGED <<scVars, buf>>

\* The n bytes at the address of buf; behind its end there may be anything.
FromBuf(n) ==
  {[k \in 1..n |-> IF k <= DestSz THEN buf'[k] ELSE behind[k]] :
     behind \in [DestSz+1..n -> Memory]}

\* Mutant: the whole buffer is sent.
GetAndWrite_WholeBuf ==
  /\ s_state = "READY"
  /\ uc_ia_getdata
  /\ LET line == lines'[Len(lines')]
     IN  /\ buf' = [k \in 1..DestSz |-> IF k <= Len(line.dest) THEN line.dest[k] ELSE buf[k]]
         /\ s_writebuf' \in FromBuf(DestSz)
  /\ s_state' = "WRITING"
  /\ UNCHANGED wrote

\* uc_getdata and sc_write.
GetAndWrite ==
  /\ s_state = "READY"
  /\ uc_ia_getdata
  /\ LET line == lines'[Len(lines')]
     IN  /\ buf' = [k \in 1..DestSz |-> IF k <= Len(line.dest) THEN line.dest[k] ELSE buf[k]]
         /\ s_writebuf' \in FromBuf(line.result)
  /\ s_state' = "WRITING"
  /\ UNCHANGED wrote

oper_writing ==
  /\ exit = "none" /\ s_state = "WRITING"
  /\ wrote' = Append(wrote, Head(s_writebuf))
  /\ s_writebuf' = Tail(s_writebuf)
  /\ s_state' = "BUSY"
  /\ UNCHANGED <<vars, buf>>

\* The switch has answered, to the login or to the last byte.
oper_busy ==
  /\ exit = "none" /\ s_state = "BUSY"
  /\ s_state' = IF s_writebuf # <<>> THEN "WRITING" ELSE "READY"
  /\ UNCHANGED <<vars, s_writebuf, wrote, buf>>

core_run == HasData \/ GetAndWrite \/ oper_writing \/ oper_busy

RelayNext == core_run \/ ((User \/ Ended) /\ UNCHANGED <<scVars, buf>>)

\* The switch answers every byte, as long as it is there.
RelaySpec == RelayInit /\ [][RelayNext]_relayVars /\ WF_relayVars(core_run)
-----------------------------------------------------------------------------
\* Input of lines that fit both buffers, without NUL.
Short(s) ==
  /\ Ordinary(s)
  /\ \A i, j \in 0..Len(s) :
       i <= j /\ (i = 0 \/ s[i] = NL) /\ (\A k \in i+1..j : s[k] # NL) => j - i + 1 < DestSz

TheWire == INSTANCE Wire WITH Ordinary <- Short, sent <- wrote, over <- (exit # "none")

\* From the keyboard to the switch: nothing is lost, repeated or overtaken,
\* however much is typed ahead while the switch is busy.
ImplementsWire == TheWire!WireSteps

\* Every line that is complete gets there.
CompleteLinesSent == TheWire!WireSends

\* Also with lines that are cut: what is sent of a line stands where the line
\* belongs, has as many bytes as it, and begins with those that were typed, as far
\* as they were copied.  The last byte of buf is one that no line is ever copied
\* to, and what comes behind it may be anything.
LineStarts(k) == LET f[i \in 0..k] == IF i = 0 THEN 0 ELSE f[i-1] + lines[i].result IN f[k]

CutLinesKeepTheirPlace ==
  LET all == wrote \o s_writebuf
  IN  /\ Len(all) = LineStarts(Len(lines))
      /\ \A l \in 1..Len(lines) : \A k \in 1..lines[l].result :
           LET c == all[LineStarts(l - 1) + k]
           IN  \/ c = lines[l].took[k]
               \/ k = DestSz /\ c = buf[DestSz]
               \/ k > DestSz
=============================================================================
