-------------------------------- MODULE UcIa --------------------------------
(***************************************************************************)
(* The interactive user front-end (front/ia/uc_ia.c): lines from standard  *)
(* input, collected in a buffer of fixed size, handed to the main loop one *)
(* at a time.  The main loop (core.c) asks with uc_hasdata(true) and then  *)
(* takes the line with uc_getdata.                                         *)
(***************************************************************************)
EXTENDS Integers, Sequences, FiniteSetsExt

CONSTANTS
  Bytes,       \* what a user can type
  NL, NUL,     \* the two bytes of these that are special here
  READBUFSZ,   \* capacity of the read buffer
  DestSz,      \* size of the main loop's buffer for one line
  MaxTyped     \* bound: bytes the user ever types

ASSUME UcIaAssumption ==
  /\ NL \in Bytes /\ NL # NUL
  /\ READBUFSZ \in Nat \ {0} /\ DestSz \in Nat \ {0} /\ MaxTyped \in Nat

VARIABLES
  s_readbuf,
  pc,          \* "hasdata", "select" (in the loop of hasdata) or "getdata"
  exit,        \* why the program has ended, or "none"
  stdin,       \* bytes that have been typed and not read yet
  closed,      \* the user has closed the terminal
  typed,       \* history: all that was typed
  lines        \* history: for every line handed out, the bytes it took from
               \* the buffer, those copied for the caller and the result

vars == <<s_readbuf, pc, exit, stdin, closed, typed, lines>>

Init ==
  /\ s_readbuf = <<>> /\ pc = "hasdata" /\ exit = "none"
  /\ stdin = <<>> /\ closed = FALSE
  /\ typed = <<>> /\ lines = <<>>

Running(where) == exit = "none" /\ pc = where

\* strchr(buf, '\n'): the positions of newlines that no NUL precedes.
Newlines(buf) == {i \in 1..Len(buf) : buf[i] = NL /\ \A j \in 1..i : buf[j] # NUL}

\* Mutant: a line that is already in the buffer is not looked for.
uc_ia_hasdata_AlwaysReads ==
  /\ Running("hasdata")
  /\ pc' = "select"
  /\ UNCHANGED <<s_readbuf, exit, stdin, closed, typed, lines>>

uc_ia_hasdata ==
  /\ Running("hasdata")
  /\ pc' = IF Newlines(s_readbuf) # {} THEN "getdata" ELSE "select"
  /\ UNCHANGED <<s_readbuf, exit, stdin, closed, typed, lines>>

\* Mutant: what the buffer already holds is not counted.
remain_WholeBuf == READBUFSZ

remain == READBUFSZ - Len(s_readbuf)

\* select says that stdin is readable and read_more takes some of it.
ReadMore(n) ==
  /\ Running("select")
  /\ n \in 1..Min({remain, Len(stdin)})
  /\ s_readbuf' = s_readbuf \o SubSeq(stdin, 1, n)
  /\ stdin' = SubSeq(stdin, n + 1, Len(stdin))
  /\ pc' = IF Newlines(s_readbuf') # {} THEN "getdata" ELSE "select"
  /\ UNCHANGED <<exit, closed, typed, lines>>

\* read returns 0: at end of file, or because there is no room left to read to.
ReadZero ==
  /\ Running("select")
  /\ stdin # <<>> \/ closed
  /\ stdin = <<>> \/ remain = 0
  /\ exit' = "read: EOF"
  /\ UNCHANGED <<s_readbuf, pc, stdin, closed, typed, lines>>

\* Mutant: room is reserved for the newline and for a terminator.
copy_Reserve(len) == IF len + 1 >= DestSz THEN DestSz - 2 ELSE len

\* How many bytes of a line of length len are copied for the caller.
copy(len) == IF len >= DestSz THEN DestSz - 1 ELSE len

\* Mutant: the newline stays in the buffer.
shiftbuf_KeepsNl(buf, len) == SubSeq(buf, len, Len(buf))

\* What is left in the buffer after the first len bytes.
shiftbuf(buf, len) == SubSeq(buf, len + 1, Len(buf))

\* The number that uc_ia_getdata returns.
result(len) == len

uc_ia_getdata ==
  LET len == Min(Newlines(s_readbuf))
  IN  /\ Running("getdata")
      /\ lines' = Append(lines, [took   |-> SubSeq(s_readbuf, 1, len),
                                 dest   |-> SubSeq(s_readbuf, 1, copy(len)),
                                 result |-> result(len)])
      /\ s_readbuf' = shiftbuf(s_readbuf, len)
      /\ pc' = "hasdata"
      /\ UNCHANGED <<exit, stdin, closed, typed>>

Type(b) ==
  /\ ~closed /\ exit = "none" /\ Len(typed) < MaxTyped
  /\ typed' = Append(typed, b)
  /\ stdin' = Append(stdin, b)
  /\ UNCHANGED <<s_readbuf, pc, exit, closed, lines>>

Close ==
  /\ ~closed /\ exit = "none"
  /\ closed' = TRUE
  /\ UNCHANGED <<s_readbuf, pc, exit, stdin, typed, lines>>

\* The program has ended.
Ended == exit # "none" /\ UNCHANGED vars

Program == \/ uc_ia_hasdata \/ uc_ia_getdata \/ ReadZero
           \/ \E n \in 1..READBUFSZ : ReadMore(n)
User    == (\E b \in Bytes : Type(b)) \/ Close

Next == Program \/ User \/ Ended

Spec == Init /\ [][Next]_vars /\ WF_vars(Program)
-----------------------------------------------------------------------------
\* The buffer never outgrows its array, and getdata is only called when there
\* is a line to get, as the main loop takes for granted.
TypeOK ==
  /\ s_readbuf \in Seq(Bytes) /\ Len(s_readbuf) <= READBUFSZ
  /\ stdin \in Seq(Bytes) /\ typed \in Seq(Bytes) /\ closed \in BOOLEAN
  /\ pc \in {"hasdata", "select", "getdata"} /\ exit \in {"none", "read: EOF"}
  /\ pc = "getdata" => Newlines(s_readbuf) # {}

\* However the input is cut into reads, the lines taken, what is buffered and
\* what is not read yet are together what the user typed, in that order; and
\* each line taken has one newline, at its end.
Taken(ls) == LET f[i \in 0..Len(ls)] == IF i = 0 THEN <<>> ELSE f[i-1] \o ls[i].took
             IN  f[Len(ls)]

LineByLine ==
  /\ Taken(lines) \o s_readbuf \o stdin = typed
  /\ \A i \in 1..Len(lines) :
       {k \in 1..Len(lines[i].took) : lines[i].took[k] = NL} = {Len(lines[i].took)}

\* A line that fits the caller's buffer is handed over whole.
ShortLinesWhole ==
  \A i \in 1..Len(lines) :
    Len(lines[i].took) < DestSz =>
      lines[i].dest = lines[i].took /\ lines[i].result = Len(lines[i].took)

\* Input without NUL, of lines that fit the read buffer.
Ordinary(s) ==
  /\ \A i \in 1..Len(s) : s[i] # NUL
  /\ \A i \in 0..Len(s) : i + READBUFSZ <= Len(s) =>
                            \E k \in i+1..i+READBUFSZ : s[k] = NL

\* Where the lines end that are ordinary, and all lines before them.
OrdinaryEnds == {n \in 1..Len(typed) : typed[n] = NL /\ Ordinary(SubSeq(typed, 1, n))}

\* A line that was typed without a NUL, and fits the read buffer, as those before
\* it did, gets to the main loop, whatever is typed behind it.
LinesDelivered == \A n \in 1..MaxTyped : n \in OrdinaryEnds ~> Len(Taken(lines)) >= n

\* "return the number of bytes written into `*dest`, which may be no more than
\* `destsz`".
ResultIsWritten ==
  \A i \in 1..Len(lines) :
    lines[i].result = Len(lines[i].dest) /\ lines[i].result <= DestSz

\* "we're supposed to wait until we can return 1 or -1": the front-end does not
\* end the program over input that is still open.
WaitsForALine == exit # "none" => closed
=============================================================================
