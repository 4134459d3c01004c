----------------------------- MODULE AnsiStore ------------------------------
(***************************************************************************)
(* ansiseq_eatone byte by byte, with what its actions store of a sequence  *)
(* (back/ansiseq.c).  The stored sequence and the argument being read are  *)
(* static: a call that runs out of data leaves half a sequence in them,    *)
(* and the next call starts over with the same bytes and more.             *)
(* The tokenizer (back/hp/common_hp.c) calls it when an escape is at the   *)
(* head of the data and takes any other byte for text.                     *)
(***************************************************************************)
EXTENDS AnsiSeq, SequencesExt

CONSTANTS
  Input,           \* the bytes that may arrive
  MAX_OSC_STR_SZ,  \* size of the string buffer, terminator included
  MAX_ANSISEQ_PARAMS,  \* size of argv
  INT_MAX,         \* largest value of an argument
  MaxData          \* bound: bytes in the buffer

ASSUME AnsiStoreAssumption ==
  /\ Input \subseteq Byte /\ MaxData \in Nat
  /\ MAX_OSC_STR_SZ \in Nat \ {0} /\ MAX_ANSISEQ_PARAMS \in Nat /\ INT_MAX \in Nat

ABSENT == -1       \* any value that is no argument

VARIABLES
  data,            \* the bytes that have arrived and are not eaten
  i, st,           \* index and state of the loop
  s_curseq, s_parmv, s_gotparm,
  pc,              \* "idle" or "scan"
  exit,            \* "none", "panic", or "undefined": an argument has been stored
                   \* behind argv or has overflowed, and C says nothing of what
                   \* happens then
  last             \* history: when the recogniser has returned, the bytes of the
                   \* sequence and what was stored of it

store == <<s_curseq, s_parmv, s_gotparm>>
vars  == <<data, i, st, store, pc, exit, last>>

s_protoseq == [cls |-> NUL, cmd |-> NUL, strarg |-> <<>>, ext |-> FALSE, argv |-> <<>>]

NoSeq == [bytes |-> <<>>, seq |-> s_protoseq]

Init ==
  /\ data = <<>> /\ i = 0 /\ st = "S_STA"
  /\ s_curseq = s_protoseq /\ s_parmv = 0 /\ s_gotparm = FALSE
  /\ pc = "idle" /\ exit = "none"
  /\ last = NoSeq
-----------------------------------------------------------------------------
(* the actions of the table *)

Digit(c) == IF c = "7" THEN 7 ELSE 0

\* Mutant: the argument being read is not dropped.
act_begin_KeepsParm ==
  s_curseq' = s_protoseq /\ UNCHANGED <<s_parmv, s_gotparm>>

act_begin == s_curseq' = s_protoseq /\ s_parmv' = 0 /\ s_gotparm' = FALSE

\* Mutant: the digits of the next argument are added to those of this one.
act_stor_KeepsParm ==
  /\ s_curseq' = [s_curseq EXCEPT !.argv = Append(@, IF s_gotparm THEN s_parmv ELSE ABSENT)]
  /\ s_gotparm' = FALSE /\ UNCHANGED s_parmv

act_stor ==
  /\ s_curseq' = [s_curseq EXCEPT !.argv = Append(@, IF s_gotparm THEN s_parmv ELSE ABSENT)]
  /\ s_parmv' = 0 /\ s_gotparm' = FALSE

\* The last argument is stored if there is one, without a semicolon.
act_mkctl(c) ==
  /\ s_curseq' = [s_curseq EXCEPT !.cmd = c,
                                  !.argv = IF s_gotparm THEN Append(@, s_parmv) ELSE @]
  /\ s_gotparm' = FALSE
  /\ s_parmv' = IF s_gotparm THEN 0 ELSE s_parmv

act_mkpar(c) ==
  /\ s_parmv' = s_parmv * 10 + Digit(c)
  /\ s_gotparm' = TRUE
  /\ UNCHANGED s_curseq

\* A NUL written at the end of the string leaves it as it is.
act_mkstr(c) ==
  /\ s_curseq' = IF Len(s_curseq.strarg) + 1 >= MAX_OSC_STR_SZ \/ c = NUL THEN s_curseq
                 ELSE [s_curseq EXCEPT !.strarg = Append(@, c)]
  /\ UNCHANGED <<s_parmv, s_gotparm>>

act_setcls(c) ==
  s_curseq' = [s_curseq EXCEPT !.cls = c] /\ UNCHANGED <<s_parmv, s_gotparm>>

act_ext == s_curseq' = [s_curseq EXCEPT !.ext = TRUE] /\ UNCHANGED <<s_parmv, s_gotparm>>

act_nop == UNCHANGED store

\* The action column of the table, for transitions that do not lead to S_ERR.
Action(s, c) ==
  LET t == mktok(c)
  IN  CASE t = "T_ESCP"                                   -> act_begin
        [] s = "S_ESC" /\ t \in {"T_CCHR", "T_NDIG"}      -> act_mkctl(c)
        [] s = "S_ESC" /\ t \notin {"T_ESCP", "T_CCHR", "T_NDIG"} -> act_setcls(c)
        [] s = "S_CSI" /\ t = "T_CCHR"                    -> act_mkctl(c)
        [] s = "S_CSI" /\ t = "T_NDIG"                    -> act_mkpar(c)
        [] s = "S_CSI" /\ t = "T_QMRK"                    -> act_ext
        [] s = "S_CSI" /\ t = "T_SMCL"                    -> act_stor
        [] s = "S_SQC" /\ t \in {"T_BELL", "T_STRM"}      -> act_nop
        [] s = "S_SQC" /\ t \notin {"T_ESCP", "T_BELL", "T_STRM"} -> act_mkstr(c)
        [] s = "S_PPH" /\ t # "T_ESCP"                    -> act_mkctl(c)
        [] OTHER                                          -> act_nop
-----------------------------------------------------------------------------
Arrive(b) ==
  /\ pc = "idle" /\ exit = "none" /\ Len(data) < MaxData
  /\ data' = Append(data, b) /\ last' = NoSeq
  /\ UNCHANGED <<i, st, store, pc, exit>>

\* The tokenizer: text is eaten at once, for an escape the recogniser is called.
EatText ==
  /\ pc = "idle" /\ exit = "none" /\ data # <<>> /\ data[1] # ESC
  /\ data' = Tail(data) /\ last' = NoSeq
  /\ UNCHANGED <<i, st, store, pc, exit>>

\* Mutant: the escape that the tokenizer has looked at is skipped.
Call_SkipsEscape ==
  /\ pc = "idle" /\ exit = "none" /\ data # <<>> /\ data[1] = ESC
  /\ pc' = "scan" /\ i' = 1 /\ st' = "S_STA" /\ last' = NoSeq
  /\ UNCHANGED <<data, store, exit>>

Call ==
  /\ pc = "idle" /\ exit = "none" /\ data # <<>> /\ data[1] = ESC
  /\ pc' = "scan" /\ i' = 0 /\ st' = "S_STA" /\ last' = NoSeq
  /\ UNCHANGED <<data, store, exit>>

\* The action has stayed within argv and within an int; nothing checks that.
ArgumentFits ==
  Len(s_curseq'.argv) <= MAX_ANSISEQ_PARAMS /\ s_parmv' <= INT_MAX

EatByte ==
  LET c == data[i + 1]
      n == SeqDelta(st, mktok(c))
  IN  /\ pc = "scan" /\ exit = "none" /\ i < Len(data) /\ st # "S_FIN"
      /\ i' = i + 1 /\ st' = n
      /\ IF n = "S_ERR" THEN act_nop ELSE Action(st, c)
      /\ exit' = IF n = "S_ERR" THEN "panic"
                 ELSE IF ArgumentFits THEN "none" ELSE "undefined"
      /\ UNCHANGED <<data, pc, last>>

ReturnLength ==
  /\ pc = "scan" /\ exit = "none" /\ st = "S_FIN"
  /\ last' = [bytes |-> SubSeq(data, 1, i), seq |-> s_curseq]
  /\ data' = SubSeq(data, i + 1, Len(data))
  /\ pc' = "idle" /\ i' = 0 /\ st' = "S_STA"
  /\ UNCHANGED <<store, exit>>

\* Not enough data: the loop's variables are gone, what was stored is not.
ReturnMore ==
  /\ pc = "scan" /\ exit = "none" /\ i = Len(data) /\ st # "S_FIN"
  /\ pc' = "idle" /\ i' = 0 /\ st' = "S_STA"
  /\ UNCHANGED <<data, store, exit, last>>

Ended == exit # "none" /\ UNCHANGED vars

Next == \/ \E b \in Input : Arrive(b)
        \/ EatText \/ Call \/ EatByte \/ ReturnLength \/ ReturnMore \/ Ended

Spec == Init /\ [][Next]_vars
-----------------------------------------------------------------------------
(* What a sequence is and what it says, without the machine *)

\* The bytes behind the last escape, and those between the first and the last
\* of them.
Body(b)   == LET esc == Max({k \in 1..Len(b) : b[k] = ESC})
             IN  SubSeq(b, esc + 1, Len(b))
Middle(b) == SubSeq(Body(b), 2, Len(Body(b)) - 1)

Command == CCHRS \cup Digits
Stop    == {"bel", "st"}

WellFormed(b) ==
  LET body == Body(b)
      n    == Len(body)
      Inside(S) == \A k \in 2..n-1 : body[k] \in S
  IN  \/ n = 1 /\ body[1] \in Command
      \/ n = 2 /\ body[1] \in {"#", "(", ")"} /\ body[2] \in Command
      \/ n > 1 /\ body[1] = "[" /\ body[n] \in CCHRS /\ Inside(Digits \cup {"?", ";"})
      \/ n > 1 /\ body[1] = "]" /\ body[n] \in Stop /\ Inside(Byte \ Stop)

\* The elements of a sequence other than x, in their order.
Without(s, x) ==
  LET kept[k \in 0..Len(s)] ==
        IF k = 0 THEN <<>>
        ELSE IF s[k] = x THEN kept[k-1] ELSE Append(kept[k-1], s[k])
  IN  kept[Len(s)]

\* The number that a sequence of digits denotes.
Number(s) ==
  LET value[k \in 0..Len(s)] == IF k = 0 THEN 0 ELSE value[k-1] * 10 + Digit(s[k])
  IN  value[Len(s)]

\* The elements of a set of numbers in their order.
Sorted(S) ==
  [n \in 1..Cardinality(S) |-> CHOOSE x \in {y \in S : Cardinality({z \in S : z <= y}) = n} : TRUE]

\* The arguments: the fields that semicolons end, and what is behind the last
\* of them unless that is empty.
Borders(s)  == Sorted({0} \cup {k \in 1..Len(s) : s[k] = ";"} \cup {Len(s) + 1})
Field(s, k) == Without(SubSeq(s, Borders(s)[k] + 1, Borders(s)[k + 1] - 1), "?")
Value(f)    == IF f = <<>> THEN ABSENT ELSE Number(f)
Fields(s) ==
  LET n == Len(Borders(s)) - 1
  IN  [k \in 1..(IF Field(s, n) = <<>> THEN n - 1 ELSE n) |-> Value(Field(s, k))]

Parse(b) ==
  LET body == Body(b)
      text == Without(Middle(b), NUL)
      csi  == body[1] = "["
      osc  == body[1] = "]"
  IN  [cls    |-> IF Len(body) = 1 THEN NUL ELSE body[1],
       cmd    |-> IF osc THEN NUL ELSE body[Len(body)],
       strarg |-> IF osc THEN SubSeq(text, 1, Min({Len(text), MAX_OSC_STR_SZ - 1})) ELSE <<>>,
       ext    |-> csi /\ Contains(Middle(b), "?"),
       argv   |-> IF csi THEN Fields(Middle(b)) ELSE <<>>]
-----------------------------------------------------------------------------
\* The recogniser stops at the first byte that completes a well-formed sequence
\* and at no other, also when an escape has cut off an earlier one; the pure
\* operator that stands for it elsewhere says the same.
StopsAtFirst ==
  pc = "scan" /\ i > 0 =>
    /\ st = "S_FIN" <=> WellFormed(SubSeq(data, 1, i))
    /\ st = "S_FIN" => EatOne(data) = i
    /\ st # "S_FIN" /\ exit = "none" /\ i = Len(data) => EatOne(data) = -1
    /\ exit = "panic" => EatPanics(data)

\* What is stored of a sequence is what its bytes say: nothing is left in it
\* from the sequence before, from one that was cut off, or from earlier calls
\* that ran out of data.
StoredIsParsed == last # NoSeq => last.seq = Parse(last.bytes)

\* Only a sequence that itself has more arguments than argv holds, or a number
\* that no int holds, takes the store out of bounds: what is stored of earlier
\* sequences, or of this one when a call ran out of data, does not add up.
FitsTheStore(b) ==
  LET args == IF Len(Body(b)) < 2 \/ Body(b)[1] # "[" THEN <<>>
              ELSE IF WellFormed(b) THEN Fields(Middle(b)) ELSE Fields(Tail(Body(b)))
  IN  /\ \A k \in 1..Len(args) : args[k] <= INT_MAX
      /\ Len(args) <= MAX_ANSISEQ_PARAMS

OutOfBoundsByItself ==
  exit = "undefined" => ~FitsTheStore(SubSeq(data, 1, i))
=============================================================================
