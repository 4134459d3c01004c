------------------------------ MODULE AnsiSeq ------------------------------
(***************************************************************************)
(* The recogniser of ANSI escape sequences (back/ansiseq.c) as a pure      *)
(* algorithm: how many of the bytes at the head of a buffer make up one    *)
(* escape sequence.  A byte is one of a few representatives of every class *)
(* that the tokenizer tells apart.                                         *)
(***************************************************************************)
EXTENDS Integers, Sequences, FiniteSetsExt

NUL == "nul"   \* '\0'
NL  == "nl"    \* '\n'
ESC == "esc"   \* '\033'

Digits == {"0", "7"}
CCHRS  == {"A", "H", "m", ">"}

Byte == {NUL, NL, ESC, "bel", "st", "#", "(", ")", "[", "]", "?", ";", " "}
          \cup Digits \cup CCHRS

\* The class of a byte.
mktok(c) ==
  CASE c \in Digits -> "T_NDIG"
    [] c \in CCHRS  -> "T_CCHR"
    [] c = ESC      -> "T_ESCP"
    [] c = "bel"    -> "T_BELL"
    [] c = "st"     -> "T_STRM"
    [] c = "#"      -> "T_HASH"
    [] c = "("      -> "T_OPRN"
    [] c = ")"      -> "T_CPRN"
    [] c = "["      -> "T_OSQB"
    [] c = "]"      -> "T_CSQB"
    [] c = "?"      -> "T_QMRK"
    [] c = ";"      -> "T_SMCL"
    [] OTHER        -> "T_REST"

SeqStates == {"S_STA", "S_ESC", "S_CSI", "S_SQC", "S_PPH", "S_FIN", "S_ERR"}

\* The state column of the transition table.  An escape byte restarts the
\* sequence from every row.
SeqDelta(st, t) ==
  CASE t = "T_ESCP"                                            -> "S_ESC"
    [] st = "S_ESC" /\ t \in {"T_CCHR", "T_NDIG"}              -> "S_FIN"
    [] st = "S_ESC" /\ t \in {"T_HASH", "T_OPRN", "T_CPRN"}    -> "S_PPH"
    [] st = "S_ESC" /\ t = "T_OSQB"                            -> "S_CSI"
    [] st = "S_ESC" /\ t = "T_CSQB"                            -> "S_SQC"
    [] st = "S_CSI" /\ t = "T_CCHR"                            -> "S_FIN"
    [] st = "S_CSI" /\ t \in {"T_NDIG", "T_QMRK", "T_SMCL"}    -> "S_CSI"
    [] st = "S_SQC" /\ t \in {"T_BELL", "T_STRM"}              -> "S_FIN"
    [] st = "S_SQC" /\ t \notin {"T_ESCP", "T_BELL", "T_STRM"} -> "S_SQC"
    [] st = "S_PPH" /\ t \in {"T_CCHR", "T_NDIG"}              -> "S_FIN"
    [] OTHER                                                   -> "S_ERR"

\* Scan(d)[i] is the state after the first i bytes of d; the loop leaves the
\* two final states alone because it has ended by then.
Scan(d) ==
  LET scan[i \in 0..Len(d)] ==
        IF i = 0 THEN "S_STA"
        ELSE IF scan[i-1] \in {"S_FIN", "S_ERR"} THEN scan[i-1]
        ELSE SeqDelta(scan[i-1], mktok(d[i]))
  IN  scan

\* The positions of d at which the loop has come to its end.
Ends(d) == {i \in 1..Len(d) : Scan(d)[i] \in {"S_FIN", "S_ERR"}}

\* Mutant: the index is advanced once more behind the last byte.
EatOne_OffByOne(d) == IF Ends(d) = {} THEN -1 ELSE Min(Ends(d)) + 1

\* What ansiseq_eatone returns: the length of the sequence at the head of d,
\* or -1 when d ends inside it.
EatOne(d) == IF Ends(d) = {} THEN -1 ELSE Min(Ends(d))

\* ansiseq_eatone panics when the table leads to the error state.
EatPanics(d) == Ends(d) # {} /\ Scan(d)[Min(Ends(d))] = "S_ERR"
=============================================================================
