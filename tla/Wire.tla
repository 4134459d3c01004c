-------------------------------- MODULE Wire --------------------------------
(***************************************************************************)
(* What the user's side of swh promises: the switch gets the bytes that    *)
(* are typed, each once and in their order, and a line that has been       *)
(* completed is sent.  The promise is for ordinary input only: lines that  *)
(* fit the buffers, without NUL.                                           *)
(***************************************************************************)
EXTENDS Integers, Sequences

CONSTANTS
  NL,             \* the newline
  Ordinary(_)     \* the input that the promise is for

VARIABLES
  typed, sent,
  over            \* the program has ended

wvars == <<typed, sent, over>>

WireInit == typed = <<>> /\ sent = <<>> /\ over = FALSE

Type ==
  /\ Len(typed') = Len(typed) + 1 /\ SubSeq(typed', 1, Len(typed)) = typed
  /\ UNCHANGED <<sent, over>>

\* There is something to send when a newline is behind what has been sent.
Send ==
  /\ ~over /\ Ordinary(typed)
  /\ \E k \in Len(sent)+1..Len(typed) : typed[k] = NL
  /\ sent' = Append(sent, typed[Len(sent) + 1])
  /\ UNCHANGED <<typed, over>>

Garble == ~Ordinary(typed) /\ UNCHANGED <<typed, over>>

End == over' = TRUE /\ UNCHANGED <<typed, sent>>

WireSteps == WireInit /\ [][Type \/ Send \/ Garble \/ End]_wvars
WireSends == WF_wvars(Send)
=============================================================================
