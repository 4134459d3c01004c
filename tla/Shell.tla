------------------------------- MODULE Shell --------------------------------
(***************************************************************************)
(* What swh promises its user: after the login it shows a prompt, takes a  *)
(* line, and shows what the switch answered to that line with the prompt   *)
(* that follows it; then it takes the next line.  It may end at any time   *)
(* (the connection may break), but it never leaves the user waiting.       *)
(***************************************************************************)
CONSTANTS
  LoginPs1,    \* the prompt the switch gives first
  Answers      \* what may be shown after a line: records of out and ps1

VARIABLES
  mode,        \* "login", "ready", "running" or "dead"
  complete,    \* the line being run ends in a newline
  shown        \* what the user sees when a line can be entered

svars == <<mode, complete, shown>>

Blank == [out |-> <<>>, ps1 |-> <<>>]

ShellInit == mode = "login" /\ complete = FALSE /\ shown = Blank

Login ==
  /\ mode = "login" /\ mode' = "ready"
  /\ shown' = [out |-> <<>>, ps1 |-> LoginPs1]
  /\ UNCHANGED complete

Enter ==
  /\ mode = "ready" /\ mode' = "running"
  /\ complete' \in BOOLEAN
  /\ shown' = Blank

\* A line without a newline is no command yet: there is nothing to show.
Answer ==
  /\ mode = "running" /\ mode' = "ready"
  /\ shown' \in IF complete THEN Answers ELSE {Blank}
  /\ UNCHANGED complete

Die ==
  /\ mode # "dead" /\ mode' = "dead"
  /\ shown' = Blank
  /\ UNCHANGED complete

ShellNext == Login \/ Enter \/ Answer \/ Die

ShellSteps   == ShellInit /\ [][ShellNext]_svars
ShellAnswers == WF_svars(Login) /\ WF_svars(Answer)
=============================================================================
