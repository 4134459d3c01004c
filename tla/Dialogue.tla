------------------------------ MODULE Dialogue ------------------------------
(***************************************************************************)
(* Sc talking to an HP switch at the far end of ssh.  The switch is not    *)
(* part of the repository: it is modelled by what the three state machines *)
(* are written to eat.  It greets, waits for a key and for a terminal size *)
(* report, and gives a prompt; then it echoes every byte between escape    *)
(* sequences and answers a newline with output and a prompt, or with just  *)
(* a prompt or a question.  A response travels in pieces of any size.      *)
(***************************************************************************)
EXTENDS Sc

CONSTANTS
  LoginPs1,    \* the first prompt
  Replies,     \* answers to a command: records of out (may be empty) and ps1
  Coherent     \* no piece of a response ends with an escape sequence, except
               \* the last one

\* What the machines take for text, and what can be echoed as it is.
Plain == Byte \ {ESC}

ASSUME DialogueAssumption ==
  /\ LoginPs1 \in Seq(Plain) \ {<<>>}
  /\ \A r \in Replies : r \in [out : Seq(Plain), ps1 : Seq(Plain) \ {<<>>}]
  /\ Lines \subseteq Seq(Plain)
  /\ Coherent \in BOOLEAN

VARIABLES
  sw,          \* what the switch waits for: "key", "report" or "input"
  resp, done,  \* its current response and how much of it has been sent
  got,         \* how many of the bytes written to it the switch has read
  reply        \* its answer to the last newline

swVars == <<sw, resp, done, got, reply>>
dvars  == <<vars, swVars>>

Eseq == <<ESC, "H">>
Words == <<" ">>

NoReply == [out |-> <<>>, ps1 |-> <<>>]

DInit ==
  /\ Init
  /\ sw = "key"
  /\ resp = Words \o Eseq \o Words \o Eseq /\ done = 0
  /\ got = 0
  /\ reply = NoReply

\* A piece may end anywhere, or, if Coherent, not right behind an escape
\* sequence when there is more to come.
PieceMayEnd(n) ==
  Coherent => n = Len(resp) \/ ~(n > 1 /\ resp[n-1] = ESC)

SwSend ==
  \E n \in done+1..Len(resp) :
    /\ PieceMayEnd(n)
    /\ SshSends(SubSeq(resp, done + 1, n))
    /\ done' = n
    /\ UNCHANGED <<sw, resp, got, reply>>

\* The switch has said all it had to say and reads byte c.
Reads(c) ==
  /\ ~eof /\ exit = "none"
  /\ done = Len(resp) /\ got < Len(wrote) /\ c = wrote[got + 1]
  /\ got' = got + 1
  /\ done' = 0
  /\ UNCHANGED vars

SwKey ==
  /\ sw = "key" /\ Reads(AnyKey)
  /\ sw' = "report" /\ resp' = Eseq \o Words
  /\ UNCHANGED reply

SwReport ==
  /\ sw = "report" /\ Reads(Report)
  /\ sw' = "input" /\ resp' = Eseq \o LoginPs1 \o Eseq
  /\ UNCHANGED reply

SwEcho(c) ==
  /\ sw = "input" /\ c # NL /\ Reads(c)
  /\ resp' \in {Eseq \o <<c>> \o Eseq, Eseq \o <<c>> \o Eseq \o Eseq}
  /\ UNCHANGED <<sw, reply>>

SwReply(r) ==
  /\ sw = "input" /\ Reads(NL)
  /\ reply' = r
  /\ resp' = IF r.out = <<>> THEN Eseq \o r.ps1 \o Eseq
             ELSE Eseq \o r.out \o Eseq \o r.ps1 \o Eseq
  /\ UNCHANGED sw

Switch == \/ SwSend \/ SwKey \/ SwReport
          \/ \E c \in Byte : SwEcho(c)
          \/ \E r \in Replies : SwReply(r)

DNext == \/ (Program \/ SshExits \/ User \/ Idle) /\ UNCHANGED swVars
         \/ Switch

DSpec == DInit /\ [][DNext]_dvars /\ WF_dvars(Program /\ UNCHANGED swVars)
                                  /\ WF_dvars(Switch)
-----------------------------------------------------------------------------
\* When the user is asked for the next line, the output and the prompt on the
\* screen are those of the switch's answer to the last one, up to a NUL in it.
Show(r) == [out |-> CStr(r.out), ps1 |-> CStr(r.ps1)]
OnScreen == [out |-> s_outbuf, ps1 |-> s_ps1buf]

Faithful ==
  s_state = "READY" =>
    OnScreen = CASE s_curfsm = "init"   -> Show([NoReply EXCEPT !.ps1 = LoginPs1])
                 [] s_curfsm = "cmdout" -> Show(reply)
                 [] OTHER               -> NoReply

\* The next byte goes out only when all of the answer to the previous one has
\* arrived and has been eaten, so no late byte is taken for part of a later
\* answer.
Lockstep ==
  s_state \in {"WRITING", "READY"} =>
    fromSw = <<>> /\ s_readbuf = <<>> /\ done = Len(resp) /\ got = Len(wrote)

\* The machines understand all that the switch says, however it is cut into
\* pieces: the program ends only if ssh does.
EndsOnlyWithSsh == exit # "none" => eof /\ exit \in {"read: EOF", "write"}

\* "done, we have a question, or just a PS1 change but no real output": the
\* answer is taken to be without output only if it has none.
NooutMeansNoOutput ==
  s_state = "READY" /\ s_curfsm = "cmdout" /\ s_outbuf = <<>> => CStr(reply.out) = <<>>

\* The program as the user sees it.
Mode == CASE exit # "none"      -> "dead"
          [] exit = "none" /\ s_state = "READY" -> "ready"
          [] exit = "none" /\ s_state # "READY" /\ asked = <<>> -> "login"
          [] OTHER              -> "running"

Complete == asked # <<>> /\ asked[Len(asked)] = NL
Shown    == IF Mode = "ready" THEN OnScreen ELSE NoReply

TheShell ==
  INSTANCE Shell WITH
    Answers  <- {Show(r) : r \in Replies},
    LoginPs1 <- CStr(LoginPs1),
    mode     <- Mode,
    complete <- Complete,
    shown    <- Shown

\* swh over a coherent connection is such a shell: one answer per line, the
\* whole of it shown before the next line is taken, and nothing where a line
\* without a newline leaves the command open.
ImplementsShell == TheShell!ShellSteps

\* And no line, nor the login, is left without an answer.
NoLineUnanswered == TheShell!ShellAnswers
=============================================================================
