------------------------------ MODULE Session -------------------------------
(***************************************************************************)
(* The main loop (core.c) and the ssh process that it runs (spawn.c): when *)
(* ssh ends or is stopped, SIGCHLD comes between any two steps of the      *)
(* program and leaves a flag, which only the top of the main loop looks    *)
(* at.  The dialogue with the switch (sc.c) is reduced to how much of a    *)
(* line is not written yet and how much of the switch's answer is not read *)
(* yet; Sc has the rest of it.                                             *)
(***************************************************************************)
EXTENDS Naturals

CONSTANTS
  MaxLine,     \* length of the longest line a user enters
  MaxAnswer,   \* pieces in the longest answer to a byte
  OutCap,      \* capacity of the pipe from ssh's stdout, in pieces
  ErrCap       \* capacity of the pipe from ssh's stderr, in messages

ASSUME SessionAssumption ==
  /\ MaxLine \in Nat \ {0} /\ MaxAnswer \in Nat \ {0}
  /\ OutCap \in Nat \ {0} /\ ErrCap \in Nat

VARIABLES
  pc,          \* where the program is
  exit,        \* why it has ended, or "none"
  s_state, s_sigchld,
  left,        \* bytes of the user's line that are not written yet
  caught,      \* sigchld is the handler of SIGCHLD
  open,        \* our ends of the pipes
  child,       \* what ssh is doing; "exiting" when its pipes are closed
               \* already and the signal has not been sent yet
  blocked,     \* ssh waits for room in the pipe from its stderr
  owed,        \* pieces of the answer that are still to come
  out, err,    \* what is in the pipes
  wasStopped   \* history: ssh has been stopped before

progVars == <<pc, exit, s_state, left, open>>
sigVars  == <<s_sigchld, caught>>
sshVars  == <<blocked, owed, out, err, wasStopped>>
vars == <<progVars, sigVars, child, sshVars>>

Init ==
  /\ pc = "launch" /\ exit = "none"
  /\ s_state = "BUSY" /\ left = 0
  /\ s_sigchld = FALSE /\ caught = TRUE
  /\ open = FALSE /\ child = "none" /\ blocked = FALSE
  /\ owed \in 1..MaxAnswer
  /\ out = 0 /\ err = 0
  /\ wasStopped = FALSE

Running(where) == exit = "none" /\ pc = where

\* Ssh does not hold its ends of the pipes any more.
Gone == child \in {"exiting", "dead", "reaped"}

C(why) ==
  /\ exit' = why
  /\ UNCHANGED <<pc, s_state, left, open, sigVars, child, sshVars>>
-----------------------------------------------------------------------------
(* the program *)

\* sc_start: the pipes and the fork succeed, or the program ends.
spawn_launch ==
  /\ Running("launch")
  /\ pc' = "top" /\ open' = TRUE /\ child' = "running"
  /\ UNCHANGED <<exit, s_state, left, sigVars, sshVars>>

LaunchFails == Running("launch") /\ C("could not spawn ssh")

\* Mutant: wait whether or not the signal has been seen.
spawn_operate_Unguarded ==
  /\ Running("top")
  /\ s_sigchld' = FALSE
  /\ pc' = "wait"
  /\ UNCHANGED <<exit, s_state, left, open, caught, child, sshVars>>

spawn_operate ==
  /\ Running("top")
  /\ s_sigchld' = FALSE
  /\ pc' = IF s_sigchld THEN "wait" ELSE "busy"
  /\ UNCHANGED <<exit, s_state, left, open, caught, child, sshVars>>

\* Mutant: the pipes of the dead child stay open.
dowait_KeepsPipes ==
  /\ Running("wait")
  /\ child = "dead"
  /\ child' = "reaped" /\ pc' = "busy"
  /\ UNCHANGED <<exit, s_state, left, open, sigVars, sshVars>>

\* wait blocks while the child lives, stopped or not.
dowait ==
  /\ Running("wait")
  /\ child \in {"dead", "reaped"}
  /\ IF child = "reaped" THEN C("waited for")
     ELSE /\ child' = "reaped" /\ open' = FALSE /\ pc' = "busy"
          /\ UNCHANGED <<exit, s_state, left, sigVars, sshVars>>

oper_writing ==
  /\ Running("busy") /\ s_state = "WRITING"
  /\ IF ~open \/ Gone THEN C("write")
     ELSE /\ s_state' = "BUSY" /\ left' = left - 1
          /\ owed' \in 1..MaxAnswer
          /\ UNCHANGED <<pc, exit, open, sigVars, child, blocked, out, err, wasStopped>>

Busy == Running("busy") /\ s_state = "BUSY"

BusyRead ==
  /\ Busy /\ open /\ out > 0
  /\ out' = 0
  /\ UNCHANGED <<progVars, sigVars, child, blocked, owed, err, wasStopped>>

BusyFails ==
  /\ Busy
  /\ ~open \/ (out = 0 /\ Gone)
  /\ C("read")

\* There is nothing to read, and ssh is there.
NoData == Busy /\ open /\ out = 0 /\ ~Gone

BusyNextByte ==
  /\ NoData /\ owed = 0 /\ left > 0
  /\ s_state' = "WRITING"
  /\ UNCHANGED <<pc, exit, left, open, sigVars, child, sshVars>>

\* The reply and the prompt are shown; uc_hasdata(true) waits for the user.
BusyDone ==
  /\ NoData /\ owed = 0 /\ left = 0
  /\ s_state' = "READY" /\ pc' = "user"
  /\ UNCHANGED <<exit, left, open, sigVars, child, sshVars>>

BusyWait ==
  /\ NoData /\ owed > 0
  /\ pc' = "select"
  /\ UNCHANGED <<exit, s_state, left, open, sigVars, child, sshVars>>

\* Mutant: select watches the wrong pipe.
Readable_Stderr == err > 0 \/ Gone

\* Mutant: the end of file does not count as readable.
Readable_NoHup == out > 0

Readable == out > 0 \/ Gone

selectfd ==
  /\ Running("select")
  /\ Readable
  /\ pc' = "busy"
  /\ UNCHANGED <<exit, s_state, left, open, sigVars, child, sshVars>>

Program == \/ spawn_launch \/ LaunchFails \/ spawn_operate \/ dowait
           \/ oper_writing \/ BusyRead \/ BusyFails \/ BusyNextByte
           \/ BusyDone \/ BusyWait \/ selectfd
-----------------------------------------------------------------------------
(* the user *)

EnterLine(n) ==
  /\ Running("user")
  /\ left' = n /\ s_state' = "WRITING" /\ pc' = "top"
  /\ UNCHANGED <<exit, open, sigVars, child, sshVars>>

CloseInput == Running("user") /\ C("read: EOF")

User == (\E n \in 1..MaxLine : EnterLine(n)) \/ CloseInput
-----------------------------------------------------------------------------
(* ssh and the kernel *)

\* signal(SIGCHLD, sigchld): by the rules of System V, which _POSIX_C_SOURCE
\* selects in some C libraries, the handler is good for one signal.
sigchld ==
  /\ s_sigchld' = (s_sigchld \/ caught)
  /\ caught' \in {caught, FALSE}

Works == exit = "none" /\ child = "running" /\ ~blocked

SshSends ==
  /\ Works /\ owed > 0 /\ out < OutCap
  /\ owed' = owed - 1 /\ out' = out + 1
  /\ UNCHANGED <<progVars, sigVars, child, blocked, err, wasStopped>>

\* Nobody reads what ssh has to say on its stderr.
SshComplains ==
  /\ Works
  /\ IF err < ErrCap THEN err' = err + 1 /\ UNCHANGED blocked
                     ELSE blocked' = TRUE /\ UNCHANGED err
  /\ UNCHANGED <<progVars, sigVars, child, owed, out, wasStopped>>

SshStops ==
  /\ exit = "none" /\ child = "running"
  /\ child' = "stopped" /\ wasStopped' = TRUE
  /\ sigchld
  /\ UNCHANGED <<progVars, blocked, owed, out, err>>

SshContinues ==
  /\ exit = "none" /\ child = "stopped"
  /\ child' = "running"
  /\ sigchld
  /\ UNCHANGED <<progVars, sshVars>>

\* The pipes are closed first, the signal is sent later.
SshExits ==
  /\ exit = "none" /\ child \in {"running", "stopped"}
  /\ child' = "exiting"
  /\ UNCHANGED <<progVars, sigVars, sshVars>>

SshDead ==
  /\ exit = "none" /\ child = "exiting"
  /\ child' = "dead"
  /\ sigchld
  /\ UNCHANGED <<progVars, sshVars>>

Ssh == SshSends \/ SshComplains \/ SshStops \/ SshContinues \/ SshExits \/ SshDead

Ended == exit # "none" /\ UNCHANGED vars

Next == Program \/ User \/ Ssh \/ Ended

\* The program runs when it can; an exit that has begun completes; ssh passes
\* on what the switch answers.
Spec == Init /\ [][Next]_vars
             /\ WF_vars(Program) /\ WF_vars(SshDead) /\ WF_vars(SshSends)
-----------------------------------------------------------------------------
\* The program goes into the blocking wait only for a child that is dead, so
\* that it does not block, unless ssh has been stopped before: then the signal
\* that told of the stop leads to a wait for a child that lives.
WaitsForTheDead ==
  pc = "wait" => child \in {"dead", "reaped"} \/ wasStopped

\* Once ssh has been waited for, the session is over: nothing that is left of
\* its output is read, no byte is written and no prompt is shown, whatever
\* point of the dialogue it was at, and it is not waited for again.
SilentAfterReaping ==
  [][child = "reaped" => /\ pc' \notin {"user", "wait"}
                         /\ UNCHANGED <<out, left>>]_vars

\* When ssh goes away the program ends; if it was waiting for the user, with the
\* next line.
DeathNoticed == (Gone /\ pc # "user") ~> exit # "none"

\* After every line the user gets a prompt again or the program ends, unless
\* ssh was stopped or is stuck on its stderr.
PromptComesBack ==
  pc = "top" ~> (pc = "user" \/ exit # "none" \/ blocked \/ wasStopped)
=============================================================================
