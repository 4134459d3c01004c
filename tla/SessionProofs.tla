--------------------------- MODULE SessionProofs ----------------------------
(***************************************************************************)
(* The safety of the main loop with respect to the ssh process, for every  *)
(* length of lines and answers and every capacity of the pipes.            *)
(***************************************************************************)
EXTENDS Session, TLAPS

\* The flag is up only if ssh is dead or has been stopped before: this is what
\* lets spawn_operate go into the wait.
SignalMeans == s_sigchld => child \in {"dead", "reaped"} \/ wasStopped

\* There is no child, and thus no signal, before the launch.
Launching == pc = "launch" => child = "none" /\ ~s_sigchld

\* Ssh is stopped only after it was stopped.
StoppedOnce == child = "stopped" => wasStopped

\* After dowait the pipes are closed, and the program never gets out of the
\* loop that tries to use them.
ReapedOver == child = "reaped" => pc = "busy" /\ ~open

SInv == SignalMeans /\ Launching /\ StoppedOnce /\ WaitsForTheDead /\ ReapedOver

LEMMA SessionInit == Init => SInv
  BY DEF Init, SInv, SignalMeans, Launching, StoppedOnce, WaitsForTheDead, ReapedOver

\* A step of the program.
LEMMA ProgramStep ==
  ASSUME SInv, Program
  PROVE  SInv'
<1> USE DEF SInv, SignalMeans, Launching, StoppedOnce, WaitsForTheDead, ReapedOver,
            Running, C, progVars, sigVars, sshVars
<1>1. CASE spawn_launch
  BY <1>1 DEF spawn_launch
<1>2. CASE LaunchFails
  BY <1>2 DEF LaunchFails
<1>3. CASE spawn_operate
  BY <1>3 DEF spawn_operate
<1>4. CASE dowait
  BY <1>4 DEF dowait
<1>5. CASE oper_writing
  BY <1>5 DEF oper_writing
<1>6. CASE BusyRead
  BY <1>6 DEF BusyRead, Busy
<1>7. CASE BusyFails
  BY <1>7 DEF BusyFails, Busy
<1>8. CASE BusyNextByte \/ BusyDone \/ BusyWait
  BY <1>8 DEF BusyNextByte, BusyDone, BusyWait, NoData, Busy
<1>9. CASE selectfd
  BY <1>9 DEF selectfd
<1>10. QED
  BY <1>1, <1>2, <1>3, <1>4, <1>5, <1>6, <1>7, <1>8, <1>9 DEF Program

\* A step of ssh or of the kernel, between any two steps of the program.
LEMMA SshStep ==
  ASSUME SInv, Ssh
  PROVE  SInv'
<1> USE DEF SInv, SignalMeans, Launching, StoppedOnce, WaitsForTheDead, ReapedOver,
            Works, progVars, sigVars, sshVars
<1>1. CASE SshSends
  BY <1>1 DEF SshSends
<1>2. CASE SshComplains
  BY <1>2 DEF SshComplains
<1>3. CASE SshStops
  BY <1>3 DEF SshStops
<1>4. CASE SshContinues
  BY <1>4 DEF SshContinues
<1>5. CASE SshExits
  BY <1>5 DEF SshExits
<1>6. CASE SshDead
  BY <1>6 DEF SshDead
<1>7. QED
  BY <1>1, <1>2, <1>3, <1>4, <1>5, <1>6 DEF Ssh

\* A step of the user, the end, or none at all.
LEMMA UserStep ==
  ASSUME SInv, User \/ Ended \/ UNCHANGED vars
  PROVE  SInv'
<1> USE DEF SInv, SignalMeans, Launching, StoppedOnce, WaitsForTheDead, ReapedOver,
            Running, C, progVars, sigVars, sshVars, vars
<1>1. CASE User
  <2>1. CASE \E n \in 1..MaxLine : EnterLine(n)
    <3>1. PICK n \in 1..MaxLine : EnterLine(n)
      BY <2>1
    <3>2. QED
      BY <3>1 DEF EnterLine
  <2>2. CASE CloseInput
    BY <2>2 DEF CloseInput
  <2>3. QED
    BY <1>1, <2>1, <2>2 DEF User
<1>2. CASE Ended \/ UNCHANGED vars
  BY <1>2 DEF Ended
<1>3. QED
  BY <1>1, <1>2

\* The invariant holds of every session.
THEOREM SessionInvariance == Spec => []SInv
<1>1. Init => SInv
  BY SessionInit
<1>2. SInv /\ [Next]_vars => SInv'
  BY ProgramStep, SshStep, UserStep DEF Next
<1>3. QED
  BY <1>1, <1>2, PTL DEF Spec

\* spawn_operate waits only for a child that is dead, unless ssh was stopped.
THEOREM WaitingIsShort == Spec => []WaitsForTheDead
<1>1. SInv => WaitsForTheDead
  BY DEF SInv
<1>2. QED
  BY <1>1, SessionInvariance, PTL

\* Once ssh has been waited for, nothing is read, written or shown any more.
THEOREM NothingAfterReaping == Spec => SilentAfterReaping
<1> DEFINE Silent == child = "reaped" => /\ pc' \notin {"user", "wait"}
                                         /\ UNCHANGED <<out, left>>
<1>1. SInv /\ [Next]_vars => [Silent]_vars
  <2> SUFFICES ASSUME SInv, Next, child = "reaped"
               PROVE  Silent
    BY DEF SInv
  <2>1. pc = "busy" /\ ~open
    BY DEF SInv, ReapedOver
  <2> USE <2>1 DEF Running, Busy, C, progVars, sigVars, sshVars, vars
  <2>2. CASE Program
    <3>1. oper_writing \/ BusyFails
      BY <2>2 DEF Program, spawn_launch, LaunchFails, spawn_operate, dowait,
                  BusyRead, BusyNextByte, BusyDone, BusyWait, NoData, selectfd
    <3>2. QED
      BY <3>1 DEF oper_writing, BusyFails
  <2>3. CASE User \/ Ended
    BY <2>3 DEF User, EnterLine, CloseInput, Ended
  <2>4. CASE Ssh
    BY <2>4 DEF Ssh, SshSends, SshComplains, SshStops, SshContinues, SshExits,
                SshDead, Works
  <2>5. QED
    BY <2>2, <2>3, <2>4 DEF Next
<1>2. QED
  BY <1>1, SessionInvariance, PTL DEF Spec, SilentAfterReaping
=============================================================================
