--------------------------- MODULE StartupProofs ----------------------------
(***************************************************************************)
(* When ssh is launched and what is called, for command lines of any       *)
(* length, any environment and any modules.                                *)
(***************************************************************************)
EXTENDS Startup, MinFacts

Opt == (Flags \cup {"x", "s"}) \X (Names \cup {""})

\* Where option o is on the command line.
At(o) == {k \in 1..Len(opts) : opts[k][1] = o}

\* The last one of them says name, or something else that is in also.
Last(o, name, also) ==
  At(o) # {} => Max(At(o)) \in At(o) /\ opts[Max(At(o))][2] \in {name} \cup also

Stops == {"X", "S", "h", "?"}

\* The names are those asked for last, until Host puts others in place of "auto".
Chosen ==
  /\ opts \in Seq(Opt)
  /\ pc \in {"init", "args"} => Last("s", s_sx, {}) /\ Last("x", s_ux, {})
  /\ Last("s", s_sx, {"auto"}) /\ Last("x", s_ux, {"auto"})

\* An option that asks for a list or for help ends the program.
Stopped ==
  (\A k \in 1..Len(opts) : opts[k][1] \notin Stops) \/ (pc = "args" /\ exit # "none")

\* What has been found and attached by the time the program gets somewhere.
Found ==
  /\ pc \in {"init", "args", "sc_init", "uc_init", "sc_start", "run"}
  /\ pc = "init" => opts = <<>>
  /\ pc \in {"uc_init", "sc_start", "run"} => s_sx \in backends /\ hp_attach \subseteq attached
  /\ pc \in {"sc_start", "run"} => s_ux \in frontends /\ uc_ia_attach \subseteq attached
  /\ ssh => pc = "run"
  /\ exit # "null pointer"

SInv == Chosen /\ Stopped /\ Found

\* Before main nothing has been chosen, attached or launched.
LEMMA StartInit == Init => SInv
<1> SUFFICES ASSUME Init PROVE SInv
  OBVIOUS
<1>1. opts = <<>> /\ At("s") = {} /\ At("x") = {}
  BY DEF Init, At
<1>2. opts \in Seq(Opt)
  BY <1>1
<1>3. Chosen
  BY <1>1, <1>2, Zenon DEF Chosen, Last
<1>4. Stopped
  BY <1>1 DEF Stopped
<1>5. Found
  BY DEF Init, Found
<1>6. QED
  BY <1>3, <1>4, <1>5 DEF SInv

\* What an option appended to the command line changes of it.
LEMMA OptionAppended ==
  ASSUME opts \in Seq(Opt), NEW new \in Opt, opts' = Append(opts, new)
  PROVE  /\ opts' \in Seq(Opt) /\ Len(opts) \in Nat /\ Len(opts') = Len(opts) + 1
         /\ opts'[Len(opts) + 1] = new /\ \A k \in 1..Len(opts) : opts'[k] = opts[k]
  OBVIOUS

\* Another option on the command line: it is the last of its kind, and the last
\* of any other kind stays where it is.
LEMMA LastGrows ==
  ASSUME opts \in Seq(Opt), NEW new \in Opt, opts' = Append(opts, new),
         NEW o, NEW name, Last(o, name, {})
  PROVE  Last(o, IF new[1] = o THEN new[2] ELSE name, {})'
<1> DEFINE n == Len(opts)
<1>1. /\ n \in Nat /\ Len(opts') = n + 1 /\ opts'[n + 1] = new
      /\ \A k \in 1..n : opts'[k] = opts[k]
  OBVIOUS
<1>2. CASE new[1] = o
  <2>1. At(o)' \in SUBSET Int /\ n + 1 \in At(o)' /\ \A x \in At(o)' : x <= n + 1
    BY <1>1, <1>2 DEF At
  <2>2. Max(At(o)') = n + 1
    BY <2>1, MaxIs, Zenon
  <2>3. QED
    BY <1>1, <1>2, <2>1, <2>2, Zenon DEF Last
<1>3. CASE new[1] # o
  <2>1. At(o)' = At(o)
    BY <1>1, <1>3 DEF At
  <2>2. \A k \in At(o) : opts'[k] = opts[k]
    BY <1>1, Zenon DEF At
  <2>3. QED
    BY <1>3, <2>1, <2>2, Zenon DEF Last
<1>4. QED
  BY <1>2, <1>3

\* One index more.
LEMMA UpTo ==
  ASSUME NEW n \in Nat, NEW k \in 1..n + 1
  PROVE  k \in 1..n \/ k = n + 1
  OBVIOUS

\* process_args: the name chosen is the one asked for last, and lists and
\* help end it.
LEMMA OptionStep ==
  ASSUME SInv, NEW o \in Flags \cup {"x", "s"}, NEW name \in Names \cup {""}, Option(o, name)
  PROVE  SInv'
<1> DEFINE new == <<o, name>>
<1>1. /\ pc = "args" /\ pc' = "args" /\ exit = "none" /\ opts' = Append(opts, new)
      /\ attached' = attached /\ ssh' = ssh
  BY Zenon DEF Option, Running
<1>2. new \in Opt /\ opts \in Seq(Opt) /\ new[1] = o /\ new[2] = name
  BY DEF SInv, Chosen, Opt
<1>3. s_sx' = IF o = "s" THEN name ELSE s_sx
  BY Zenon DEF Option
<1>4. s_ux' = IF o = "x" THEN name ELSE s_ux
  BY Zenon DEF Option
<1>5. exit' = IF o \in {"X", "S", "h"} THEN "success"
              ELSE IF o = "?" THEN "failure" ELSE "none"
  BY DEF Option
<1>6. Last("s", s_sx, {}) /\ Last("x", s_ux, {})
  BY <1>1, Zenon DEF SInv, Chosen
<1> HIDE DEF new
<1>7. /\ opts' \in Seq(Opt) /\ Len(opts) \in Nat /\ Len(opts') = Len(opts) + 1
      /\ opts'[Len(opts) + 1] = new
      /\ \A k \in 1..Len(opts) : opts'[k] = opts[k]
  BY <1>1, <1>2, OptionAppended
<1>8. Last("s", s_sx, {})'
  <2>1. PICK old : old = s_sx
    OBVIOUS
  <2>2. Last("s", old, {})
    BY <1>6, <2>1, Zenon
  <2>3. Last("s", IF new[1] = "s" THEN new[2] ELSE old, {})'
    BY <1>1, <1>2, <2>2, LastGrows
  <2>4. s_sx' = IF new[1] = "s" THEN new[2] ELSE old
    BY <1>2, <1>3, <2>1, Zenon
  <2>5. QED
    BY <2>3, <2>4, Zenon DEF Last
<1>9. Last("x", s_ux, {})'
  <2>1. PICK old : old = s_ux
    OBVIOUS
  <2>2. Last("x", old, {})
    BY <1>6, <2>1, Zenon
  <2>3. Last("x", IF new[1] = "x" THEN new[2] ELSE old, {})'
    BY <1>1, <1>2, <2>2, LastGrows
  <2>4. s_ux' = IF new[1] = "x" THEN new[2] ELSE old
    BY <1>2, <1>4, <2>1, Zenon
  <2>5. QED
    BY <2>3, <2>4, Zenon DEF Last
<1>10. Chosen'
  BY <1>7, <1>8, <1>9, Zenon DEF Chosen, Last
<1>11. Stopped'
  <2>1. CASE o \in Stops
    BY <1>1, <1>5, <2>1 DEF Stopped, Stops
  <2>2. CASE o \notin Stops
    <3>1. \A k \in 1..Len(opts) : opts[k][1] \notin Stops
      BY <1>1, Zenon DEF SInv, Stopped
    <3>2. \A k \in 1..Len(opts') : opts'[k][1] \notin Stops
      <4>1. ASSUME NEW k \in 1..Len(opts')
            PROVE  k \in 1..Len(opts) \/ k = Len(opts) + 1
        BY <1>7, UpTo, Zenon
      <4>2. opts'[Len(opts) + 1][1] \notin Stops
        BY <1>2, <1>7, <2>2, Zenon
      <4>3. \A k \in 1..Len(opts) : opts'[k][1] \notin Stops
        BY <1>7, <3>1, Zenon
      <4>4. QED
        BY <4>1, <4>2, <4>3, Zenon
    <3>3. QED
      BY <3>2, Zenon DEF Stopped
  <2>3. QED
    BY <2>1, <2>2
<1>12. Found'
  BY <1>1, <1>5 DEF SInv, Found
<1>13. QED
  BY <1>10, <1>11, <1>12 DEF SInv

\* Steps behind the options.
LEMMA OptionsStay ==
  ASSUME SInv, opts' = opts, s_sx' = s_sx, s_ux' = s_ux,
         pc' \in {"init", "args"} => pc \in {"init", "args"},
         exit = "none" \/ (pc' = pc /\ exit' = exit)
  PROVE  Chosen' /\ Stopped'
<1>1. At("s")' = At("s") /\ At("x")' = At("x")
  BY DEF At
<1>2. Chosen'
  BY <1>1, Zenon DEF SInv, Chosen, Last
<1>3. Stopped'
  BY Zenon DEF SInv, Stopped
<1>4. QED
  BY <1>2, <1>3

\* What is called is attached.
LEMMA InitAttached == {"init", "cmdout", "inchar"} \X {"f_init"} \subseteq hp_attach
  BY DEF hp_attach

\* oper_busy calls nothing but what the HP back-end attaches.
LEMMA BusyAttached ==
  ASSUME NEW f \in {"init", "cmdout", "inchar"}
  PROVE  oper_busy(f) \subseteq hp_attach
  BY DEF oper_busy, hp_attach

\* core calls nothing of the front-end but what it attaches.
LEMMA UcAttached ==
  {<<"uc", "f_init">>} \cup ({"uc"} \X {"f_putdata", "f_hasdata", "f_getdata"})
    \subseteq uc_ia_attach
  BY DEF uc_ia_attach

\* main, and the host name that ends the options.
LEMMA EarlyStep ==
  ASSUME SInv, main \/ Host
  PROVE  SInv'
<1>1. CASE main
  <2>1. Chosen' /\ Stopped'
    BY <1>1, OptionsStay DEF main, Running, argVars
  <2>2. Found'
    BY <1>1 DEF SInv, Found, main, Running, argVars
  <2>3. QED
    BY <2>1, <2>2 DEF SInv
<1>2. CASE Host
  <2>1. opts' = opts /\ pc = "args" /\ pc' = "sc_init" /\ exit = "none" /\ exit' = "none"
    BY <1>2 DEF Host, Running
  <2>2. s_sx' \in {s_sx} \/ s_sx = "auto"
    BY <1>2 DEF Host
  <2>3. s_ux' \in {s_ux} \/ s_ux = "auto"
    BY <1>2 DEF Host
  <2>4. At("s")' = At("s") /\ At("x")' = At("x")
    BY <2>1 DEF At
  <2>5. Last("s", s_sx, {}) /\ Last("x", s_ux, {})
    BY <2>1, Zenon DEF SInv, Chosen
  <2>6. Last("s", s_sx, {"auto"})' /\ Last("x", s_ux, {"auto"})'
    BY <2>1, <2>2, <2>3, <2>4, <2>5, Zenon DEF Last
  <2>7. Chosen'
    BY <2>1, <2>6, Zenon DEF SInv, Chosen
  <2>8. Stopped'
    BY <2>1, Zenon DEF SInv, Stopped
  <2>9. Found'
    BY <1>2, <2>1 DEF SInv, Found, Host
  <2>10. QED
    BY <2>7, <2>8, <2>9 DEF SInv
<1>3. QED
  BY <1>1, <1>2

\* core_init: the back-end and the front-end are found, attached and
\* initialised.
LEMMA AttachStep ==
  ASSUME SInv, sc_init \/ uc_init
  PROVE  SInv'
<1>1. CASE sc_init
  <2>1. UNCHANGED <<opts, s_sx, s_ux, ssh>> /\ pc = "sc_init" /\ exit = "none"
    BY <1>1 DEF sc_init, Running, Exit, argVars
  <2>2. CASE s_sx \in backends
    <3>1. pc' = "uc_init" /\ exit' = exit /\ attached' = attached \cup hp_attach
      BY <1>1, <2>2, InitAttached DEF sc_init, Call
    <3>2. Chosen' /\ Stopped'
      BY <2>1, <3>1, OptionsStay
    <3>3. Found'
      BY <2>1, <2>2, <3>1 DEF SInv, Found
    <3>4. QED
      BY <3>2, <3>3 DEF SInv
  <2>3. CASE s_sx \notin backends
    <3>1. pc' = pc /\ exit' = "could not find" /\ attached' = attached
      BY <1>1, <2>3 DEF sc_init, Exit
    <3>2. Chosen' /\ Stopped'
      BY <2>1, <3>1, OptionsStay
    <3>3. Found'
      BY <2>1, <3>1 DEF SInv, Found
    <3>4. QED
      BY <3>2, <3>3 DEF SInv
  <2>4. QED
    BY <2>2, <2>3
<1>2. CASE uc_init
  <2>1. UNCHANGED <<opts, s_sx, s_ux, ssh>> /\ pc = "uc_init" /\ exit = "none"
    BY <1>2 DEF uc_init, Running, Exit, argVars
  <2>2. CASE s_ux \in frontends
    <3>1. pc' = "sc_start" /\ exit' = exit /\ attached' = attached \cup uc_ia_attach
      BY <1>2, <2>2, UcAttached DEF uc_init, Call
    <3>2. Chosen' /\ Stopped'
      BY <2>1, <3>1, OptionsStay
    <3>3. Found'
      BY <2>1, <2>2, <3>1 DEF SInv, Found
    <3>4. QED
      BY <3>2, <3>3 DEF SInv
  <2>3. CASE s_ux \notin frontends
    <3>1. pc' = pc /\ exit' = "could not find" /\ attached' = attached
      BY <1>2, <2>3 DEF uc_init, Exit
    <3>2. Chosen' /\ Stopped'
      BY <2>1, <3>1, OptionsStay
    <3>3. Found'
      BY <2>1, <3>1 DEF SInv, Found
    <3>4. QED
      BY <3>2, <3>3 DEF SInv
  <2>4. QED
    BY <2>2, <2>3
<1>3. QED
  BY <1>1, <1>2

\* Steps that attach nothing: the launch, the main loop, the log and the errors.
LEMMA LateStep ==
  ASSUME SInv, sc_start \/ core_run \/ log_log \/ HostMissing \/ StartFails \/ Ended \/ UNCHANGED vars
  PROVE  SInv'
<1>1. UNCHANGED <<opts, s_sx, s_ux, attached>>
  BY DEF sc_start, core_run, log_log, HostMissing, StartFails, Ended, Exit, vars, argVars
<1>2. CASE sc_start
  BY <1>1, <1>2, OptionsStay DEF SInv, Found, sc_start, Running
<1>3. CASE core_run
  <2>1. PICK f \in {"init", "cmdout", "inchar"} :
          Call(oper_busy(f) \cup ({"uc"} \X {"f_putdata", "f_hasdata", "f_getdata"}),
               attached, "run")
    BY <1>3, Zenon DEF core_run
  <2>2. pc = "run" /\ exit = "none" /\ ssh' = ssh
    BY <1>3 DEF core_run, Running
  <2>3. hp_attach \subseteq attached /\ uc_ia_attach \subseteq attached
    BY <2>2 DEF SInv, Found
  <2>4. pc' = "run" /\ exit' = exit
    BY <2>1, <2>3, BusyAttached, UcAttached, Zenon DEF Call
  <2>5. Chosen' /\ Stopped'
    BY <1>1, <2>2, <2>4, OptionsStay
  <2>6. Found'
    BY <1>1, <2>2, <2>4 DEF SInv, Found
  <2>7. QED
    BY <2>5, <2>6 DEF SInv
<1>4. CASE log_log \/ HostMissing \/ StartFails \/ Ended \/ UNCHANGED vars
  <2>1. pc' = pc /\ ssh' = ssh
    BY <1>4 DEF log_log, HostMissing, StartFails, Ended, Exit, vars
  <2>2. exit' = exit \/ (exit = "none" /\ exit' \in {"argument missing", "could not spawn ssh"})
    BY <1>4 DEF log_log, HostMissing, StartFails, Ended, Exit, Running, vars
  <2>3. Chosen' /\ Stopped'
    BY <1>1, <2>1, <2>2, OptionsStay
  <2>4. Found'
    BY <1>1, <2>1, <2>2 DEF SInv, Found
  <2>5. QED
    BY <2>3, <2>4 DEF SInv
<1>5. QED
  BY <1>2, <1>3, <1>4

\* The inductive invariant holds in every state.
LEMMA StartInvariant == Spec => []SInv
<1>1. ASSUME SInv, [Next]_vars
      PROVE  SInv'
  <2>1. CASE (\E o \in Flags : Option(o, ""))
             \/ (\E o \in {"x", "s"}, name \in Names : Option(o, name))
    BY <1>1, <2>1, OptionStep
  <2>2. CASE ~ ((\E o \in Flags : Option(o, ""))
                \/ (\E o \in {"x", "s"}, name \in Names : Option(o, name)))
    BY <1>1, <2>2, EarlyStep, AttachStep, LateStep, Zenon DEF Next
  <2>3. QED
    BY <2>1, <2>2
<1>2. QED
  BY StartInit, <1>1, PTL DEF Spec

\* No function is called before it is attached, whatever names were asked for.
THEOREM NothingNullIsCalled == Spec => []NoNullCall
<1>1. SInv => NoNullCall
  BY DEF SInv, Found, NoNullCall
<1>2. QED
  BY <1>1, StartInvariant, PTL

\* However many options there are, ssh is launched only when the names asked for
\* last are known, and never after an option that only asks for a list or help.
THEOREM LaunchedOnlyWhenSetUp == Spec => []LaunchedWhenSetUp
<1>1. SInv => LaunchedWhenSetUp
  <2> SUFFICES ASSUME SInv, ssh PROVE LaunchedWhenSetUp
    BY Zenon DEF LaunchedWhenSetUp
  <2>1. pc = "run" /\ s_sx \in backends /\ s_ux \in frontends
    BY DEF SInv, Found
  <2>2. Last("s", s_sx, {"auto"}) /\ Last("x", s_ux, {"auto"})
    BY DEF SInv, Chosen
  <2>3. At("s") = {} \/ opts[Max(At("s"))][2] \in backends \cup {"auto"}
    BY <2>1, <2>2, Zenon DEF Last
  <2>4. At("x") = {} \/ opts[Max(At("x"))][2] \in frontends \cup {"auto"}
    BY <2>1, <2>2, Zenon DEF Last
  <2>5. \A k \in 1..Len(opts) : opts[k][1] \notin {"X", "S", "h", "?"}
    <3>1. pc # "args"
      BY <2>1
    <3>2. QED
      BY <3>1, Zenon DEF SInv, Stopped, Stops
  <2>6. {"init", "cmdout", "inchar", "uc"} \X {"f_init"} \subseteq attached
    <3>1. hp_attach \subseteq attached /\ uc_ia_attach \subseteq attached
      BY <2>1, Zenon DEF SInv, Found
    <3>2. {<<"uc", "f_init">>} \subseteq attached
      BY <3>1, UcAttached, Zenon
    <3>3. {"init", "cmdout", "inchar"} \X {"f_init"} \subseteq attached
      BY <3>1, InitAttached, Zenon
    <3>4. \A p \in {"init", "cmdout", "inchar", "uc"} \X {"f_init"} :
            p \in {"init", "cmdout", "inchar"} \X {"f_init"} \/ p = <<"uc", "f_init">>
      OBVIOUS
    <3>5. QED
      BY <3>2, <3>3, <3>4, Zenon
  <2>7. QED
    BY <2>3, <2>4, <2>5, <2>6, Zenon DEF LaunchedWhenSetUp, At
<1>2. QED
  BY <1>1, StartInvariant, PTL

-----------------------------------------------------------------------------
(* The log levels: the settings of the environment *)

\* What one setting does to the levels p.
SetBy(p, s) == CASE s[1] \in Mods    -> [p EXCEPT !.lvl[s[1]] = s[2]]
                 [] s[1] = Default   -> [p EXCEPT !.deflvl = s[2]]
                 [] OTHER            -> p

Unset == [lvl |-> [m \in Mods |-> INT_MIN], deflvl |-> DEF_LVL]

\* f is the function that Parsed defines by recursion, on the settings e.
ParseOf(f, e, n) == f = [k \in 0..n |-> IF k = 0 THEN Unset ELSE SetBy(f[k-1], e[k])]

\* There is one, for any number of settings.
LEMMA ParseExists ==
  ASSUME NEW e, NEW n \in Nat
  PROVE  \E f : ParseOf(f, e, n)
<1> DEFINE S == {m \in Nat : ~ \E f : ParseOf(f, e, m)}
<1>1. SUFFICES ASSUME S # {} PROVE FALSE
  BY Zenon
<1>2. PICK m \in S : \A k \in S : m <= k
  BY <1>1, MinMember, Zenon
<1> DEFINE Val(f, i) == IF i = 0 THEN Unset ELSE SetBy(f[i-1], e[i])
<1>3. CASE m = 0
  <2> DEFINE f == [i \in 0..m |-> Unset]
  <2>1. \A i \in 0..m : i = 0
    BY <1>3
  <2>2. f = [i \in 0..m |-> Val(f, i)]
    BY <2>1, Zenon
  <2>3. ParseOf(f, e, m)
    BY <2>2, Zenon DEF ParseOf
  <2>4. QED
    BY <1>2, <2>3, Zenon
<1>4. CASE m # 0
  <2> DEFINE p == m - 1
  <2>1. p \in Nat /\ ~ (m <= p) /\ m \in Nat
    BY <1>2, <1>4
  <2>2. PICK g : ParseOf(g, e, p)
    BY <1>2, <2>1, Zenon
  <2> DEFINE f == [i \in 0..m |-> Val(g, i)]
  <2>3. \A i \in 0..p : f[i] = g[i]
    <3>1. g = [i \in 0..p |-> Val(g, i)]
      BY <2>2, Zenon DEF ParseOf
    <3> HIDE DEF Val
    <3>2. \A i \in 0..p : i \in 0..m
      BY <2>1
    <3> HIDE DEF p
    <3>3. \A i \in 0..p : g[i] = Val(g, i)
      BY <3>1, Zenon
    <3>4. \A i \in 0..p : f[i] = Val(g, i)
      BY <3>2, Zenon
    <3>5. QED
      BY <3>3, <3>4, Zenon
  <2>4. \A i \in 0..m : i # 0 => i - 1 \in 0..p
    BY <2>1
  <2>5. \A i \in 0..m : Val(g, i) = Val(f, i)
    <3> HIDE DEF f, p
    <3>1. QED
      BY <2>3, <2>4, Zenon
  <2>6. f = [i \in 0..m |-> Val(f, i)]
    <3> DEFINE h == [i \in 0..m |-> Val(f, i)]
    <3> HIDE DEF Val
    <3>1. f = h
      BY <2>5, Zenon
    <3>2. QED
      BY <3>1, Zenon
  <2>7. ParseOf(f, e, m)
    BY <2>6, Zenon DEF ParseOf
  <2>8. QED
    BY <1>2, <2>7, Zenon
<1>5. QED
  BY <1>3, <1>4

\* v is what the last of the first k settings for x says, or d if there is none.
LastSays(x, k, v, d) ==
  \/ \E j \in 1..k : env[j][1] = x /\ env[j][2] = v /\ \A i \in j+1..k : env[i][1] # x
  \/ v = d /\ \A i \in 1..k : env[i][1] # x

\* The levels after the first k settings.
After(p, k) ==
  /\ p \in [lvl : [Mods -> Int], deflvl : Int]
  /\ \A m \in Mods : LastSays(m, k, p.lvl[m], INT_MIN)
  /\ LastSays(Default, k, p.deflvl, DEF_LVL)

\* One setting more.
LEMMA LastSaysNext ==
  ASSUME NEW x, NEW k \in Nat, NEW v, NEW d
  PROVE  /\ env[k + 1][1] = x => LastSays(x, k + 1, env[k + 1][2], d)
         /\ env[k + 1][1] # x /\ LastSays(x, k, v, d) => LastSays(x, k + 1, v, d)
<1>1. k + 1 \in 1..k+1 /\ \A i \in (k + 1)+1..k+1 : FALSE
  OBVIOUS
<1>2. env[k + 1][1] = x => LastSays(x, k + 1, env[k + 1][2], d)
  BY <1>1, Zenon DEF LastSays
<1>3. ASSUME env[k + 1][1] # x, LastSays(x, k, v, d)
      PROVE  LastSays(x, k + 1, v, d)
  <2>1. CASE \E j \in 1..k : env[j][1] = x /\ env[j][2] = v /\ \A i \in j+1..k : env[i][1] # x
    <3>1. PICK j \in 1..k : env[j][1] = x /\ env[j][2] = v /\ \A i \in j+1..k : env[i][1] # x
      BY <2>1
    <3>2. j \in 1..k+1 /\ \A i \in j+1..k+1 : i \in j+1..k \/ i = k + 1
      OBVIOUS
    <3>3. \A i \in j+1..k+1 : env[i][1] # x
      BY <1>3, <3>1, <3>2, Zenon
    <3>4. QED
      BY <3>1, <3>2, <3>3, Zenon DEF LastSays
  <2>2. CASE v = d /\ \A i \in 1..k : env[i][1] # x
    <3>1. \A i \in 1..k+1 : i \in 1..k \/ i = k + 1
      OBVIOUS
    <3>2. \A i \in 1..k+1 : env[i][1] # x
      BY <1>3, <2>2, <3>1, Zenon
    <3>3. QED
      BY <2>2, <3>2, Zenon DEF LastSays
  <2>3. QED
    BY <1>3, <2>1, <2>2, Zenon DEF LastSays
<1>4. QED
  BY <1>2, <1>3

LEMMA AfterNext ==
  ASSUME NEW k \in Nat, NEW p, After(p, k), env[k + 1] \in Settings
  PROVE  After(SetBy(p, env[k + 1]), k + 1)
<1> DEFINE s == env[k + 1]
           q == SetBy(p, s)
<1>1. s[1] \in Mods \cup {Default, Other} /\ s[2] \in Int
  <2>1. s \in Settings /\ EnvLevels \subseteq Int
    BY StartupAssumption
  <2> HIDE DEF s, q
  <2>2. QED
    BY <2>1 DEF Settings
<1>2. p \in [lvl : [Mods -> Int], deflvl : Int]
  BY DEF After
<1>3. Default \notin Mods
  BY StartupAssumption
<1> HIDE DEF s
<1>4. CASE s[1] \in Mods
  <2>1. q = [p EXCEPT !.lvl[s[1]] = s[2]]
    <3>1. s[1] # Default
      BY <1>3, <1>4
    <3>2. QED
      BY <1>4, <3>1, Zenon DEF SetBy
  <2> HIDE DEF q
  <2>2. q \in [lvl : [Mods -> Int], deflvl : Int] /\ q.deflvl = p.deflvl /\ q.lvl[s[1]] = s[2]
         /\ \A m \in Mods : m # s[1] => q.lvl[m] = p.lvl[m]
    BY <1>1, <1>2, <1>4, <2>1
  <2>3. LastSays(Default, k + 1, q.deflvl, DEF_LVL)
    BY <1>3, <1>4, <2>2, LastSaysNext DEF After, s
  <2>4. ASSUME NEW m \in Mods PROVE LastSays(m, k + 1, q.lvl[m], INT_MIN)
    <3>1. CASE m = s[1]
      <4>1. LastSays(m, k + 1, s[2], INT_MIN)
        BY <3>1, LastSaysNext DEF s
      <4>2. QED
        BY <2>2, <3>1, <4>1, Zenon
    <3>2. CASE m # s[1]
      <4>1. LastSays(m, k, p.lvl[m], INT_MIN)
        BY DEF After
      <4>2. LastSays(m, k + 1, p.lvl[m], INT_MIN)
        BY <3>2, <4>1, LastSaysNext DEF s
      <4>3. QED
        BY <2>2, <3>2, <4>2, Zenon
    <3>3. QED
      BY <3>1, <3>2
  <2>5. QED
    BY <2>2, <2>3, <2>4 DEF After, q, s
<1>5. CASE s[1] = Default
  <2>1. q = [p EXCEPT !.deflvl = s[2]]
    BY <1>3, <1>5, Zenon DEF SetBy
  <2> HIDE DEF q
  <2>2. q \in [lvl : [Mods -> Int], deflvl : Int] /\ q.deflvl = s[2] /\ q.lvl = p.lvl
    BY <1>1, <1>2, <2>1
  <2>3. LastSays(Default, k + 1, s[2], DEF_LVL)
    BY <1>5, LastSaysNext DEF s
  <2>4. ASSUME NEW m \in Mods PROVE LastSays(m, k + 1, q.lvl[m], INT_MIN)
    <3>1. LastSays(m, k, p.lvl[m], INT_MIN) /\ s[1] # m
      BY <1>3, <1>5 DEF After
    <3>2. LastSays(m, k + 1, p.lvl[m], INT_MIN)
      BY <3>1, LastSaysNext DEF s
    <3>3. QED
      BY <2>2, <3>2, Zenon
  <2>5. QED
    BY <2>2, <2>3, <2>4, Zenon DEF After, q, s
<1>6. CASE s[1] \notin Mods /\ s[1] # Default
  <2>1. q = p
    BY <1>6, Zenon DEF SetBy
  <2>2. LastSays(Default, k + 1, p.deflvl, DEF_LVL)
    BY <1>6, LastSaysNext DEF After, s
  <2>3. ASSUME NEW m \in Mods PROVE LastSays(m, k + 1, p.lvl[m], INT_MIN)
    <3>1. LastSays(m, k, p.lvl[m], INT_MIN) /\ s[1] # m
      BY <1>6 DEF After
    <3>2. QED
      BY <3>1, LastSaysNext DEF s
  <2> HIDE DEF q
  <2>4. QED
    BY <1>2, <2>1, <2>2, <2>3, Zenon DEF After, q, s
<1>7. QED
  BY <1>4, <1>5, <1>6

\* What Parsed returns is what the last settings say.
LEMMA ParsedIs ==
  ASSUME env \in Seq(Settings)
  PROVE  After(Parsed, Len(env))
<1> DEFINE n == Len(env)
<1>1. n \in Nat /\ \A k \in 1..n : env[k] \in Settings
  OBVIOUS
<1>2. \E f : ParseOf(f, env, n)
  BY <1>1, ParseExists
<1> DEFINE f == CHOOSE g : ParseOf(g, env, n)
<1>3. ParseOf(f, env, n)
  BY <1>2
<1>4. Parsed = f[n]
  BY Zenon DEF Parsed, ParseOf, SetBy, Unset
<1> HIDE DEF f, n
<1>5. f[0] = Unset /\ \A k \in 1..n : f[k] = SetBy(f[k-1], env[k])
  <2> DEFINE Val(i) == IF i = 0 THEN Unset ELSE SetBy(f[i-1], env[i])
  <2>1. f = [i \in 0..n |-> Val(i)]
    BY <1>3, Zenon DEF ParseOf
  <2>2. 0 \in 0..n /\ \A k \in 1..n : k \in 0..n /\ k # 0
    BY <1>1
  <2> HIDE DEF Val
  <2>3. f[0] = Val(0) /\ \A k \in 1..n : f[k] = Val(k)
    BY <2>1, <2>2, Zenon
  <2>4. QED
    BY <2>2, <2>3, Zenon DEF Val
<1> DEFINE S == {k \in 0..n : ~After(f[k], k)}
<1>6. S = {}
  <2> SUFFICES ASSUME S # {} PROVE FALSE
    OBVIOUS
  <2>1. S \in SUBSET Nat
    BY <1>1
  <2>2. PICK k \in S : \A j \in S : k <= j
    BY <2>1, MinMember, Zenon
  <2>3. k # 0
    <3>1. After(Unset, 0)
      <4>1. /\ Unset \in [lvl : [Mods -> Int], deflvl : Int] /\ Unset.deflvl = DEF_LVL
            /\ \A m \in Mods : Unset.lvl[m] = INT_MIN
        BY DEF Unset, INT_MIN, DEF_LVL
      <4>2. \A i \in 1..0 : FALSE
        OBVIOUS
      <4>3. QED
        BY <4>1, <4>2, Zenon DEF After, LastSays
    <3>2. QED
      BY <1>5, <2>2, <3>1, Zenon
  <2> DEFINE j == k - 1
  <2>4. j \in Nat /\ j + 1 = k /\ k \in 1..n /\ j \in 0..n /\ ~(k <= j)
    BY <1>1, <2>1, <2>2, <2>3
  <2>5. f[k] = SetBy(f[j], env[k]) /\ env[k] \in Settings
    BY <1>1, <1>5, <2>4 DEF n
  <2> HIDE DEF j
  <2>6. After(f[j], j)
    BY <2>2, <2>4, Zenon
  <2>7. After(f[k], k)
    <3>1. After(SetBy(f[j], env[j + 1]), j + 1)
      BY <2>4, <2>5, <2>6, AfterNext
    <3>2. QED
      BY <2>4, <2>5, <3>1, Zenon
  <2>8. QED
    BY <2>2, <2>7, Zenon
<1>7. After(f[n], n)
  <2>1. n \in 0..n
    BY <1>1
  <2>2. QED
    BY <1>6, <2>1, Zenon
<1>8. QED
  BY <1>4, <1>7 DEF n

\* Which of the first n settings are for x.
For(x, n) == {k \in 1..n : env[k][1] = x}

\* The last one is the one with the greatest index.
LEMMA LastIsMax ==
  ASSUME NEW x, NEW n \in Nat, NEW j \in 1..n, env[j][1] = x,
         \A i \in j+1..n : env[i][1] # x
  PROVE  j \in For(x, n) /\ Max(For(x, n)) = j
<1> DEFINE of == For(x, n)
<1> USE DEF For
<1>1. j \in of /\ of \in SUBSET Int
  OBVIOUS
<1>2. \A k \in of : k <= j
  <2> SUFFICES ASSUME NEW k \in of, ~(k <= j) PROVE FALSE
    OBVIOUS
  <2>1. k \in j+1..n
    OBVIOUS
  <2>2. QED
    BY <2>1
<1> HIDE DEF of
<1>3. j \in of /\ Max(of) = j
  BY <1>1, <1>2, MaxIs
<1>4. QED
  BY <1>3 DEF of

\* The level that log_init gives a module is the one that is asked for.
LEMMA ParsedIsAsked ==
  ASSUME env \in Seq(Settings), NEW m \in Mods
  PROVE  /\ EnvLevel(m) = IF Parsed.lvl[m] = INT_MIN THEN Parsed.deflvl ELSE Parsed.lvl[m]
         /\ EnvLevel(m) \in Nat
<1> DEFINE n == Len(env)
           v == Parsed.lvl[m]
           d == Parsed.deflvl
           om == For(m, n)
           od == For(Default, n)
<1>1. LastSays(m, n, v, INT_MIN) /\ LastSays(Default, n, d, DEF_LVL)
  BY ParsedIs DEF After
<1>2. /\ n \in Nat /\ INT_MIN \notin Nat /\ DEF_LVL \in Nat
      /\ \A k \in 1..n : env[k][2] \in Nat
  <2>1. \A k \in 1..n : env[k] \in (Mods \cup {Default, Other}) \X EnvLevels
    <3>1. \A k \in 1..n : env[k] \in Settings
      OBVIOUS
    <3>2. QED
      BY <3>1, Zenon DEF Settings
  <2>2. EnvLevels \subseteq Nat
    BY StartupAssumption
  <2>3. n \in Nat /\ INT_MIN \notin Nat /\ DEF_LVL \in Nat
    BY DEF INT_MIN, DEF_LVL
  <2> HIDE DEF n, v, d
  <2>4. QED
    BY <2>1, <2>2, <2>3
<1>3. \A k \in om : k \in 1..n
  BY DEF For
<1>4. EnvLevel(m) = IF om # {} THEN env[Max(om)][2]
                    ELSE IF od # {} THEN env[Max(od)][2] ELSE DEF_LVL
  BY Zenon DEF EnvLevel, For
<1> HIDE DEF v, d, n
<1>5. \/ om # {} /\ v \in Nat /\ env[Max(om)][2] = v
      \/ om = {} /\ v = INT_MIN
  <2>1. CASE \E j \in 1..n : env[j][1] = m /\ env[j][2] = v /\ \A i \in j+1..n : env[i][1] # m
    <3>1. PICK j \in 1..n : env[j][1] = m /\ env[j][2] = v /\ \A i \in j+1..n : env[i][1] # m
      BY <2>1
    <3>2. j \in om /\ Max(om) = j
      <4>1. /\ n \in Nat /\ j \in 1..n /\ env[j][1] = m /\ \A i \in j+1..n : env[i][1] # m
        BY <1>2, <3>1, Zenon
      <4>2. QED
        BY <4>1, LastIsMax
    <3>3. QED
      BY <1>2, <3>1, <3>2, Zenon
  <2>2. CASE v = INT_MIN /\ \A i \in 1..n : env[i][1] # m
    BY <2>2, Zenon DEF For
  <2>3. QED
    BY <1>1, <2>1, <2>2, Zenon DEF LastSays
<1>6. \/ od # {} /\ d \in Nat /\ env[Max(od)][2] = d
      \/ od = {} /\ d = DEF_LVL
  <2>1. CASE \E j \in 1..n : env[j][1] = Default /\ env[j][2] = d /\ \A i \in j+1..n : env[i][1] # Default
    <3>1. PICK j \in 1..n : env[j][1] = Default /\ env[j][2] = d /\ \A i \in j+1..n : env[i][1] # Default
      BY <2>1
    <3>2. j \in od /\ Max(od) = j
      <4>1. /\ n \in Nat /\ j \in 1..n /\ env[j][1] = Default /\ \A i \in j+1..n : env[i][1] # Default
        BY <1>2, <3>1, Zenon
      <4>2. QED
        BY <4>1, LastIsMax
    <3>3. QED
      BY <1>2, <3>1, <3>2, Zenon
  <2>2. CASE d = DEF_LVL /\ \A i \in 1..n : env[i][1] # Default
    BY <2>2, Zenon DEF For
  <2>3. QED
    BY <1>1, <2>1, <2>2, Zenon DEF LastSays
<1>7. EnvLevel(m) = (IF v = INT_MIN THEN d ELSE v) /\ EnvLevel(m) \in Nat
  <2> HIDE DEF om, od
  <2>1. QED
    BY <1>2, <1>4, <1>5, <1>6, Zenon
<1>8. QED
  BY <1>7 DEF v, d

-----------------------------------------------------------------------------
(* The log levels: the options that change them *)

\* Sum adds up the steps of the options o from i to j.
SumOf(f, o, i, j) == f = [k \in i-1..j |-> IF k < i THEN 0 ELSE f[k-1] + Step(o[k])]

Total(o, i, j) == LET f[k \in i-1..j] == IF k < i THEN 0 ELSE f[k-1] + Step(o[k]) IN f[j]

SumEquations(f, o, i, j) ==
  f[i - 1] = 0 /\ \A k \in i..j : f[k] = f[k-1] + Step(o[k])

LEMMA SumOfEquations ==
  ASSUME NEW f, NEW o, NEW i \in Nat, NEW j \in Nat, i <= j + 1, SumOf(f, o, i, j)
  PROVE  SumEquations(f, o, i, j)
<1> DEFINE Val(k) == IF k < i THEN 0 ELSE f[k-1] + Step(o[k])
<1>1. f = [k \in i-1..j |-> Val(k)]
  BY Zenon DEF SumOf
<1>2. i - 1 \in i-1..j /\ i - 1 < i /\ \A k \in i..j : k \in i-1..j /\ ~(k < i)
  OBVIOUS
<1> HIDE DEF Val
<1>3. f[i - 1] = Val(i - 1) /\ \A k \in i..j : f[k] = Val(k)
  BY <1>1, <1>2, Zenon
<1>4. QED
  BY <1>2, <1>3, Zenon DEF SumEquations, Val

\* There is such a function, for any range.
LEMMA SumExists ==
  ASSUME NEW o, NEW i \in Nat \ {0}, NEW n \in Nat
  PROVE  \E f : SumOf(f, o, i, (i - 1) + n)
<1> DEFINE S == {m \in Nat : ~ \E f : SumOf(f, o, i, (i - 1) + m)}
<1>1. SUFFICES ASSUME S # {} PROVE FALSE
  BY Zenon
<1>2. PICK m \in S : \A k \in S : m <= k
  BY <1>1, MinMember, Zenon
<1> DEFINE Val(f, k) == IF k < i THEN 0 ELSE f[k-1] + Step(o[k])
<1>3. CASE m = 0
  <2> DEFINE f == [k \in i-1..(i - 1) + m |-> 0]
  <2>1. \A k \in i-1..(i - 1) + m : k < i
    BY <1>3
  <2>2. f = [k \in i-1..(i - 1) + m |-> Val(f, k)]
    BY <2>1, Zenon
  <2>3. SumOf(f, o, i, (i - 1) + m)
    BY <2>2, Zenon DEF SumOf
  <2>4. QED
    BY <1>2, <2>3, Zenon
<1>4. CASE m # 0
  <2> DEFINE p == m - 1
             b == (i - 1) + p
             e == (i - 1) + m
  <2>1. p \in Nat /\ ~ (m <= p) /\ m \in Nat
    BY <1>2, <1>4
  <2>2. PICK g : SumOf(g, o, i, b)
    BY <1>2, <2>1, Zenon
  <2>3. /\ \A k \in i-1..b : k \in i-1..e
        /\ \A k \in i-1..e : ~(k < i) => k - 1 \in i-1..b
    BY <2>1
  <2> HIDE DEF b, e
  <2> DEFINE f == [k \in i-1..e |-> Val(g, k)]
  <2>4. \A k \in i-1..b : f[k] = g[k]
    <3>1. g = [k \in i-1..b |-> Val(g, k)]
      BY <2>2, Zenon DEF SumOf
    <3> HIDE DEF Val
    <3>2. \A k \in i-1..b : g[k] = Val(g, k)
      BY <3>1, Zenon
    <3>3. \A k \in i-1..b : f[k] = Val(g, k)
      BY <2>3, Zenon
    <3>4. QED
      BY <3>2, <3>3, Zenon
  <2>5. \A k \in i-1..e : Val(g, k) = Val(f, k)
    <3> HIDE DEF f
    <3>1. QED
      BY <2>3, <2>4, Zenon
  <2>6. f = [k \in i-1..e |-> Val(f, k)]
    <3> DEFINE h == [k \in i-1..e |-> Val(f, k)]
    <3> HIDE DEF Val
    <3>1. f = h
      BY <2>5, Zenon
    <3>2. QED
      BY <3>1, Zenon
  <2>7. SumOf(f, o, i, e)
    BY <2>6, Zenon DEF SumOf
  <2>8. QED
    BY <1>2, <2>7, Zenon DEF e
<1>5. QED
  BY <1>3, <1>4

\* So Total is the last value of one.
LEMMA TotalIs ==
  ASSUME NEW o, NEW i \in Nat \ {0}, NEW j \in Nat, i <= j + 1
  PROVE  \E f : SumEquations(f, o, i, j) /\ Total(o, i, j) = f[j]
<1> DEFINE n == j - (i - 1)
<1>1. n \in Nat /\ (i - 1) + n = j
  OBVIOUS
<1>2. \E f : SumOf(f, o, i, j)
  <2>1. \E f : SumOf(f, o, i, (i - 1) + n)
    BY <1>1, SumExists
  <2> HIDE DEF n
  <2>2. QED
    BY <1>1, <2>1, Zenon
<1> DEFINE f == CHOOSE g : SumOf(g, o, i, j)
<1>3. SumOf(f, o, i, j)
  BY <1>2
<1>4. Total(o, i, j) = f[j]
  BY Zenon DEF Total, SumOf
<1> HIDE DEF f
<1>5. SumEquations(f, o, i, j)
  BY <1>3, SumOfEquations
<1>6. QED
  BY <1>4, <1>5, Zenon

\* Two such functions agree where the options do.
LEMMA SumAgree ==
  ASSUME NEW f, NEW g, NEW o, NEW q, NEW i \in Nat \ {0}, NEW j \in Nat, NEW e \in Nat,
         i <= j + 1, j <= e, \A k \in 1..j : q[k] = o[k],
         SumEquations(f, o, i, j), SumEquations(g, q, i, e)
  PROVE  f[j] = g[j]
<1> DEFINE S == {k \in Nat : k \in i-1..j /\ f[k] # g[k]}
<1>1. S = {}
  <2> SUFFICES ASSUME S # {} PROVE FALSE
    OBVIOUS
  <2>1. PICK k \in S : \A m \in S : k <= m
    BY MinMember, Zenon
  <2>2. k # i - 1
    BY <2>1, Zenon DEF SumEquations
  <2> DEFINE m == k - 1
  <2>3. k \in Nat /\ k \in i..j /\ k \in i..e /\ k \in 1..j /\ m \in Nat /\ m \in i-1..j /\ ~(k <= m)
    BY <2>1, <2>2
  <2>4. f[m] = g[m]
    <3> HIDE DEF m
    <3>1. QED
      BY <2>1, <2>3, Zenon
  <2>5. f[k] = f[m] + Step(o[k]) /\ g[k] = g[m] + Step(q[k]) /\ q[k] = o[k]
    BY <2>3, Zenon DEF SumEquations
  <2> HIDE DEF m
  <2>6. f[k] = g[k]
    BY <2>4, <2>5, Zenon
  <2>7. QED
    BY <2>1, <2>6, Zenon
<1>2. j \in i-1..j /\ j \in Nat
  OBVIOUS
<1>3. QED
  BY <1>1, <1>2, Zenon

\* One option more adds its step to what has been added up from i; behind it
\* there is nothing to add.
LEMMA TotalNext ==
  ASSUME NEW o \in Seq(Opt), NEW new \in Opt, NEW i \in 1..Len(o)+1
  PROVE  Total(Append(o, new), i, Len(o) + 1) = Total(o, i, Len(o)) + Step(new)
<1> DEFINE n == Len(o)
           q == Append(o, new)
<1>1. /\ n \in Nat /\ i \in Nat \ {0} /\ i <= n + 1 /\ i <= (n + 1) + 1 /\ n <= n + 1
      /\ n + 1 \in i..n+1 /\ (n + 1) - 1 = n /\ n + 1 \in Nat
  OBVIOUS
<1>2. (\A k \in 1..n : q[k] = o[k]) /\ q[n + 1] = new
  OBVIOUS
<1> HIDE DEF n, q
<1>3. PICK f : SumEquations(f, o, i, n) /\ Total(o, i, n) = f[n]
  BY <1>1, TotalIs
<1>4. PICK g : SumEquations(g, q, i, n + 1) /\ Total(q, i, n + 1) = g[n + 1]
  BY <1>1, TotalIs
<1>5. f[n] = g[n]
  BY <1>1, <1>2, <1>3, <1>4, SumAgree
<1>6. g[n + 1] = g[n] + Step(new)
  BY <1>1, <1>2, <1>4, Zenon DEF SumEquations
<1>7. QED
  BY <1>3, <1>4, <1>5, <1>6, Zenon DEF n, q

LEMMA TotalNone ==
  ASSUME NEW o, NEW n \in Nat
  PROVE  Total(o, n + 1, n) = 0
<1>1. n + 1 \in Nat \ {0} /\ n + 1 <= n + 1 /\ (n + 1) - 1 = n
  OBVIOUS
<1>2. PICK f : SumEquations(f, o, n + 1, n) /\ Total(o, n + 1, n) = f[n]
  BY <1>1, TotalIs
<1>3. QED
  BY <1>1, <1>2, Zenon DEF SumEquations

LEMMA TotalType ==
  ASSUME NEW o, NEW i \in Nat \ {0}, NEW j \in Nat, i <= j + 1
  PROVE  Total(o, i, j) \in Int
<1>1. PICK f : SumEquations(f, o, i, j) /\ Total(o, i, j) = f[j]
  BY TotalIs
<1>2. \A k : Step(o[k]) \in Int
  BY DEF Step
<1> DEFINE S == {k \in Nat : k \in i-1..j /\ f[k] \notin Int}
<1>3. S = {}
  <2> SUFFICES ASSUME S # {} PROVE FALSE
    OBVIOUS
  <2>1. PICK k \in S : \A m \in S : k <= m
    BY MinMember, Zenon
  <2>2. k # i - 1
    <3>1. f[i - 1] = 0 /\ 0 \in Int
      BY <1>1 DEF SumEquations
    <3>2. QED
      BY <2>1, <3>1, Zenon
  <2> DEFINE m == k - 1
  <2>3. k \in Nat /\ k \in i..j /\ m \in Nat /\ m \in i-1..j /\ ~(k <= m)
    BY <2>1, <2>2
  <2>4. f[m] \in Int
    <3> HIDE DEF m
    <3>1. QED
      BY <2>1, <2>3, Zenon
  <2>5. f[k] = f[m] + Step(o[k])
    BY <1>1, <2>3, Zenon DEF SumEquations
  <2> HIDE DEF m
  <2>6. f[k] \in Int
    BY <1>2, <2>4, <2>5
  <2>7. QED
    BY <2>1, <2>6, Zenon
<1>4. j \in i-1..j /\ j \in Nat
  OBVIOUS
<1>5. QED
  BY <1>1, <1>3, <1>4, Zenon

\* Where the options flags are, those that say what the level is to be, and
\* those that set it; and what Asked takes the greatest of.
Where(o, flags) == {k \in 1..Len(o) : o[k][1] \in flags}
Tuning(o)       == Where(o, {"v", "q"})
Touching(o)     == Where(o, {"c", "v", "q"})

Candidates(o) ==
  {EnvLevel(MOD_INIT) + Total(o, 1, Len(o))} \cup {Total(o, k + 1, Len(o)) : k \in Tuning(o)}

Greatest(m, S) == m \in S /\ S \subseteq Int /\ \A x \in S : x <= m

\* No level has been changed yet, or all have been set to the same.
Untouched(o) ==
  /\ Touching(o) = {} /\ Tuning(o) = {} /\ Total(o, 1, Len(o)) = 0
  /\ s_lvlarr = [m \in Mods |-> EnvLevel(m)]

Tuned(o) ==
  /\ Touching(o) # {}
  /\ \E lvl \in Nat : s_lvlarr = [m \in Mods |-> lvl] /\ Greatest(lvl, Candidates(o))

Colors(o) == s_fancy = (envFancy \/ \E k \in 1..Len(o) : o[k][1] = "c")

Levels ==
  /\ env \in Seq(Settings) /\ envFancy \in BOOLEAN
  /\ pc # "init" => s_init /\ (Untouched(opts) \/ Tuned(opts)) /\ Colors(opts)

\* The greater one of two numbers.
LEMMA MaxOfTwo ==
  ASSUME NEW a \in Int, NEW b \in Int
  PROVE  Max({a, b}) \in {a, b} /\ a <= Max({a, b}) /\ b <= Max({a, b})
<1>1. CASE a <= b
  <2>1. Max({a, b}) = b
    BY <1>1, MaxIs
  <2>2. QED
    BY <1>1, <2>1
<1>2. CASE ~(a <= b)
  <2>1. Max({a, b}) = a
    BY <1>2, MaxIs
  <2>2. QED
    BY <1>2, <2>1
<1>3. QED
  BY <1>1, <1>2

\* Where some options are, with one option more.
LEMMA WhereNext ==
  ASSUME NEW o \in Seq(Opt), NEW new \in Opt, NEW flags
  PROVE  /\ new[1] \in flags => Where(Append(o, new), flags) = Where(o, flags) \cup {Len(o) + 1}
         /\ new[1] \notin flags => Where(Append(o, new), flags) = Where(o, flags)
         /\ Where(o, flags) \subseteq 1..Len(o)
         /\ Len(o) \in Nat /\ Len(Append(o, new)) = Len(o) + 1
<1> DEFINE n == Len(o)
           q == Append(o, new)
<1>1. /\ n \in Nat /\ Len(q) = n + 1 /\ q[n + 1] = new
      /\ \A k \in 1..n : q[k] = o[k]
  OBVIOUS
<1>2. Where(q, flags) = {k \in 1..n+1 : q[k][1] \in flags}
  BY <1>1, Zenon DEF Where
<1>3. Where(o, flags) = {k \in 1..n : o[k][1] \in flags}
  BY Zenon DEF Where
<1>4. Where(o, flags) \subseteq 1..n
  BY <1>3, Zenon
<1> HIDE DEF n, q
<1>5. /\ \A k \in 1..n+1 : k \in 1..n \/ k = n + 1
      /\ \A k \in 1..n : k \in 1..n+1 /\ k # n + 1
      /\ n + 1 \in 1..n+1
  BY <1>1
<1>6. ASSUME new[1] \in flags PROVE Where(q, flags) = Where(o, flags) \cup {n + 1}
  BY <1>1, <1>2, <1>3, <1>5, <1>6, Zenon
<1>7. ASSUME new[1] \notin flags PROVE Where(q, flags) = Where(o, flags)
  BY <1>1, <1>2, <1>3, <1>5, <1>7, Zenon
<1>8. QED
  BY <1>1, <1>4, <1>6, <1>7 DEF n, q

\* What is added up from anywhere, with one option more.
LEMMA CandidatesNext ==
  ASSUME env \in Seq(Settings), NEW o \in Seq(Opt), NEW new \in Opt
  PROVE  LET q == Append(o, new)
             moved == {x + Step(new) : x \in Candidates(o)}
         IN  /\ new[1] \in {"v", "q"} => Candidates(q) = moved \cup {0}
             /\ new[1] \notin {"v", "q"} => Candidates(q) = moved
<1> DEFINE n == Len(o)
           q == Append(o, new)
           d == Step(new)
           E == EnvLevel(MOD_INIT)
           moved == {x + d : x \in Candidates(o)}
<1>1. n \in Nat /\ Len(q) = n + 1 /\ Tuning(o) \subseteq 1..n
  BY WhereNext DEF Tuning
<1>2. \A i \in 1..n+1 : Total(q, i, n + 1) = Total(o, i, n) + d
  BY TotalNext
<1>3. 1 \in 1..n+1 /\ \A k \in Tuning(o) : k + 1 \in 1..n+1
  BY <1>1
<1>4. n + 1 \in Nat
  BY <1>1
<1>5. E \in Int /\ d \in Int /\ Total(o, 1, n) \in Int /\ \A k \in Tuning(o) : Total(o, k + 1, n) \in Int
  <2>1. E \in Int
    BY ParsedIsAsked, StartupAssumption
  <2>2. d \in Int
    BY DEF Step
  <2> HIDE DEF n, E, d
  <2>3. \A i \in 1..n+1 : i \in Nat \ {0} /\ i <= n + 1
    BY <1>1
  <2>4. \A i \in 1..n+1 : Total(o, i, n) \in Int
    BY <1>1, <2>3, TotalType
  <2>5. QED
    BY <1>3, <2>1, <2>2, <2>4, Zenon
<1> HIDE DEF n, q, d, E
<1>6. Total(q, (n + 1) + 1, n + 1) = 0
  BY <1>4, TotalNone
<1>7. Candidates(q) = {E + Total(q, 1, n + 1)} \cup {Total(q, k + 1, n + 1) : k \in Tuning(q)}
  BY <1>1, Zenon DEF Candidates, E
<1>8. Candidates(o) = {E + Total(o, 1, n)} \cup {Total(o, k + 1, n) : k \in Tuning(o)}
  BY Zenon DEF Candidates, E, n
<1>9. Total(q, 1, n + 1) = Total(o, 1, n) + d /\ \A k \in Tuning(o) : Total(q, k + 1, n + 1) = Total(o, k + 1, n) + d
  BY <1>2, <1>3, Zenon
<1>10. E + Total(q, 1, n + 1) = (E + Total(o, 1, n)) + d
  BY <1>5, <1>9
<1> DEFINE T == {Total(q, k + 1, n + 1) : k \in Tuning(o)}
<1>11. {E + Total(q, 1, n + 1)} \cup T = moved
  BY <1>8, <1>9, <1>10, ZenonT(30)
<1>12. CASE new[1] \in {"v", "q"}
  <2>1. Tuning(q) = Tuning(o) \cup {n + 1}
    BY <1>12, WhereNext DEF Tuning, n, q
  <2>2. {Total(q, k + 1, n + 1) : k \in Tuning(q)} = T \cup {0}
    <3> HIDE DEF T
    <3>1. {Total(q, k + 1, n + 1) : k \in Tuning(o) \cup {n + 1}} = {Total(q, k + 1, n + 1) : k \in Tuning(o)} \cup {Total(q, (n + 1) + 1, n + 1)}
      BY Zenon
    <3>2. QED
      BY <1>6, <2>1, <3>1, Zenon DEF T
  <2> HIDE DEF T, moved
  <2>3. Candidates(q) = moved \cup {0}
    BY <1>7, <1>11, <2>2, Zenon
  <2>4. QED
    BY <1>12, <2>3 DEF moved, q, d
<1>13. CASE new[1] \notin {"v", "q"}
  <2>1. Tuning(q) = Tuning(o)
    BY <1>13, WhereNext DEF Tuning, q
  <2>2. Candidates(q) = moved
    BY <1>7, <1>11, <2>1, Zenon
  <2> HIDE DEF moved
  <2>3. QED
    BY <1>13, <2>2 DEF moved, q, d
<1>14. QED
  BY <1>12, <1>13

\* Levels of all modules that update_logger raises or lowers, or leaves.
LEMMA GreatestMoves ==
  ASSUME NEW L \in Int, NEW d \in Int, NEW C, Greatest(L, C)
  PROVE  Greatest(Max({0, L + d}), {x + d : x \in C} \cup {0})
<1> DEFINE G == Max({0, L + d})
           moved == {x + d : x \in C}
<1>1. L \in C /\ C \subseteq Int /\ \A x \in C : x <= L
  BY DEF Greatest
<1>2. G \in {0, L + d} /\ 0 <= G /\ L + d <= G
  <2>1. 0 \in Int /\ L + d \in Int
    OBVIOUS
  <2>2. QED
    BY <2>1, MaxOfTwo, Zenon
<1> HIDE DEF G
<1>3. L + d \in moved /\ moved \subseteq Int /\ \A y \in moved : y <= L + d
  BY <1>1
<1> HIDE DEF moved
<1>4. G \in moved \cup {0} /\ moved \cup {0} \subseteq Int
  BY <1>2, <1>3
<1>5. \A y \in moved \cup {0} : y <= G
  BY <1>2, <1>3
<1>6. QED
  BY <1>4, <1>5 DEF Greatest, G, moved

LEMMA GreatestStays ==
  ASSUME NEW L, NEW C, Greatest(L, C)
  PROVE  Greatest(L, {x + 0 : x \in C})
<1>1. \A x \in C : x + 0 = x
  BY DEF Greatest
<1>2. {x + 0 : x \in C} = C
  BY <1>1, Zenon
<1>3. QED
  BY <1>2

\* What init.c finds before it changes a level.
LEMMA InitLevel ==
  ASSUME Levels, pc # "init", NEW o \in Seq(Opt), o = opts
  PROVE  s_lvlarr[MOD_INIT] \in Nat /\ Greatest(s_lvlarr[MOD_INIT], Candidates(o))
<1>1. MOD_INIT \in Mods
  BY StartupAssumption
<1>2. CASE Untouched(o)
  <2> DEFINE E == EnvLevel(MOD_INIT)
  <2>1. s_lvlarr[MOD_INIT] = E /\ E \in Nat
    <3>1. E \in Nat
      BY <1>1, ParsedIsAsked DEF Levels
    <3>2. s_lvlarr[MOD_INIT] = E
      BY <1>1, <1>2, Zenon DEF Untouched
    <3> HIDE DEF E
    <3>3. QED
      BY <3>1, <3>2
  <2>2. Candidates(o) = {E + Total(o, 1, Len(o))} \cup {Total(o, k + 1, Len(o)) : k \in {}}
    BY <1>2, Zenon DEF Untouched, Candidates
  <2>3. Total(o, 1, Len(o)) = 0
    BY <1>2, Zenon DEF Untouched
  <2> HIDE DEF E
  <2>4. Candidates(o) = {E}
    BY <2>1, <2>2, <2>3
  <2>5. QED
    BY <2>1, <2>4 DEF Greatest
<1>3. CASE Tuned(o)
  <2>1. PICK lvl \in Nat : s_lvlarr = [m \in Mods |-> lvl] /\ Greatest(lvl, Candidates(o))
    BY <1>3, Zenon DEF Tuned
  <2>2. s_lvlarr[MOD_INIT] = lvl
    BY <1>1, <2>1, Zenon
  <2>3. QED
    BY <2>1, <2>2, Zenon
<1>4. QED
  BY <1>2, <1>3, Zenon DEF Levels

\* What EnvLevel says does not change.
LEMMA EnvStays ==
  ASSUME UNCHANGED envVars
  PROVE  (\A m : EnvLevel(m)' = EnvLevel(m)) /\ (\A o : Candidates(o)' = Candidates(o))
<1>1. env' = env
  BY DEF envVars
<1>2. \A m : EnvLevel(m)' = EnvLevel(m)
  BY <1>1, Zenon DEF EnvLevel
<1>3. \A o : Candidates(o)' = Candidates(o)
  BY <1>2, Zenon DEF Candidates
<1>4. QED
  BY <1>2, <1>3

\* -c, -v and -q: the new level is the greatest of the candidates of the longer
\* command line, for all modules; a -c changes neither it nor them.
LEMMA TunedStep ==
  ASSUME Levels, pc # "init", opts \in Seq(Opt), NEW new \in Opt,
         new[1] \in {"c", "v", "q"}, opts' = Append(opts, new), UNCHANGED envVars,
         log_setlvl_all(Max({0, s_lvlarr[MOD_INIT] + Step(new)}))
  PROVE  Tuned(opts)'
<1> DEFINE L == s_lvlarr[MOD_INIT]
           G == Max({0, L + Step(new)})
           q == Append(opts, new)
<1>1. L \in Nat /\ L \in Int /\ Greatest(L, Candidates(opts))
  <2>1. L \in Nat /\ Greatest(L, Candidates(opts))
    BY InitLevel
  <2> HIDE DEF L
  <2>2. QED
    BY <2>1
<1>2. Step(new) \in Int
  BY DEF Step
<1>3. G \in Nat
  <2> HIDE DEF L
  <2>1. 0 \in Int /\ L + Step(new) \in Int
    BY <1>1, <1>2
  <2>2. G \in {0, L + Step(new)} /\ 0 <= G
    BY <2>1, MaxOfTwo, Zenon
  <2> HIDE DEF G
  <2>3. QED
    BY <2>1, <2>2
<1>4. Greatest(G, Candidates(q))
  <2>1. CASE new[1] \in {"v", "q"}
    <3>1. Greatest(G, {x + Step(new) : x \in Candidates(opts)} \cup {0})
      <4> HIDE DEF L
      <4>1. QED
        BY <1>1, <1>2, GreatestMoves
    <3>2. Candidates(q) = {x + Step(new) : x \in Candidates(opts)} \cup {0}
      BY <2>1, CandidatesNext DEF Levels
    <3> HIDE DEF G
    <3>3. QED
      BY <3>1, <3>2
  <2>2. CASE new[1] = "c"
    <3>1. Step(new) = 0
      BY <2>2 DEF Step
    <3>2. Candidates(q) = {x + 0 : x \in Candidates(opts)}
      BY <2>2, <3>1, CandidatesNext DEF Levels
    <3>3. G = L
      <4> HIDE DEF L
      <4>1. L + 0 = L /\ 0 <= L /\ L <= L /\ {0, L} \in SUBSET Int
        BY <1>1
      <4>2. Max({0, L}) = L
        BY <4>1, MaxIs
      <4>3. QED
        BY <3>1, <4>1, <4>2, Zenon
    <3>4. Greatest(L, {x + 0 : x \in Candidates(opts)})
      BY <1>1, GreatestStays
    <3> HIDE DEF G, L
    <3>5. QED
      BY <3>2, <3>3, <3>4, Zenon
  <2>3. QED
    BY <2>1, <2>2
<1>5. Touching(q) # {}
  BY WhereNext DEF Touching
<1> HIDE DEF G
<1>6. Greatest(G, Candidates(opts)')
  BY <1>4, EnvStays DEF q
<1> HIDE DEF q
<1>7. Touching(opts)' # {}
  BY <1>5 DEF q, Touching, Where
<1>8. s_lvlarr' = [m \in Mods |-> G]
  BY Zenon DEF G, log_setlvl_all
<1>9. QED
  BY <1>3, <1>6, <1>7, <1>8, Zenon DEF Tuned

\* Any other option leaves the levels alone.
LEMMA OtherStep ==
  ASSUME Levels, pc # "init", opts \in Seq(Opt), NEW new \in Opt,
         new[1] \notin {"c", "v", "q"}, opts' = Append(opts, new), UNCHANGED envVars,
         s_lvlarr' = s_lvlarr
  PROVE  (Untouched(opts) \/ Tuned(opts))'
<1> DEFINE q == Append(opts, new)
<1>1. Step(new) = 0
  BY DEF Step
<1>2. /\ Tuning(q) = Tuning(opts) /\ Touching(q) = Touching(opts)
      /\ Len(q) = Len(opts) + 1 /\ Len(opts) \in Nat
  BY WhereNext DEF Tuning, Touching
<1>3. Candidates(q) = {x + 0 : x \in Candidates(opts)}
  BY <1>1, CandidatesNext DEF Levels
<1>4. Total(q, 1, Len(q)) = Total(opts, 1, Len(opts)) + 0
  <2>1. 1 \in 1..Len(opts)+1
    BY <1>2
  <2>2. Total(q, 1, Len(opts) + 1) = Total(opts, 1, Len(opts)) + Step(new)
    BY <2>1, TotalNext
  <2>3. QED
    BY <1>1, <1>2, <2>2
<1> HIDE DEF q
<1>5. CASE Untouched(opts)
  <2>1. Touching(q) = {} /\ Tuning(q) = {} /\ Total(q, 1, Len(q)) = 0
    BY <1>2, <1>4, <1>5 DEF Untouched
  <2>2. s_lvlarr' = [m \in Mods |-> EnvLevel(m)']
    <3>1. s_lvlarr = [m \in Mods |-> EnvLevel(m)]
      BY <1>5, Zenon DEF Untouched
    <3>2. \A m \in Mods : EnvLevel(m)' = EnvLevel(m)
      BY EnvStays
    <3>3. QED
      BY <3>1, <3>2, Zenon
  <2>3. opts' = q
    BY DEF q
  <2>4. QED
    <3>1. Touching(opts)' = {} /\ Tuning(opts)' = {}
      BY <2>1, <2>3, Zenon DEF Touching, Tuning, Where
    <3>2. Total(opts, 1, Len(opts))' = 0
      BY <2>1, <2>3, Zenon
    <3>3. QED
      BY <2>2, <3>1, <3>2, Zenon DEF Untouched
<1>6. CASE Tuned(opts)
  <2>1. PICK lvl \in Nat : s_lvlarr = [m \in Mods |-> lvl] /\ Greatest(lvl, Candidates(opts))
    BY <1>6, Zenon DEF Tuned
  <2>2. Greatest(lvl, Candidates(q))
    BY <1>3, <2>1, GreatestStays
  <2>3. opts' = q
    BY DEF q
  <2>4. Greatest(lvl, Candidates(opts)')
    BY <2>2, <2>3, EnvStays
  <2>5. Touching(opts)' # {}
    BY <1>2, <1>6, <2>3 DEF Tuned, Touching, Where
  <2>6. QED
    BY <2>1, <2>4, <2>5, Zenon DEF Tuned
<1>7. QED
  BY <1>5, <1>6, Zenon DEF Levels

\* Before main runs there are no levels.
LEMMA LevelsInit == Init => Levels
<1> SUFFICES ASSUME Init PROVE Levels
  OBVIOUS
<1>1. PICK n \in 0..MaxEnv : env \in [1..n -> Settings]
  BY DEF Init
<1>2. n \in Nat
  BY StartupAssumption
<1>3. env \in Seq(Settings)
  BY <1>1, <1>2
<1>4. QED
  BY <1>3 DEF Init, Levels

\* main: the levels are those of the environment.
LEMMA LevelsMain ==
  ASSUME Levels, SInv, main
  PROVE  Levels'
<1>1. opts = <<>> /\ opts' = opts /\ UNCHANGED envVars
  BY DEF main, Running, SInv, Found, argVars
<1>2. env' \in Seq(Settings) /\ envFancy' \in BOOLEAN
  BY <1>1 DEF envVars, Levels
<1>3. \A m \in Mods : EnvLevel(m)' = IF Parsed.lvl[m] = INT_MIN THEN Parsed.deflvl ELSE Parsed.lvl[m]
  <2>1. \A m \in Mods : EnvLevel(m) = IF Parsed.lvl[m] = INT_MIN THEN Parsed.deflvl ELSE Parsed.lvl[m]
    BY ParsedIsAsked DEF Levels
  <2>2. QED
    BY <1>1, <2>1, EnvStays, Zenon
<1>4. s_lvlarr' = [m \in Mods |-> EnvLevel(m)']
  <2>1. s_lvlarr' = [m \in Mods |-> IF Parsed.lvl[m] = INT_MIN THEN Parsed.deflvl ELSE Parsed.lvl[m]]
    BY Zenon DEF main, log_init
  <2>2. QED
    BY <1>3, <2>1, Zenon
<1>5. Touching(opts)' = {} /\ Tuning(opts)' = {}
  BY <1>1 DEF Touching, Tuning, Where
<1>6. Total(opts, 1, Len(opts))' = 0
  <2>1. Len(opts') = 0 /\ 0 + 1 = 1 /\ 0 \in Nat
    BY <1>1
  <2>2. \A o : Total(o, 1, 0) = 0
    BY <2>1, TotalNone
  <2>3. QED
    BY <2>1, <2>2, Zenon
<1>7. Untouched(opts)'
  BY <1>4, <1>5, <1>6, Zenon DEF Untouched
<1>8. Colors(opts)'
  <2>1. envFancy \in BOOLEAN /\ s_fancy' = envFancy /\ envFancy' = envFancy
    BY <1>1 DEF main, log_init, Levels, envVars
  <2>2. ~ \E k \in 1..Len(opts') : opts'[k][1] = "c"
    BY <1>1
  <2>3. QED
    BY <2>1, <2>2, Zenon DEF Colors
<1>9. s_init'
  BY DEF main, log_init
<1>10. QED
  BY <1>2, <1>7, <1>8, <1>9, Zenon DEF Levels

\* update_logger, for the options that call it.
LEMMA OptionLevels ==
  ASSUME NEW o, NEW name, Option(o, name)
  PROVE  /\ o \in {"c", "v", "q"} =>
              log_setlvl_all(Max({0, s_lvlarr[MOD_INIT] + Step(<<o, name>>)}))
         /\ o \notin {"c", "v", "q"} => s_lvlarr' = s_lvlarr
         /\ s_fancy' = IF o = "c" THEN TRUE ELSE s_fancy
         /\ s_init' = s_init
<1>1. CASE o = "c"
  <2>1. update_logger(0, 1)
    BY <1>1 DEF Option
  <2>2. Step(<<o, name>>) = 0
    BY <1>1 DEF Step
  <2>3. s_fancy' = TRUE
    <3>1. s_fancy' = (IF 1 = -1 THEN s_fancy ELSE 1 = 1)
      BY <2>1, Zenon DEF update_logger
    <3>2. 1 # -1
      OBVIOUS
    <3>3. QED
      BY <3>1, <3>2, Zenon
  <2>4. log_setlvl_all(Max({0, s_lvlarr[MOD_INIT] + 0})) /\ s_init' = s_init
    BY <2>1, Zenon DEF update_logger
  <2>5. QED
    BY <1>1, <2>2, <2>3, <2>4, Zenon
<1>2. CASE o = "v"
  <2>1. update_logger(1, -1)
    BY <1>2 DEF Option
  <2>2. Step(<<o, name>>) = 1
    BY <1>2 DEF Step
  <2>3. QED
    BY <1>2, <2>1, <2>2 DEF update_logger
<1>3. CASE o = "q"
  <2>1. update_logger(-1, -1)
    BY <1>3 DEF Option
  <2>2. Step(<<o, name>>) = -1
    BY <1>3 DEF Step
  <2>3. QED
    BY <1>3, <2>1, <2>2 DEF update_logger
<1>4. CASE o \notin {"c", "v", "q"}
  BY <1>4 DEF Option, logVars
<1>5. QED
  BY <1>1, <1>2, <1>3, <1>4

\* Colors, with one option more.
LEMMA ColorsNext ==
  ASSUME opts \in Seq(Opt), NEW new \in Opt, opts' = Append(opts, new), UNCHANGED envVars,
         envFancy \in BOOLEAN, Colors(opts), s_fancy' = IF new[1] = "c" THEN TRUE ELSE s_fancy
  PROVE  Colors(opts)'
<1> DEFINE n == Len(opts)
<1>1. /\ n \in Nat /\ Len(opts') = n + 1 /\ opts'[n + 1] = new
      /\ \A k \in 1..n : opts'[k] = opts[k]
  BY OptionAppended
<1>2. envFancy' = envFancy
  BY DEF envVars
<1>3. s_fancy = (envFancy \/ \E k \in 1..n : opts[k][1] = "c")
  BY Zenon DEF Colors
<1> HIDE DEF n
<1>4. (\A k \in 1..n+1 : k \in 1..n \/ k = n + 1) /\ n + 1 \in 1..n+1 /\ \A k \in 1..n : k \in 1..n+1
  BY <1>1
<1>5. (\E k \in 1..n+1 : opts'[k][1] = "c") <=> (new[1] = "c" \/ \E k \in 1..n : opts[k][1] = "c")
  BY <1>1, <1>4, Zenon
<1>6. s_fancy' = (envFancy' \/ \E k \in 1..n+1 : opts'[k][1] = "c")
  BY <1>2, <1>3, <1>5, Zenon
<1>7. QED
  BY <1>1, <1>6, Zenon DEF Colors

\* process_args.
LEMMA LevelsOption ==
  ASSUME Levels, SInv, NEW o \in Flags \cup {"x", "s"}, NEW name \in Names \cup {""}, Option(o, name)
  PROVE  Levels'
<1> DEFINE new == <<o, name>>
<1>1. /\ pc = "args" /\ pc' = "args" /\ opts' = Append(opts, new) /\ UNCHANGED envVars
  BY Zenon DEF Option, Running
<1>2. new \in Opt /\ opts \in Seq(Opt) /\ new[1] = o
  BY DEF SInv, Chosen, Opt
<1>3. s_init /\ Colors(opts) /\ envFancy \in BOOLEAN
  BY <1>1 DEF Levels
<1>4. s_init' /\ s_fancy' = IF new[1] = "c" THEN TRUE ELSE s_fancy
  BY <1>2, <1>3, OptionLevels
<1>5. /\ o \in {"c", "v", "q"} => log_setlvl_all(Max({0, s_lvlarr[MOD_INIT] + Step(new)}))
      /\ o \notin {"c", "v", "q"} => s_lvlarr' = s_lvlarr
  BY OptionLevels, Zenon
<1>6. pc # "init"
  BY <1>1
<1> HIDE DEF new
<1>7. Colors(opts)'
  BY <1>1, <1>2, <1>3, <1>4, ColorsNext
<1>8. (Untouched(opts) \/ Tuned(opts))'
  <2>1. CASE o \in {"c", "v", "q"}
    BY <1>1, <1>2, <1>5, <1>6, <2>1, TunedStep
  <2>2. CASE o \notin {"c", "v", "q"}
    BY <1>1, <1>2, <1>5, <1>6, <2>2, OtherStep
  <2>3. QED
    BY <2>1, <2>2, Zenon
<1>9. env' \in Seq(Settings) /\ envFancy' \in BOOLEAN
  BY <1>1 DEF Levels, envVars
<1>10. QED
  BY <1>4, <1>7, <1>8, <1>9, Zenon DEF Levels

\* All other steps: what is logged sets the levels only if nothing has yet.
LEMMA LevelsStay ==
  ASSUME Levels, \/ log_log \/ HostMissing \/ Host \/ sc_init \/ uc_init
                 \/ sc_start \/ StartFails \/ core_run \/ Ended \/ UNCHANGED vars
  PROVE  Levels'
<1>1. UNCHANGED envVars /\ opts' = opts /\ (pc = "init" => pc' = "init")
  BY DEF log_log, HostMissing, Host, sc_init, uc_init, sc_start, StartFails, core_run,
         Ended, Running, Exit, vars, argVars, envVars, Call
<1>2. pc # "init" => UNCHANGED logVars
  BY DEF log_log, HostMissing, Host, sc_init, uc_init, sc_start, StartFails, core_run,
         Ended, Running, Exit, vars, Levels
<1>3. env' = env /\ envFancy' = envFancy
  BY <1>1 DEF envVars
<1>4. SUFFICES ASSUME pc' # "init"
      PROVE  s_init' /\ (Untouched(opts)' \/ Tuned(opts)') /\ Colors(opts)'
  BY <1>3, Zenon DEF Levels
<1>5. s_lvlarr' = s_lvlarr /\ s_fancy' = s_fancy /\ s_init' = s_init
  BY <1>1, <1>2, <1>4 DEF logVars
<1>6. s_init /\ (Untouched(opts) \/ Tuned(opts)) /\ Colors(opts)
  BY <1>1, <1>4, Zenon DEF Levels
<1>7. Candidates(opts)' = Candidates(opts) /\ \A m : EnvLevel(m)' = EnvLevel(m)
  <2>1. \A m : EnvLevel(m)' = EnvLevel(m)
    BY <1>3, Zenon DEF EnvLevel
  <2>2. QED
    BY <1>1, <2>1, Zenon DEF Candidates, Tuning, Where
<1>8. Tuning(opts)' = Tuning(opts) /\ Touching(opts)' = Touching(opts)
  BY <1>1, Zenon DEF Touching, Tuning, Where
<1>9. Total(opts, 1, Len(opts))' = Total(opts, 1, Len(opts))
  BY <1>1, Zenon
<1>10. Untouched(opts) => Untouched(opts)'
  BY <1>5, <1>7, <1>8, <1>9, Zenon DEF Untouched
<1>11. Tuned(opts) => Tuned(opts)'
  BY <1>5, <1>7, <1>8, Zenon DEF Tuned, Greatest
<1>12. Colors(opts)'
  BY <1>1, <1>3, <1>5, <1>6, Zenon DEF Colors
<1>13. QED
  BY <1>5, <1>6, <1>10, <1>11, <1>12, Zenon

LEMMA LevelsInvariant == Spec => []Levels
<1>1. ASSUME Levels, SInv, [Next]_vars
      PROVE  Levels'
  <2>1. CASE (\E o \in Flags : Option(o, ""))
             \/ (\E o \in {"x", "s"}, name \in Names : Option(o, name))
    BY <1>1, <2>1, LevelsOption
  <2>2. CASE main
    BY <1>1, <2>2, LevelsMain
  <2>3. CASE ~ (\/ main \/ (\E o \in Flags : Option(o, ""))
                \/ (\E o \in {"x", "s"}, name \in Names : Option(o, name)))
    BY <1>1, <2>3, LevelsStay, Zenon DEF Next
  <2>4. QED
    BY <2>1, <2>2, <2>3
<1>2. QED
  BY LevelsInit, StartInvariant, <1>1, PTL DEF Spec

\* What Asked says, in the terms of the invariant.
LEMMA AskedIs ==
  ASSUME NEW m
  PROVE  /\ Tuning(opts) = {} /\ Total(opts, 1, Len(opts)) = 0 /\ EnvLevel(m) \in Nat
              => Asked(m) = EnvLevel(m)
         /\ EnvLevel(m) = EnvLevel(MOD_INIT) => Asked(m) = Max(Candidates(opts))
<1>1. \A i, j : Sum(i, j) = Total(opts, i, j)
  BY Zenon DEF Sum, Total
<1>2. Given({"v", "q"}) = Tuning(opts)
  BY Zenon DEF Given, Tuning, Where
<1>3. Asked(m) = Max({EnvLevel(m) + Total(opts, 1, Len(opts))}
                     \cup {Total(opts, k + 1, Len(opts)) : k \in Tuning(opts)})
  BY <1>1, <1>2, Zenon DEF Asked
<1>4. ASSUME Tuning(opts) = {}, Total(opts, 1, Len(opts)) = 0, EnvLevel(m) \in Nat
      PROVE  Asked(m) = EnvLevel(m)
  <2> DEFINE e == EnvLevel(m)
  <2>1. Asked(m) = Max({e + 0} \cup {Total(opts, k + 1, Len(opts)) : k \in {}})
    BY <1>3, <1>4, Zenon
  <2>2. e \in Nat
    BY <1>4
  <2> HIDE DEF e
  <2>3. {e + 0} \cup {Total(opts, k + 1, Len(opts)) : k \in {}} = {e}
    BY <2>2
  <2>4. Max({e}) = e
    BY <2>2, MaxIs
  <2>5. QED
    BY <2>1, <2>3, <2>4, Zenon DEF e
<1>5. ASSUME EnvLevel(m) = EnvLevel(MOD_INIT)
      PROVE  Asked(m) = Max(Candidates(opts))
  BY <1>3, <1>5, Zenon DEF Candidates
<1>6. QED
  BY <1>4, <1>5

\* However long the environment and the command line are and whatever is logged
\* in between, a module has the level that the environment asks for and, behind
\* options that change levels, if that is init's own level, the one that the
\* environment, every -v and every -q ask for; a -c only switches colors on.
THEOREM LevelsAsAsked == Spec => []LevelsAsConfigured
<1>1. SInv /\ Levels => LevelsAsConfigured
  <2> SUFFICES ASSUME SInv, Levels, pc # "init" PROVE LevelsAsConfigured
    BY Zenon DEF LevelsAsConfigured
  <2>1. (Untouched(opts) \/ Tuned(opts)) /\ Colors(opts)
    BY Zenon DEF Levels
  <2>2. Given({"c", "v", "q"}) = Touching(opts)
    BY Zenon DEF Given, Touching, Where
  <2>3. ASSUME NEW m \in Mods, Touching(opts) = {} \/ EnvLevel(m) = EnvLevel(MOD_INIT)
        PROVE  s_lvlarr[m] = Asked(m)
    <3>1. CASE Untouched(opts)
      <4>1. s_lvlarr[m] = EnvLevel(m)
        BY <3>1, Zenon DEF Untouched
      <4>2. EnvLevel(m) \in Nat
        BY ParsedIsAsked DEF Levels
      <4>3. Asked(m) = EnvLevel(m)
        BY <3>1, <4>2, AskedIs, Zenon DEF Untouched
      <4>4. QED
        BY <4>1, <4>3
    <3>2. CASE Tuned(opts)
      <4>1. PICK lvl \in Nat : s_lvlarr = [k \in Mods |-> lvl] /\ Greatest(lvl, Candidates(opts))
        BY <3>2, Zenon DEF Tuned
      <4>2. lvl = Max(Candidates(opts))
        BY <4>1, MaxIs DEF Greatest
      <4>3. EnvLevel(m) = EnvLevel(MOD_INIT)
        BY <2>3, <3>2, Zenon DEF Tuned
      <4>4. Asked(m) = Max(Candidates(opts))
        BY <4>3, AskedIs, Zenon
      <4>5. s_lvlarr[m] = lvl
        BY <4>1, Zenon
      <4>6. QED
        BY <4>2, <4>4, <4>5, Zenon
    <3>3. QED
      BY <2>1, <3>1, <3>2
  <2>4. s_fancy = (envFancy \/ Given({"c"}) # {})
    <3>1. Given({"c"}) # {} <=> \E k \in 1..Len(opts) : opts[k][1] = "c"
      BY DEF Given
    <3>2. s_fancy = (envFancy \/ \E k \in 1..Len(opts) : opts[k][1] = "c")
      BY <2>1, Zenon DEF Colors
    <3>3. (envFancy \/ Given({"c"}) # {}) = (envFancy \/ \E k \in 1..Len(opts) : opts[k][1] = "c")
      BY <3>1, Zenon
    <3>4. QED
      BY <3>2, <3>3, Zenon
  <2>5. QED
    BY <2>2, <2>3, <2>4, Zenon DEF LevelsAsConfigured
<1>2. QED
  BY <1>1, StartInvariant, LevelsInvariant, PTL
=============================================================================
