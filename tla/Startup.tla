------------------------------ MODULE Startup -------------------------------
(***************************************************************************)
(* From main to the main loop: the log levels of the environment           *)
(* (common/log.c), the options (init.c), and the attaching of a front-end  *)
(* and of a switch back-end by name (core.c, front/uc.c, back/fsm_*.c),    *)
(* whose functions are called through pointers from then on.               *)
(***************************************************************************)
EXTENDS Integers, Sequences, FiniteSetsExt

CONSTANTS
  Mods,        \* the modules that have a log level of their own
  MOD_INIT,    \* the one that init.c logs for
  Other,       \* what is set in the environment is no module and no level
  Default,     \* what is set is the level of all that are not named
  EnvLevels,   \* levels that the environment sets; far from the ends of int
  MaxEnv,      \* bound: settings in the environment
  MaxOpts      \* bound: options on the command line

ASSUME StartupAssumption ==
  /\ MOD_INIT \in Mods /\ {Default, Other} \cap Mods = {}
  /\ EnvLevels \subseteq Nat /\ MaxEnv \in Nat /\ MaxOpts \in Nat

DEF_LVL == 4
INT_MIN == -1      \* any value that is no level

\* The X macros, and the names that may be asked for.
frontends == {"ia"}
backends  == {"hp"}
Names     == frontends \cup backends \cup {"auto", "noop"}

VARIABLES
  env,         \* SWH_DEBUG, a sequence of settings: of what, and the level
  envFancy,    \* SWH_DEBUG_FANCY
  pc, exit,    \* where the program is; why it has ended, or "none"
  s_lvlarr, s_fancy, s_init,
  s_ux, s_sx,
  attached,    \* the function pointers that are set, with their interface
  ssh,         \* ssh has been launched
  opts         \* history: the options so far

envVars == <<env, envFancy>>
logVars == <<s_lvlarr, s_fancy, s_init>>
argVars == <<s_ux, s_sx, opts>>
vars    == <<envVars, pc, exit, logVars, argVars, attached, ssh>>

Settings == (Mods \cup {Default, Other}) \X EnvLevels

Init ==
  /\ env \in UNION {[1..n -> Settings] : n \in 0..MaxEnv} /\ envFancy \in BOOLEAN
  /\ pc = "init" /\ exit = "none"
  /\ s_lvlarr = [m \in Mods |-> 0] /\ s_fancy = FALSE /\ s_init = FALSE
  /\ s_ux = "auto" /\ s_sx = "auto" /\ opts = <<>>
  /\ attached = {} /\ ssh = FALSE

Running(where) == exit = "none" /\ pc = where

Exit(why) == exit' = why /\ UNCHANGED <<envVars, pc, logVars, argVars, attached, ssh>>
-----------------------------------------------------------------------------
(* log.c *)

\* The levels after the settings: those of the modules named, and the default.
Parsed ==
  LET none == [lvl |-> [m \in Mods |-> INT_MIN], deflvl |-> DEF_LVL]
      Set(p, s) == CASE s[1] \in Mods    -> [p EXCEPT !.lvl[s[1]] = s[2]]
                     [] s[1] = Default   -> [p EXCEPT !.deflvl = s[2]]
                     [] OTHER            -> p
      parse[k \in 0..Len(env)] == IF k = 0 THEN none ELSE Set(parse[k-1], env[k])
  IN  parse[Len(env)]

\* Mutant: it is not noted that the log is initialised.
log_init_NotNoted ==
  /\ s_lvlarr' = [m \in Mods |-> IF Parsed.lvl[m] = INT_MIN THEN Parsed.deflvl
                                                            ELSE Parsed.lvl[m]]
  /\ s_fancy' = envFancy
  /\ UNCHANGED s_init

log_init ==
  /\ s_lvlarr' = [m \in Mods |-> IF Parsed.lvl[m] = INT_MIN THEN Parsed.deflvl
                                                            ELSE Parsed.lvl[m]]
  /\ s_fancy' = envFancy
  /\ s_init' = TRUE

\* log_log, which any part of the program may call; it initialises the log if
\* nobody has.  The first thing main calls is log_init.
log_log ==
  /\ exit = "none" /\ pc # "init"
  /\ IF s_init THEN UNCHANGED logVars ELSE log_init
  /\ UNCHANGED <<envVars, pc, exit, argVars, attached, ssh>>

log_setlvl_all(lvl) == s_lvlarr' = [m \in Mods |-> lvl]

\* update_logger of init.c: all modules get the level of MOD_INIT and verb more.
update_logger(verb, fancy) ==
  /\ log_setlvl_all(Max({0, s_lvlarr[MOD_INIT] + verb}))
  /\ s_fancy' = IF fancy = -1 THEN s_fancy ELSE fancy = 1
  /\ UNCHANGED s_init
-----------------------------------------------------------------------------
(* init.c *)

main ==
  /\ Running("init")
  /\ log_init
  /\ pc' = "args"
  /\ UNCHANGED <<envVars, exit, argVars, attached, ssh>>

\* An option in process_args.
Option(o, name) ==
  /\ Running("args") /\ Len(opts) < MaxOpts
  /\ opts' = Append(opts, <<o, name>>)
  /\ s_sx' = IF o = "s" THEN name ELSE s_sx
  /\ s_ux' = IF o = "x" THEN name ELSE s_ux
  /\ CASE o = "c" -> update_logger(0, 1)
       [] o = "v" -> update_logger(1, -1)
       [] o = "q" -> update_logger(-1, -1)
       [] OTHER   -> UNCHANGED logVars
  /\ exit' = CASE o \in {"X", "S", "h"} -> "success"
               [] o = "?"               -> "failure"
               [] OTHER                 -> "none"
  /\ UNCHANGED <<envVars, pc, attached, ssh>>

HostMissing == Running("args") /\ Exit("argument missing")

\* Mutant: the comparison with "auto" is the wrong way round.
Host_Inverted ==
  /\ Running("args")
  /\ pc' = "sc_init"
  /\ s_ux' = IF s_ux # "auto" THEN "ia" ELSE s_ux
  /\ s_sx' = IF s_sx # "auto" THEN "hp" ELSE s_sx
  /\ UNCHANGED <<envVars, exit, logVars, opts, attached, ssh>>

Host ==
  /\ Running("args")
  /\ pc' = "sc_init"
  /\ s_ux' = IF s_ux = "auto" THEN "ia" ELSE s_ux
  /\ s_sx' = IF s_sx = "auto" THEN "hp" ELSE s_sx
  /\ UNCHANGED <<envVars, exit, logVars, opts, attached, ssh>>
-----------------------------------------------------------------------------
(* core.c and the interfaces it attaches *)

\* Mutant: a pointer is forgotten.
hp_attach_NoPrompt ==
  {<<"init", fn>>   : fn \in {"f_init", "f_ps1buf", "f_anykey", "f_report"}} \cup
  {<<"cmdout", fn>> : fn \in {"f_init", "f_outbuf", "f_outbufcnt"}} \cup
  {<<"inchar", "f_init">>}

\* What the HP back-end attaches to the three interfaces.
hp_attach ==
  {<<"init", fn>>   : fn \in {"f_init", "f_ps1buf", "f_anykey", "f_report"}} \cup
  {<<"cmdout", fn>> : fn \in {"f_init", "f_ps1buf", "f_outbuf", "f_outbufcnt"}} \cup
  {<<"inchar", "f_init">>}

uc_ia_attach ==
  {<<"uc", fn>> : fn \in {"f_init", "f_hasdata", "f_getdata", "f_putdata", "f_dump"}}

\* Calls through the pointers ptrs, which are those in funcs.
Call(calls, funcs, next) ==
  IF calls \subseteq funcs THEN pc' = next /\ UNCHANGED exit
                           ELSE exit' = "null pointer" /\ UNCHANGED pc

sc_init ==
  /\ Running("sc_init")
  /\ IF s_sx \in backends
     THEN /\ attached' = attached \cup hp_attach
          /\ Call({"init", "cmdout", "inchar"} \X {"f_init"}, attached', "uc_init")
          /\ UNCHANGED <<envVars, logVars, argVars, ssh>>
     ELSE Exit("could not find")

uc_init ==
  /\ Running("uc_init")
  /\ IF s_ux \in frontends
     THEN /\ attached' = attached \cup uc_ia_attach
          /\ Call({<<"uc", "f_init">>}, attached', "sc_start")
          /\ UNCHANGED <<envVars, logVars, argVars, ssh>>
     ELSE Exit("could not find")

sc_start ==
  /\ Running("sc_start")
  /\ pc' = "run" /\ ssh' = TRUE
  /\ UNCHANGED <<envVars, exit, logVars, argVars, attached>>

StartFails == Running("sc_start") /\ Exit("could not spawn ssh")

\* What oper_busy asks the back-end of machine f, and core_run the front-end.
oper_busy(f) ==
  CASE f = "init"   -> {<<f, fn>> : fn \in {"f_anykey", "f_report", "f_ps1buf"}}
    [] f = "cmdout" -> {<<f, fn>> : fn \in {"f_outbuf", "f_ps1buf"}}
    [] OTHER        -> {}

core_run ==
  /\ Running("run")
  /\ \E f \in {"init", "cmdout", "inchar"} :
       Call(oper_busy(f) \cup ({"uc"} \X {"f_putdata", "f_hasdata", "f_getdata"}), attached, "run")
  /\ UNCHANGED <<envVars, logVars, argVars, attached, ssh>>

Ended == exit # "none" /\ UNCHANGED vars

Flags == {"c", "v", "q", "h", "X", "S", "?"}

Next == \/ main \/ log_log \/ HostMissing \/ Host
        \/ \E o \in Flags : Option(o, "")
        \/ \E o \in {"x", "s"}, name \in Names : Option(o, name)
        \/ sc_init \/ uc_init \/ sc_start \/ StartFails \/ core_run \/ Ended

Spec == Init /\ [][Next]_vars
-----------------------------------------------------------------------------
\* The level that the environment asks for: the last setting for the module
\* counts, or else the last default.
EnvLevel(m) ==
  LET of(x) == {k \in 1..Len(env) : env[k][1] = x}
  IN  IF of(m) # {}       THEN env[Max(of(m))][2] ELSE
      IF of(Default) # {} THEN env[Max(of(Default))][2] ELSE DEF_LVL

\* The level that the environment and the options ask for: what the environment
\* says, one more for every -v (init.c: "Be more verbose") and one less for every
\* -q ("Be less verbose"), except that a -q at 0 is lost.  A -c asks for colors.
Step(o) == CASE o[1] = "v" -> 1 [] o[1] = "q" -> -1 [] OTHER -> 0
Sum(i, j) == LET f[k \in i-1..j] == IF k < i THEN 0 ELSE f[k-1] + Step(opts[k]) IN f[j]

Given(flags) == {k \in 1..Len(opts) : opts[k][1] \in flags}

Asked(m) == Max({EnvLevel(m) + Sum(1, Len(opts))}
                \cup {Sum(k + 1, Len(opts)) : k \in Given({"v", "q"})})

\* Every module has the level that is asked for, as long as no option has touched
\* the levels, and behind that every module for which the environment asks for
\* the level of init itself (for the others see OnlyQuietLowers);
\* colors are on if the environment or an option asks for them.  Nothing that is
\* logged later takes any of that back.
LevelsAsConfigured ==
  pc # "init" =>
    /\ \A m \in Mods :
         Given({"c", "v", "q"}) = {} \/ EnvLevel(m) = EnvLevel(MOD_INIT)
           => s_lvlarr[m] = Asked(m)
    /\ s_fancy = (envFancy \/ Given({"c"}) # {})

\* usage(), "-c: Use ANSI color sequences on stderr", "-v: Be more verbose": without
\* a -q ("Be less verbose") no option makes a module less verbose than the
\* environment has it.  (Both do: update_logger gives all modules the level of
\* init.)
OnlyQuietLowers ==
  pc # "init" /\ Given({"q"}) = {} => \A m \in Mods : s_lvlarr[m] >= EnvLevel(m)

\* Ssh is launched when the names asked for last are known and their functions
\* are attached, and never by a command line that only asks for a list or for
\* help or that has an error.
LaunchedWhenSetUp ==
  LET last(o, known) == LET ks == {k \in 1..Len(opts) : opts[k][1] = o}
                        IN  ks = {} \/ opts[Max(ks)][2] \in known \cup {"auto"}
  IN  ssh => /\ last("s", backends) /\ last("x", frontends)
             /\ \A k \in 1..Len(opts) : opts[k][1] \notin {"X", "S", "h", "?"}
             /\ {"init", "cmdout", "inchar", "uc"} \X {"f_init"} \subseteq attached

\* No function is called before it is attached, at start-up or in the main loop.
NoNullCall == exit # "null pointer"
=============================================================================
