---------------------------- MODULE MCStartup -------------------------------
(***************************************************************************)
(* Two modules with log levels, up to two settings in the environment and  *)
(* up to three options: enough for a level to meet its floor and rise.     *)
(***************************************************************************)
EXTENDS Startup

MCMods == {"INIT", "CORE"}
=============================================================================
