SPECIFICATION Spec
CONSTANTS
  Mods <- MCMods
  MOD_INIT = "INIT"
  Other = "other"
  Default = "default"
  EnvLevels = {1, 9}
  MaxEnv = 2
  MaxOpts = 3
INVARIANT
  OnlyQuietLowers
