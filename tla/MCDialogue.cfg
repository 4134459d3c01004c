SPECIFICATION DSpec
CONSTANTS
  Lines <- MCLines
  LoginPs1 <- MCLoginPs1
  Replies <- MCReplies
  READBUFSZ = 1
  MaxAsked = 4
  Coherent = TRUE
INVARIANTS
  Faithful
  Lockstep
  EndsOnlyWithSsh
PROPERTIES
  ImplementsShell
  NoLineUnanswered
