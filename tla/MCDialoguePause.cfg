SPECIFICATION DSpec
CONSTANTS
  Lines <- MCLines
  LoginPs1 <- MCLoginPs1
  Replies <- MCReplies
  READBUFSZ = 3
  MaxAsked = 4
  Coherent = FALSE
INVARIANTS
  NooutMeansNoOutput
