SPECIFICATION FairSpec
CONSTANTS
  Lines <- MCLines
  SshBytes <- MCSshBytes
  READBUFSZ = 1
  MaxUnread = 3
  MaxText = 1
  MaxAsked = 2
INVARIANTS
  TypeOK
  SelfChecksHold
  SentInOrder
PROPERTY
  SshDeathNoticed
