SPECIFICATION Spec
CONSTANTS
  Symbols <- MCSymbols
  CallSeqs <- MCCallSeqs
  Addresses = 2
  MaxDepth = 2
  DiscardAt = 4
  LLONG_MAX = 127
  ULLONG_MAX = 255
  INT_MAX = 50
  MaxFaults = 3
CHECK_DEADLOCK FALSE
INVARIANT ReplyMatchesCommand
INVARIANT NullMeansError
INVARIANT ReaderAssertions
INVARIANT NoSocketLost
PROPERTY CommandsReturn
