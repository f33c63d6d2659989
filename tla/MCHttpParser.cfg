SPECIFICATION Spec
CONSTANTS
  Requests <- MCRequests
  Altered <- MCAltered
  MaxUint = 31
  HTTP_MAX_HEADER_SIZE = 60
  MaxRequest = 80
CHECK_DEADLOCK FALSE
INVARIANT RequestReadExactly
INVARIANT ParserAssertions
