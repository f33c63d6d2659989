SPECIFICATION Spec
CONSTANTS
  LargestBits = 8
  IntBits = 4
  SignificandBits = 5
  UnitBits = 8
  PrintedDigits = 2
  MaxExponent = 16
  Numerals <- MCNumerals
  LoneNumerals <- MCLoneNumerals
  Texts <- MCTexts
  FieldValues <- MCFieldValues
  MaxTokens = 5
  Beginnings <- MCBeginnings
CHECK_DEADLOCK FALSE
INVARIANT AcceptsTheGrammar
INVARIANT ReadsBackWhatIsWritten
INVARIANT HandlersGetWhatIsSent
