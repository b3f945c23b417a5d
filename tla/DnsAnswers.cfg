CONSTANTS
  Pointer = 3
  MaxJumps = 2
  HeaderLen = 1
  QuestionLen = 1
  RecordLen = 2
  LenA = 1
  LenAAAA = 2
  Messages <- MCMessages
SPECIFICATION DnsSpec
INVARIANTS AnswersCorrect
PROPERTY ParserStops
CHECK_DEADLOCK FALSE
