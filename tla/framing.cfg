SPECIFICATION LiveSpec
CONSTANTS
  BUFSIZE = 4
  MAXDATASIZE = 2
  RequestLengths = {1, 3, 5}
  AnswerLengths = {1, 4, 6}
  ErrorLength = 2
  MaxRequests = 3
CHECK_DEADLOCK FALSE
INVARIANTS
  TypeOK
  AnswersPair
PROPERTIES
  AnswerArrives
