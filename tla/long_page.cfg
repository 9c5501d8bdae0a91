SPECIFICATION LiveSpec
CONSTANTS
  BUFSIZE = 4
  MAXDATASIZE = 2
  RequestLengths = {3}
  AnswerLengths = {6}
  ErrorLength = 2
  MaxRequests = 1
CHECK_DEADLOCK FALSE
PROPERTIES
  LongAnswersArrive
