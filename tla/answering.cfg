SPECIFICATION LiveSpec
CONSTANTS
  c1 = c1
  c2 = c2
  Conn = {c1, c2}
  Name = {"ana", "bob"}
  Password = {"p"}
  Cookie = {1, 2}
  Tag = {"t", "s"}
  Content = {"hi"}
  Date = {1}
  SeedUser <- TwoUsers
  SeedGazou <- NoGazou
  Requests <- AnsweringRequests
  TooLong = {}
  Redraw = TRUE
  MaxGazou = 2
INVARIANTS
  AckedPostIsComplete
  HalfPostsAreOwn
  SettledGazouShownWhole
  ReferencesHold
PROPERTIES
  EveryRequestAnswered
