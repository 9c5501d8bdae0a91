SPECIFICATION SystemLiveSpec
CONSTANTS
  Conn = {c1, c2}
  c1 = c1
  c2 = c2
  Name = {"ana", "bob"}
  Password = {"p"}
  Cookie = {1, 2, 3, 4}
  Tag = {"t"}
  Content = {"hi"}
  Date = {1}
  SeedUser <- TwoUsers
  SeedGazou <- OneGazou
  Requests <- SessionRequests
  TooLong = {}
  Redraw = FALSE
  MaxGazou = 0
INVARIANTS
  InStep
  SessionIsMine
  ExitsAreNamed
PROPERTIES
  CommandEnds
  WritesAreMine
