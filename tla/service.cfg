SPECIFICATION Spec
CONSTANTS
  c1 = c1
  c2 = c2
  Conn = {c1, c2}
  Name = {"ana", "bob", "eve"}
  Password = {"p"}
  Cookie = {1, 2}
  Tag = {"t"}
  Content = {"hi"}
  Date = {1}
  SeedUser <- TwoUsers
  SeedGazou <- OneGazou
  Requests <- ServiceRequests
  TooLong = {}
  Redraw = TRUE
  MaxGazou = 0
SYMMETRY Symmetric
INVARIANTS
  ReferencesInv
  ReferencesHold
PROPERTIES
  ImplementsService
  HandedCookieIsMine
