SPECIFICATION Spec
CONSTANTS
  c1 = c1
  c2 = c2
  Conn = {c1, c2}
  Name = {"ana", "bob"}
  Password = {"p"}
  Cookie = {1, 2, 3}
  Tag = {"t", "s"}
  Content = {"hi", "long"}
  Date = {1, 2}
  SeedUser <- TwoUsers
  SeedGazou <- NoGazou
  Requests <- PostingRequests
  TooLong = {"long"}
  Redraw = FALSE
  MaxGazou = 2
SYMMETRY Symmetric
INVARIANTS
  TypeOK
  AckedPostIsComplete
  SettledGazouShownWhole
  RefusalsAreClean
PROPERTIES
  ImplementsService
