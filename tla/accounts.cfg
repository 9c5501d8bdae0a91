SPECIFICATION Spec
CONSTANTS
  c1 = c1
  c2 = c2
  Conn = {c1, c2}
  Name = {"ana", "bob"}
  Password = {"p", "q"}
  Cookie = {1, 2, 3, 4}
  Tag = {"t"}
  Content = {"hi"}
  Date = {1}
  SeedUser <- OneUser
  SeedGazou <- NoGazou
  Requests <- AccountRequests
  TooLong = {}
  Redraw = FALSE
  MaxGazou = 0
SYMMETRY Symmetric
INVARIANTS
  AckedAccountIsMine
  SessionsInv
  RevokedStaysRevoked
  LogoutRevokes
