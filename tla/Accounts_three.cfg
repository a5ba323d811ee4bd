SPECIFICATION AccountsSpec
CONSTANTS
  Nil = Nil
  e1 = e1
  e2 = e2
  p1 = p1
  p2 = p2
  g1 = g1
  Request = {1, 2, 3}
  Email <- MCEmail
  Password <- MCPassword
  Device = {d}
  GoogleUser <- MCGoogleUser
  GoogleMail <- MCGoogleMail
  Menu <- SetupFirst
  MaxInFlight = 2
  MaxFailures = 1
INVARIANTS UsedResetTookEffect OneSessionPerDevice
PROPERTIES LinksImplemented
CHECK_DEADLOCK FALSE
SYMMETRY SamePasswords
