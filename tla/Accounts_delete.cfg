SPECIFICATION AccountsSpec
CONSTANTS
  Nil = Nil
  e1 = e1
  e2 = e2
  p1 = p1
  p2 = p2
  g1 = g1
  Request = {1, 2}
  Email <- MCEmail
  Password <- MCPassword
  Device = {d}
  GoogleUser <- MCGoogleUser
  GoogleMail <- MCGoogleMail
  Menu <- UseThenDelete
  MaxInFlight = 1
  MaxFailures = 0
PROPERTIES DeletionSucceeds
CHECK_DEADLOCK FALSE
