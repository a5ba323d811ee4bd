SPECIFICATION EmployerSpec
CONSTANTS
  Nil = Nil
  e1 = e1
  e2 = e2
  e3 = e3
  d1 = d1
  d2 = d2
  d3 = d3
  A = A
  B = B
  c1 = c1
  c2 = c2
  s1 = s1
  s2 = s2
  Request = {1, 2, 3}
  OldCompany <- MCOldCompany
  Email <- MCEmail
  Founder <- MCFounder
  Domain <- MCDomain
  EmployerMenus <- MCMenus
  Role = {"owner", "recruiter"}
  ItemStatus = {"ready", "blocked"}
  Candidate <- MCCandidate
  Stage <- MCStage
  MaxInFlight = 2
  MaxFailures = 1
INVARIANTS WorkspaceKept CompaniesSeparate CampaignAgreesWithQueue HistoryChains
CHECK_DEADLOCK FALSE
SYMMETRY Alike
