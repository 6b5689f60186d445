SPECIFICATION RadioSpec
CONSTANTS
  c1 = c1  c2 = c2  n1 = n1  n2 = n2  g1 = g1  g2 = g2
  None = None
  Caller = {c1, c2}
  Network = {n1, n2}
  Setter = {g1, g2}
  Discipline = "considerate"
  BootSteady = TRUE
  Users = "patient"
  RfkillWorks = TRUE
  Budgets <- SmallIwd
  RadioBudgets <- Small
SYMMETRY Symmetry
CHECK_DEADLOCK FALSE
INVARIANTS
  ConnectHasAgent
  PendingInFlight
  OwnSecret
  StationReported
  
