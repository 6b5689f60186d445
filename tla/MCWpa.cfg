\* One Connect at a time, a secured and an open network, one restart
SPECIFICATION FairSpec
CONSTANTS
  q1 = q1  q2 = q2  home = home  cafe = cafe
  None = None
  Caller = {q1}
  Ssid = {home, cafe}
  Secured = {home}
  Serial = TRUE
  MaxEvents = 2
  MaxStops = 1
INVARIANTS
  SavedKeysWork
PROPERTIES
  
  StateReported
