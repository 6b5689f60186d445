\* One client that may interrupt a bring-up at any point, fair goroutines
SPECIFICATION FairSpec
CONSTANTS
  eth = eth  wlan = wlan
  wired = wired  manual = manual  home = home  off = off  cafe = cafe
  homeNet = homeNet
  a1 = a1  a2 = a2  a3 = a3  c1 = c1  c2 = c2
  None = None
  Iwd = Iwd
  Client = {c1}
  AC = {a1, a2}
  Dev <- WiredOnly
  Profile = {off}
  Loaded = {off}
  Ssid = {}
  Kind <- MCKind
  SsidOf <- MCSsidOf
  Method <- MCMethod
  Discipline = "free"
  TeardownFails = FALSE
  MaxRadio = 0
CHECK_DEADLOCK FALSE
PROPERTIES
  ActivationSettles
  DeactivationCompletes
  DeleteCompletes
