\* A client that waits for rest between its calls, a wired and a wifi device
\* whose radio joins and leaves its network by itself
SPECIFICATION Spec
CONSTANTS
  eth = eth  wlan = wlan
  wired = wired  manual = manual  home = home  off = off  cafe = cafe
  homeNet = homeNet
  a1 = a1  a2 = a2  a3 = a3  c1 = c1  c2 = c2
  None = None
  Iwd = Iwd
  Client = {c1}
  AC = {a1, a2, a3}
  Dev <- Both
  Profile = {manual, home}
  Loaded = {manual}
  Ssid = {homeNet}
  Kind <- MCKind
  SsidOf <- MCSsidOf
  Method <- MCMethod
  Discipline = "patient"
  TeardownFails = FALSE
  MaxRadio = 3
CHECK_DEADLOCK FALSE
SYMMETRY Symmetry
INVARIANTS
  RestBindings
  RestNetwork
