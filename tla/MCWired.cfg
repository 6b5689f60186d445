\* One NIC that senses its cable at once, cables and clients at any time
SPECIFICATION FairSpec
CONSTANTS
  e1 = e1
  None = None
  Iface = {e1}
  NegotiatesAtOnce = TRUE
  SubscribedFirst = FALSE
  MaxSpawn = 3
  MaxEvents = 3
CHECK_DEADLOCK FALSE
INVARIANTS
  WiredOnline
  
PROPERTIES
  GetsOnline
