\* The ticker and a caller
SPECIFICATION FairSpec
CONSTANTS
  t = t  p1 = p1
  Ticker = t
  Caller = {p1}
  Answers = {"full", "portal", "limited", "none"}
  None = None
  MaxShifts = 2
PROPERTIES
  ConnectivityTracks
