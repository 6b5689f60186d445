\* The rescan loop and a request, a network that comes and goes
SPECIFICATION FairSpec
CONSTANTS
  loop = loop  r1 = r1  f1 = f1  h1 = h1  h2 = h2
  Loop = loop
  Request = {r1}
  Follow = {}
  Handle = {h1}
  MaxAP = 6
  MaxMoves = 3
INVARIANTS
  ListedReachable
  OneOwner
PROPERTIES
  ListTracks
