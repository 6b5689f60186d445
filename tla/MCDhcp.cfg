\* One Acquire of two tries; two servers that offer, decline, repeat and
\* answer late, or stay silent
SPECIFICATION FairSpec
CONSTANTS
  q1 = q1  s1 = s1  s2 = s2  i1 = i1
  Zero = Zero
  None = None
  Addr = {i1}
  Acquire = {q1}
  Server = {s1, s2}
  MaxTries = 2
  MaxReplies = 5
CHECK_DEADLOCK FALSE
INVARIANTS
  LeaseGranted
  OneRequestPerTransaction
PROPERTIES
  CancelledStops
  AcquireReturns
