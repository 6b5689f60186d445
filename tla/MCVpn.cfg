\* A client that leaves a tunnel alone that is not at rest, two full tunnels
SPECIFICATION Spec
CONSTANTS
  wg0 = wg0  wg1 = wg1  h0 = h0  h1 = h1
  a1 = a1  a2 = a2  a3 = a3  c1 = c1  c2 = c2
  None = None
  Client = {c1}
  AC = {a1, a2, a3}
  Name = {wg0, wg1}
  Host = {h0, h1}
  HostOf <- BothFull
  Discipline = "considerate"
  MaxFaults = 1
CHECK_DEADLOCK FALSE
SYMMETRY Symmetry
INVARIANTS
  PeerRoutesRecorded
  
  RestRegistered
  RestResidue
  RestTunnelUp
