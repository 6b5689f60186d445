\* One profile, stored in the old form, with calls that take turns; one crash
SPECIFICATION Spec
CONSTANTS
  u1 = u1  u2 = u2  k1 = k1  k2 = k2  c1 = c1  c2 = c2
  i1 = i1  i2 = i2  i3 = i3  i4 = i4
  None = None
  Fresh = Fresh
  Main = Main
  Client = {c1}
  Profile = {u1}
  Keyfile = {k1}
  FileOf <- OwnFile
  Rev = {1, 2}
  Inode = {i1, i2, i3, i4}
  OnDisk = {u1}
  Legacy = {u1}
  TakeTurns = TRUE
  MaxConn = 3
  MaxTemp = 2
  MaxCrash = 1
CHECK_DEADLOCK FALSE
INVARIANTS
  
  SavedToDisk
PROPERTY Durable
