SPECIFICATION Spec
CONSTANTS
  Users = {u1, u2}
  Files = {f1, f2}
  Digests = {m1}
  m1 = m1
  Digest <- MCDigest
  MaxLate = 1
  MaxFaults = 0
  MaxLogins = 0
  MaxPictures = 0
  MaxDownloads = 0
  MaxDisturbances = 1
INVARIANTS ListedIsStored
SYMMETRY Symmetry
CHECK_DEADLOCK FALSE
