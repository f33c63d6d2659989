SPECIFICATION Spec
CONSTANTS
  Users = {u1, u2}
  Files = {f1, f2}
  Digests = {m1}
  m1 = m1
  Digest <- MCDigest
  MaxLate = 1
  MaxFaults = 1
  MaxLogins = 1
  MaxPictures = 1
  MaxDownloads = 1
  MaxDisturbances = 1
INVARIANTS ExactWithoutFaults SharedIsListed OneSharer RankedHaveNames CountCoversReferences NeverOvercounted
SYMMETRY Symmetry
CHECK_DEADLOCK FALSE
