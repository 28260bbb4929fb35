SPECIFICATION Spec
CONSTANTS
  f1 = f1
  u1 = u1
  u2 = u2
  Files <- MCFiles
  Uploads <- MCUploads
  Idle = Idle
  MaxBackups = 3
SYMMETRY MCSymmetry
INVARIANTS TypeOK CommittedIsStored ParsedIsWhole PairIsComplete
