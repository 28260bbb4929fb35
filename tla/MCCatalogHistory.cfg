SPECIFICATION HSpec
CONSTANTS
  b1 = b1
  b2 = b2
  b3 = b3
  c1 = c1
  Batches <- MCBatches
  Uploads = {}
  Codes <- MCCodes
  Columns = {}
  Files <- MCFiles
  MaxRow = 3
  MaxRequests = 1
  MaxRuns = 0
  MaxFaults = 0
  NoRow = NoRow
  NoRequest = NoRequest
  NoRetry = NoRetry
SYMMETRY MCSymmetry
PROPERTY HoldRestoresWhatWasLive
