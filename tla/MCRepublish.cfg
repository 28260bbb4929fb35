SPECIFICATION Spec
CONSTANTS
  b1 = b1
  b2 = b2
  b3 = b3
  c1 = c1
  c2 = c2
  x = x
  Batches <- MCBatches
  Uploads <- MCUploads
  Codes <- MCCodes
  Columns <- MCColumns
  Files <- MCFiles
  MaxRow = 3
  MaxRequests = 0
  MaxRuns = 1
  MaxFaults = 0
  NoRow = NoRow
  NoRequest = NoRequest
  NoRetry = NoRetry
SYMMETRY MCSymmetry
PROPERTY PublishedIsSearchable
