SPECIFICATION Spec
CONSTANTS
  w1 = w1
  w2 = w2
  q1 = q1
  Batches = {b1}
  Runs <- MCRuns
  Retries <- MCRetries
  Idle = Idle
  MaxJobs = 2
  MaxFaults = 0
PROPERTY SaveKeepsStatus
