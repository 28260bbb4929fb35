SPECIFICATION FairSpec
CONSTANTS
  w1 = w1
  w2 = w2
  q1 = q1
  Batches = {b1}
  Runs <- MCRuns
  Retries <- MCRetries
  Idle = Idle
  MaxJobs = 2
  MaxFaults = 2
INVARIANTS TypeOK OneWriter HeldIsParsed ParsedOnceUnlessRepeated
PROPERTY Settles
