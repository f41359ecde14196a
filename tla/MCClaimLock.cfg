SPECIFICATION LockFairSpec
CONSTANTS
  t1 = t1
  t2 = t2
  t3 = t3
  p1 = p1
  p2 = p2
  NoThread = NoThread
  Threads <- MCThreads
  Processes <- MCProcesses
  ProcessOf <- MCProcessOf
INVARIANTS NothingLeaks
PROPERTIES NoCallerWaitsForEver Implements
