\* One semaphore; main initialises, posts and destroys, the created threads wait.
CONSTANTS
  MaxThreads = 3
  v1 = v1
  s1 = s1
  s2 = s2
  NoValue = NoValue
  Values <- MCValues
  Creators <- MainOnly
  Joiners <- NoThreads
  PreemptibleSchedule = FALSE
  MaxSems = 1
  SemVars <- MCSemVars
  InitValues <- MCInitValues
  SemIniters <- MainOnly
  Waiters <- Workers
  Posters <- MainOnly
  Destroyers <- MainOnly
  MaxSemCalls = 3
SPECIFICATION SemSpec
INVARIANTS
  SemTypeOK
  SemWaitsBounded
  WaiterQueued
  QueuedAreBlocked
