CONSTANTS
  MaxThreads = 3
  v1 = v1
  NoValue = NoValue
  Values <- MCValues
  Creators <- MainOnly
  Joiners <- MainOnly
  PreemptibleSchedule = FALSE
SPECIFICATION Spec
INVARIANT UserCodeUnmasked
