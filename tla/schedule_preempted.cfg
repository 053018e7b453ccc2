CONSTANTS
  MaxThreads = 3
  v1 = v1
  NoValue = NoValue
  Values <- MCValues
  Creators <- MainOnly
  Joiners <- AllSlots
  PreemptibleSchedule = TRUE
SPECIFICATION Spec
INVARIANT SavedContextsValid
