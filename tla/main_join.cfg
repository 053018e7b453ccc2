\* main.c's pattern: main creates and joins; created threads return.
\* The schedule(0) loop is not preempted (see schedule_preempted).
CONSTANTS
  MaxThreads = 3
  v1 = v1
  NoValue = NoValue
  Values <- MCValues
  Creators <- MainOnly
  Joiners <- MainOnly
  PreemptibleSchedule = FALSE
SPECIFICATION TerminatingSpec
INVARIANTS
  SavedContextsValid
  HandleNamesOwnThread
PROPERTY JoinCompletes
