\* main creates threads, then returns or calls pthread_exit; the
\* schedule(0) loop is not preempted (see schedule_preempted for that).
CONSTANTS
  MaxThreads = 3
  Creators <- MainOnly
  PreemptibleSchedule = FALSE
SPECIFICATION Spec
INVARIANTS
  SavedContextsValid
  HandleNamesOwnThread
