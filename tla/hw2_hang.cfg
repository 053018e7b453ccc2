\* Every thread's code ends; main creates one thread and may call pthread_exit.
CONSTANTS
  MaxThreads = 2
  Creators <- MainOnly
  PreemptibleSchedule = FALSE
SPECIFICATION TerminatingSpec
PROPERTY ProcessEnds
