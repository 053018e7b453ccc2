\* A background command before a pipeline.
CONSTANTS
  Script <- MCBgFirst
  Cap = 2
  MaxFds = 16
  Tty = Tty
  File = File
SPECIFICATION Spec
INVARIANT ForegroundDone
