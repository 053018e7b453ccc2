\* Foreground lines, pipelines and a final background command; pipes hold
\* as much as any command writes.
CONSTANTS
  Script <- MCScript
  Cap = 2
  MaxFds = 16
  Tty = Tty
  File = File
SPECIFICATION Spec
INVARIANTS
  ForegroundDone
  PipesConnected
PROPERTY EventuallyAllDone
