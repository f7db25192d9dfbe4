CONSTANTS
  ShellLines <- ShWaits
  AheadLines <- ShWaits
  ExecLines <- Execd
  MaxLines = 2
  NestedAhead = FALSE
SPECIFICATION Spec
INVARIANT IdleMeansPrompt
CHECK_DEADLOCK FALSE
