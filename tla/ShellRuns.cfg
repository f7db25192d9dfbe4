CONSTANTS
  ShellLines <- Typed
  AheadLines <- Ahead
  ExecLines <- Execd
  MaxLines = 4
  NestedAhead = FALSE
SPECIFICATION FairSpec
INVARIANTS RunInOrder StackSettles
PROPERTY ExecEnds
CHECK_DEADLOCK FALSE
