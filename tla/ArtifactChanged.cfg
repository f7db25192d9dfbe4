SPECIFICATION MCSpec
CONSTANTS
  Args <- MCArgs
  Fds = {3}
  Quota = 1
  MaxLen = 2
  MaxChanges = 3
  MaxEdits = 2
INVARIANT ArtifactsIntact
CHECK_DEADLOCK FALSE
