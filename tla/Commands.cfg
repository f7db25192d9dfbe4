SPECIFICATION CommandsSpec
CONSTANTS
  Args <- MCArgs
  Fds = {3}
  Quota = 1
  MaxLen = 2
  MaxChanges = 3
  MaxEdits = 2
  Keys = {k1, k2, k3}
  max_requests = 1
  window_seconds = 2
  max_keys = 2
  EvictShare = 2
  MaxTime = 4
  Commands = {c1, c2}
  LimitSize = 1
  MaxBody = 3
  Fields = {"x", "y"}
  MaxLines = 2
  MaxN = 3
  MaxRuns = 2
  MaxTimers = 3
INVARIANTS
  HoneyfsKept TreeStays
  RequestsLimited DownloadsSettle FiltersAgree DialogsEnd
PROPERTIES
  EditedIsSaved
CHECK_DEADLOCK FALSE
