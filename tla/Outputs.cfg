SPECIFICATION MCSpec
CONSTANTS
  Numbers = {1}
  MaxActivity = 2
  Ips = {"i", "j"}
  Tolerances = {1, 2}
  tolerance_window = 1
  rereport_after = 1
  Retries = {2}
  MaxTime = 4
  MaxEvents = 5
  max_retries = 1
  batch_size = 2
  Sessions = {"a", "b"}
  MaxRecords = 2
  Shasums = {"f"}
  Urls = {"u"}
  MaxFiles = 3
INVARIANTS
  ReportedOnce ReportsAreDue DeliveredOnce VersionFindsSession
PROPERTIES
  SettledOnce
CHECK_DEADLOCK FALSE
