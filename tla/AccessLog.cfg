SPECIFICATION FairSpec
CONSTANTS
  Logs = {l1, l2}
  Day = 2
  Retention = 2
  ExportMaxRows = 1
  MaxTime = 4
  MaxCrashes = 1
INVARIANTS RecentHavePayload ExportComplete
PROPERTIES MarksSettle
