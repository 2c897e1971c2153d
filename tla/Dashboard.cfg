SPECIFICATION DashboardSpec
CONSTANTS
  Requests = {r1, r2}
  None = None
  HoursPerDay = 3
  SlotCount = 2
  LastHour = 7
  MaxSamples = 3
INVARIANTS HourlyShown PeaksTold
