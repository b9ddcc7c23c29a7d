SPECIFICATION FairSpec
CONSTANTS
  Owners = {o1, o2}
  Devices = {d1, d2}
  Senders = {w1}
  NoOwner = NoOwner
  Free = Free
  Other = Other
  Busy = {o1}
  Testers = {}
  Schedules <- MCOneSchedule
  DayLength = 2
  MaxAttempts = 2
  BatchSize = 1
  KeepDays = 2
  MaxDay = 0
  MaxClock = 4
  MaxCrashes = 0
PROPERTIES DeliveriesSettle
