SPECIFICATION Spec
CONSTANTS
  Owners = {o1}
  Devices = {d1}
  Senders = {w1, w2}
  NoOwner = NoOwner
  Free = Free
  Other = Other
  Busy = {}
  Testers = {d1}
  Schedules <- MCSchedules
  DayLength = 2
  MaxAttempts = 2
  BatchSize = 1
  KeepDays = 1
  MaxDay = 0
  MaxClock = 4
  MaxCrashes = 1
SYMMETRY MCSymmetry
INVARIANTS TypeOK OptOutHolds 
PROPERTIES DeliveriesAreFinal
