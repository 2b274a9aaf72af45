SPECIFICATION Spec
CONSTANTS
  Days = {1, 2, 3}
  WakeTaps = {3, 4, 5}
  BedTaps = {5, 29}
  MaxSaves = 4
  Enabled = {}
  NoLog = NoLog
  Closed = Closed
INVARIANTS
  WindowTypeOK
  PickerOffersItsValue
  DialogOffersItsValues
  GoalCountsHours
  ExportGoalAgrees
PROPERTIES
  BedBeforeNextWake
  WakeAfterPreviousBed
