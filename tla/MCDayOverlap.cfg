SPECIFICATION Spec
CONSTANTS
  Days = {1, 2, 3}
  WakeTaps = {5, 9}
  BedTaps = {5, 8, 31}
  MaxSaves = 3
  Enabled = {}
  NoLog = NoLog
  Closed = Closed
PROPERTIES
  WakesAfterBed
