SPECIFICATION AlarmFairSpec
CONSTANTS
  Users = {anna, ben}
  Callers = {c1}
  StartHours = {23}
  EndHours = {0}
  Intervals = {30}
  Default <- PastMidnight
  MaxSlots = 64
  MaxWrites = 1
  Enabled = {"offline", "crash", "switch"}
  None = None
  Idle = Idle
INVARIANTS
  AlarmsRingAwake
PROPERTIES
  CallsFinish
