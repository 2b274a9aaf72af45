SPECIFICATION AlarmSpec
CONSTANTS
  Users = {anna}
  Callers = {c1, c2}
  StartHours = {22, 23}
  EndHours = {24}
  Intervals = {60}
  Default <- LateEvening
  MaxSlots = 64
  MaxWrites = 2
  Enabled = {"overlap", "crash", "error"}
  None = None
  Idle = Idle
SYMMETRY CallerSymmetry
INVARIANTS
  AlarmTypeOK
  AlarmsFollowSettings
  PreferencesFollowSettings
