SPECIFICATION Spec
CONSTANTS
  Dates = {2}
  Today = 2
  NowHour = 23
  Hours = {22, 23}
  Minutes = {60}
  Windows <- EarlyWindow
  UserWindow <- DefaultWindow
  Enabled = {"stream", "window"}
  MaxEdits = 2
  Unset = Unset
  NoHour = NoHour
  NoDate = NoDate
  NoDoc = NoDoc
  Unknown = Unknown
  NoPending = NoPending
INVARIANTS
  SavedWindowStays
