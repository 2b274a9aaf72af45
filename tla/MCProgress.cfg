SPECIFICATION FairSpec
CONSTANTS
  Dates = {1, 2}
  Today = 2
  NowHour = 23
  Hours = {1, 23}
  Minutes = {60}
  Windows <- OneWindow
  UserWindow <- LongNight
  Enabled = {"stream", "fail", "reorder", "delete", "relaunch"}
  MaxEdits = 2
  Unset = Unset
  NoHour = NoHour
  NoDate = NoDate
  NoDoc = NoDoc
  Unknown = Unknown
  NoPending = NoPending
INVARIANTS
  ShownIsStored
PROPERTIES
  EditsResolve
  ScreenCatchesUp
