SPECIFICATION Spec
CONSTANTS
  Dates = {1, 2}
  Today = 2
  NowHour = 23
  Hours = {22, 23}
  Minutes = {5, 60}
  Windows <- OneWindow
  UserWindow <- DefaultWindow
  Enabled = {"fail", "reorder", "delete", "window", "signout", "calendar",
             "relaunch"}
  MaxEdits = 2
  Unset = Unset
  NoHour = NoHour
  NoDate = NoDate
  NoDoc = NoDoc
  Unknown = Unknown
  NoPending = NoPending
INVARIANTS
  StoredWhereEntered
  OptimisticIsThisDay
  LatestEditWins
PROPERTIES
  LogSpec
