SPECIFICATION Spec
CONSTANTS
  Dates = {1, 2}
  Today = 2
  NowHour = 23
  Hours = {22, 23}
  Minutes = {5}
  Windows <- OneWindow
  UserWindow <- DefaultWindow
  Enabled = {"stream", "picker", "delete", "window", "signout"}
  MaxEdits = 2
  Unset = Unset
  NoHour = NoHour
  NoDate = NoDate
  NoDoc = NoDoc
  Unknown = Unknown
  NoPending = NoPending
INVARIANTS
  TypeOK
  PendingIsArmed
  PendingIsShown
PROPERTIES
  OneHourPerWrite
