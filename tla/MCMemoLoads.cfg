SPECIFICATION EditorSpec
CONSTANTS
  Dates = {1, 2}
  Today = 2
  n1 = n1
  n2 = n2
  Texts = {Empty, n1, n2}
  Empty = Empty
  Blanks = {Empty}
  NoMemo = NoMemo
  Notes <- NotesOfDays
  LoadIds = {l1, l2}
  SaveIds = {s1}
  Enabled = {"offline", "overtake", "blind"}
  None = None
  june = june
  july = july
  Months = {june, july}
  MonthOf <- InJuly
  NoLoop = NoLoop
  QueryIds = {q1}
  NoQuery = NoQuery
INVARIANTS
  MemoOfItsDay
