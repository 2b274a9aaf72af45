SPECIFICATION FairSpec
CONSTANTS
  Hours = {8, 9}
  Minutes = {30, 60}
  Unset = Unset
  NoHour = NoHour
  NoDocument = NoDocument
  c1 = c1
  c2 = c2
  Calls = {c1, c2}
  HourOf <- HourOfCall
  MinutesOf <- MinutesOfCall
  WindowOf <- WindowOfCall
  MaxAttempts = 3
  MaxDeletions = 1
INVARIANTS
  TransactionTypeOK
  TotalOfRecords
  RefusalHasCause
  OutcomeIsKnown
PROPERTIES
  AppliedAtomically
  CallsEnd
CHECK_DEADLOCK FALSE
