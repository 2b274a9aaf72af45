SPECIFICATION FairSpec
CONSTANTS
  Users = {anna}
  NoUser = NoUser
  Languages = {"ko", "en"}
  DefaultLanguage = "ko"
  Documents = {"d1"}
  Calls = {x1, x2}
  SyncIds = {s1}
  MaxChoices = 1
  MaxWrites = 1
  MaxSignIns = 2
  MaxCalls = 2
  Enabled = {}
  None = None
INVARIANTS
  AccountTypeOK
  LanguageFollowsSettings
PROPERTIES
  
  DeletionsEnd
CHECK_DEADLOCK FALSE
