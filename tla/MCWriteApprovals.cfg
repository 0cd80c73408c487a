SPECIFICATION Spec
CONSTANTS
  chat1 = chat1
  MaxConfirms = 2
  MaxUpsets = 2
  Chats = {chat1}
INVARIANTS
  ApprovalsTypeOK
  AuditTellsWinner
  WriteHasConsent
  LeftoverHasCause
PROPERTIES
  DecidedRowStays
CHECK_DEADLOCK FALSE
