CONSTANTS
  none = none  None = none
  Upper <- MCUpper  Docs <- MCDocs  MaxQuery = 5  Alphabets <- MCTicketAlphabets
SPECIFICATION Spec
INVARIANTS AmountIsMonetary
