CONSTANTS
  none = none  None = none
  Upper <- MCUpper  Docs <- MCDocs  MaxQuery = 5  Alphabets <- MCAlphabets
SPECIFICATION Spec
INVARIANTS AmountIsFirstNumber UserIdIsFirstId EveryAddressIsMasked RetrievesTheBest
