CONSTANTS
  high = high  low = low  vague = vague  zero = zero  empty = empty
  none = none  t1 = t1  t2 = t2  w1 = w1  w2 = w2
  Ids <- MCIds  CrmKey <- MCCrmKey  CrmUsers <- MCCrmUsers  Limit = 50
  Texts = {high, vague}  NoText = empty  None = none
  ExtractAmount <- MCExtractAmount  ExtractUserId <- MCExtractUserId
  Threads = {t1}  Workers = {w1}  RouterIds = {none}
  MaxTickets = 2  MaxReviews = 1  MaxFaults = 0
SPECIFICATION Spec
INVARIANTS EscalationStaysOpen
