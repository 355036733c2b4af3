CONSTANTS
  high = high  higher = higher  empty = empty
  none = none  t1 = t1  w1 = w1  c1 = c1  c2 = c2
  Ids <- MCIds  CrmKey <- MCCrmKey  CrmUsers <- MCCrmUsers  Limit = 50
  Texts = {high, higher}  NoText = empty  None = none
  ExtractAmount <- MCExtractAmount  ExtractUserId <- MCExtractUserId
  Threads = {t1}  Workers = {w1}  RouterIds = {none}
  MaxTickets = 2  MaxReviews = 2  MaxFaults = 1
  Calls = {c1, c2}  MaxDisturbances = 1
SPECIFICATION ConsoleFairSpec
INVARIANTS ConsoleTypeOK CardsOfferEscalations
PROPERTIES ApprovalPaysWhatWasShown CardsSettleOnce EscalationsAreShown DecidedCardsDisappear
