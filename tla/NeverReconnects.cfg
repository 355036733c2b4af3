CONSTANTS
  high = high  low = low  empty = empty
  none = none  t1 = t1  t2 = t2  w1 = w1
  Ids <- MCIds  CrmKey <- MCCrmKey  CrmUsers <- MCCrmUsers  Limit = 50
  Texts = {high}  NoText = empty  None = none
  ExtractAmount <- MCExtractAmount  ExtractUserId <- MCExtractUserId
  Threads = {t1}  Workers = {w1}  RouterIds = {none}
  MaxTickets = 1  MaxReviews = 1  MaxFaults = 0  MaxStarts = 1
SPECIFICATION DeploymentFairSpec
PROPERTIES ServiceBecomesAvailable
