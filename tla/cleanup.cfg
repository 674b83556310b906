SPECIFICATION Spec
CONSTANTS
  c1 = c1
  c2 = c2
  c3 = c3
  Call <- MCCall
  Id <- MCId
  DealId <- MCDealId
  Scenes <- MCOldScenes
  Life = 2
  LinkLives <- MCLinkLives
  Retention = 1
  PageSize = 1
  MaxTime = 4
PROPERTY ExpiredTokensAreDeleted
\* Nobody may have anything more to send.
CHECK_DEADLOCK FALSE
