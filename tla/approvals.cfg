SPECIFICATION Spec
CONSTANTS
  c1 = c1
  c2 = c2
  c3 = c3
  Call <- MCCall
  Id <- MCId
  DealId <- MCDealId
  Scenes <- MCScenes
  Life = 2
  LinkLives <- MCLinkLives
  Retention = 1
  PageSize = 1
  MaxTime = 5
INVARIANT TypeOK
INVARIANT AnswersAreOnRecord
INVARIANT RetriesFindTheirRequest
INVARIANT LinksAreAnsweredOnce
INVARIANT WalkSeesEachOnce
INVARIANT AgreementsFormOneChain
PROPERTY WorkUnderActiveAgreement
\* Nobody may have anything more to send.
CHECK_DEADLOCK FALSE
