SPECIFICATION Spec
CONSTANTS
  c1 = c1
  c2 = c2
  None = None
  Call <- MCCall
  Replica <- MCReplica
  Scenes <- MCScenes
  Capacity = 1
  MaxRows = 2
  MaxCrashes = 1
INVARIANT TypeOK
INVARIANT OneDocumentPerKey
INVARIANT TimeoutIsFinal
PROPERTY RequestsEnd
\* Nobody may have anything more to ask for.
CHECK_DEADLOCK FALSE
