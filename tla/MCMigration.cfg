SPECIFICATION FairSpec
CONSTANTS
  u1 = u1
  u2 = u2
  s1 = s1
  p1 = p1
  p2 = p2
  None = None
  User <- Users
  Session <- Sessions
  Memory <- Memories
  Process <- Processes
  Enrichment <- Enrichments
  MaxMessages = 3
  MaxOld = 2
INVARIANTS TypeOK IndexedOnce  CarriedWithinSession RefusedMeansDone
PROPERTIES MigrationCompletes
