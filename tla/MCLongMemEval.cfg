SPECIFICATION Spec
CONSTANTS
  Setup <- Setups
  MaxMessages = 2
  MaxWords = 3
  Depth = 3
  Cutoffs = {1, 2}
  Discount <- MCDiscount
  None = None
INVARIANTS
  TypeOK
  ChunkingInvisible
  StoredAsPlanned
  MetricsSound
