CONSTANTS
  WordMax = 31
  WordXor <- MCXor
  MAGIC = 11
  LOADER = 16
  STAGE1 = 17
  SALT = 14
  MAX_ATTEMPTS = 3
  Levels = 2
  Requesters = {0, 1, 2}
  Garbage <- MCGarbage
  b0 = b0
  b1 = b1
  b2 = b2
  other = other
  Bytes <- MCBytes
  SEQ <- MCSEQ
  MaxBuffer = 2
  MaxHeard = 6
SPECIFICATION MCSpec
INVARIANTS SealInv SealAtomic StrikesBounded MatchExact
