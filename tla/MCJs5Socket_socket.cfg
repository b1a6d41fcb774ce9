SPECIFICATION FairSpec
CONSTANTS
  Files <- mcFiles
  Packed <- mcPacked
  Size <- mcSize
  MaxBlock = 12
  MaxStrays = 2
  MaxBacklog = 3
INVARIANTS TypeOK AnswerIsExact FailsWithCause
PROPERTY CallEnds
