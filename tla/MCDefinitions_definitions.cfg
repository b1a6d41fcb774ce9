SPECIFICATION FairSpec
CHECK_DEADLOCK FALSE
CONSTANTS
  Inputs <- mcInputs
INVARIANTS TypeOK ThrowsOnlyWhenCut DamageIsBounded CutKeepsEarlier
PROPERTIES DecodeEnds
