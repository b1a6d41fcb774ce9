SPECIFICATION StreamSpec
CHECK_DEADLOCK FALSE
CONSTANTS
  SIZE = 2
  PLANES = 4
  Streams <- mcStreams
  Sources <- mcSources
INVARIANTS StreamTypeOK CutKeepsItsOwn
