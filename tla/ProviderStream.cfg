SPECIFICATION StreamSpec
CONSTANTS
  Key = {"k1", "k2"}
  MaxBlocks = 2
  MaxMessages = 6
  MaxDisorderly = 3
INVARIANTS OneAnswer OrderlyStreamsAccepted ToldOnce
PROPERTY RefinesCanonicalStream
CHECK_DEADLOCK FALSE
