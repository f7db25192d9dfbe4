SPECIFICATION FairSpec
CONSTANTS
  MaxBlocks = 4
  BlockNumbers = 4
  MaxRetries = 3
  MaxExtra = 2
PROPERTIES TransferImplemented CommandEnds
CHECK_DEADLOCK FALSE
