SPECIFICATION FairSpec
CONSTANTS
  Writers = {"mongodb"}
  Limit = 2
  BulkLimit = 0
  OptionType <- MCTwo
  Unmapped = {}
  Unsplit = {}
  MaxEmpty = 1
  MaxLate = 1
PROPERTIES
  FlushedInTime
CHECK_DEADLOCK FALSE
