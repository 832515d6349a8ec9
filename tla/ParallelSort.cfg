\* Two threads, sixteen blocks of two records and one record over, two parts.
SPECIFICATION FairSpec
CONSTANTS
  threads = 2
  blocks = 16
  records_per_part = 33
  num_parts = 2
  Inputs <- Files
INVARIANTS
  RangesDisjoint
  RunsSorted
PROPERTIES
  NothingLost
  Ends
CHECK_DEADLOCK FALSE
