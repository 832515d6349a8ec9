\* One thread and four blocks: the second pair is never merged.
SPECIFICATION FairSpec
CONSTANTS
  threads = 1
  blocks = 4
  records_per_part = 4
  num_parts = 1
  Inputs <- Files
INVARIANTS
  FileSorted
CHECK_DEADLOCK FALSE
