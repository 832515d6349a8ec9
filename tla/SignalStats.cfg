\* Two children, each of which may ask again and again.
SPECIFICATION FairSpec
CONSTANTS
  Children = {c1, c2}
  NoChild = NoChild
  CYCLE_LIMIT = 3
  MAX_CHILDREN = 2
  Commands = {"+", "-", "k", "q"}
INVARIANTS
  StatsTruthful
  AnswersToAskers
  NoneEscapes
PROPERTIES
  LostOnly
  Answered
  KillReturns
CHECK_DEADLOCK FALSE
