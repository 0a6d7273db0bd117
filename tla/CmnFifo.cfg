SPECIFICATION FairSpec
CONSTANTS
  Producer = {p1}
  Consumer = {c1, c2}
  Element = {e1, e2}
  MaxSize = 2
  NULL = NULL
  Added = Added
  TooMuch = TooMuch
  Nobody = Nobody
INVARIANTS
  SemaphoreCounts
  NeverEmptyAfterWait
PROPERTIES
  ImplementsBoundedQueue
  OperationsReturn
