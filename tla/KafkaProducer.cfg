CONSTANTS
  m1 = m1
  m2 = m2
  m3 = m3
  None = None
  Msgs = {m1, m2, m3}
  Partitions = {0, 1}
  HashOf <- MCHashOf
SPECIFICATION FairSpec
INVARIANT SentAsTold
PROPERTY AnswersArrive
CHECK_DEADLOCK FALSE
