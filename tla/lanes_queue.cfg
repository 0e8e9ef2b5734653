SPECIFICATION FairSpec
CONSTANTS
  Entries = {e1, e2, e3, e4}
  Limits = {1, 2}
INVARIANTS
  IInv
  QueuedMeansFull
  FirstComeFirstServed
PROPERTIES
  SettledForGood
  QueuedIsServed
CHECK_DEADLOCK FALSE
