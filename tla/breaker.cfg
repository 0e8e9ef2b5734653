SPECIFICATION FairSpec
CONSTANTS
  Calls = {c1, c2, c3}
  failure_threshold = 2
  recovery_timeout = 2
  half_open_successes_needed = 2
  NoInstant = NoInstant
INVARIANT
  IInv
PROPERTIES
  TripsOnStreak
  ClosesOnProof
  OpenIsKept
  Recovers
