SPECIFICATION FairSpec
CONSTANTS
  r1 = r1
  r2 = r2
  r3 = r3
  r4 = r4
  s1 = s1
  s2 = s2
  main = main
  cron = cron
  Runs = {r1, r2, r3}
  Sessions = {s1, s2}
  Globals = {main, cron}
  SessionOf <- MCSessionOf
  GlobalOf <- MCGlobalOf
  Limits = {1, 2}
  MaxRestarts = 1
INVARIANTS
  OnlyLeftoversOverlap
  DrainedMeansEnded
PROPERTIES
  LanesAreQueues
  RunIsServed
CHECK_DEADLOCK FALSE
