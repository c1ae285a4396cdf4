SPECIFICATION FairSpec
CONSTANTS
  Cmds = {c1, c2}
  NUM_THREADS = 2
  MaxRuns = 2
  MaxSets = 1
  MaxSurprises = 1
INVARIANTS TypeOK NoTornText OneThreadPerCommand
PROPERTIES NeverOlder MainReturns LastOutputShown
CHECK_DEADLOCK FALSE
