SPECIFICATION FairSpec
CONSTANTS
  Pids = {p1, p2, p3}
  None = None
  Modes = {"daemon", "foreground", "interactive", "expressions"}
  MaxStarting = 2
  MaxLaunches = 3
INVARIANTS TypeOK PidfileNamesDaemon NothingLeftBehind
PROPERTIES PidInitEnds
CHECK_DEADLOCK FALSE
