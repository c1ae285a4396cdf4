SPECIFICATION Spec
CONSTANTS
  Pids = {p1, p2, p3}
  None = None
  Modes = {"daemon"}
  MaxStarting = 2
  MaxLaunches = 3
INVARIANTS OneDaemon
CHECK_DEADLOCK FALSE
