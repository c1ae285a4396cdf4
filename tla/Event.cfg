SPECIFICATION FairSpec
CONSTANTS
  w1 = w1  w2 = w2  w3 = w3  d1 = d1  d2 = d2
  x1 = x1  x2 = x2  x3 = x3  n1 = n1  n2 = n2
  Watches = {w1, w2, w3}
  Fds = {d1, d2}
  Fd <- SharedFd
  Names = {n1, n2}
  Widgets = {x1, x2, x3}
  Awaits <- TwoOnOne
  Nested <- FirstTriggers
  Nothing = Nothing
  Flags <- Wanted
  Conditions = {"in", "hup"}
  MaxReady = 2
  MaxCalls = 4
INVARIANTS TypeOK TablesAgree
PROPERTIES CallsAreRight ReadyIsServed
CHECK_DEADLOCK FALSE
