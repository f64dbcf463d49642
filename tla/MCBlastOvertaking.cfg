SPECIFICATION Spec
CONSTANTS
  Operators = {o1, o2}
  Expirers = {e1, e2}
  Reconciler = e1
  Ackers = {}
  Base = base
  Rovers = {rover}
  Strangers = {stranger}
  Timeouts = {1, 2}
  NoTxn = NoTxn
  NoDevice = NoDevice
  MaxClock = 3
  MaxCommands = 2
  MaxFailures = 1
SYMMETRY ConnectionSymmetry
INVARIANT LatestPendingIsInForce
