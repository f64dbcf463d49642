SPECIFICATION FairSpec
CONSTANTS
  Operators = {o1}
  Expirers = {e1}
  Reconciler = e1
  Ackers = {a1}
  Base = base
  Rovers = {}
  Strangers = {stranger}
  Timeouts = {1}
  NoTxn = NoTxn
  NoDevice = NoDevice
  MaxClock = 2
  MaxCommands = 2
  MaxFailures = 1
PROPERTIES
  EveryStartEnds
  ImplementsProgress
