SPECIFICATION StatusSpec
CONSTANTS
  Operators = {o1}
  Expirers = {e1}
  Reconciler = e1
  Ackers = {}
  Base = base
  Rovers = {}
  Strangers = {}
  Timeouts = {1}
  NoTxn = NoTxn
  NoDevice = NoDevice
  MaxClock = 2
  MaxCommands = 2
  MaxFailures = 0
  Window = 1
INVARIANT AutoResetIsReported
