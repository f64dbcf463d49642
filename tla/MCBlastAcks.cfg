SPECIFICATION StatusSpec
CONSTANTS
  Operators = {o1}
  Expirers = {e1}
  Reconciler = e1
  Ackers = {a1}
  Base = base
  Rovers = {rover}
  Strangers = {stranger}
  Timeouts = {1}
  NoTxn = NoTxn
  NoDevice = NoDevice
  MaxClock = 2
  MaxCommands = 2
  MaxFailures = 0
  Window = 1
CONSTRAINT InScope
INVARIANTS
  DecisionsHold
  DeliveredByBase
  AcksNameTheirCommand
  NeverStale
  DeliveryWasTrue
PROPERTIES
  AcksAreCurrent
