SPECIFICATION Spec
CONSTANTS
  fBase = fBase
  fRover = fRover
  fOld = fOld
  rover = rover
  Base = base
  NoFile = NoFile
  NoPayload = NoPayload
  NoRover = NoRover
  Requests = {q1, q2}
  Files = {fBase, fRover, fOld}
  Rovers = {rover}
  Sender <- SenderOf
  Payloads = {b1, b2}
  Legacy = {fOld}
  MaxFaults = 1
  MaxDeaths = 1
SYMMETRY RequestSymmetry
INVARIANTS
  TypeOK
  OneProcessor
  RowsAreRetained
  AnsweredIsStored
  PairsAreSolved
  MeasuredAsRecorded
