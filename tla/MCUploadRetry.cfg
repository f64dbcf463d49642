SPECIFICATION FairSpec
CONSTANTS
  fBase = fBase
  fRover = fRover
  fOld = fOld
  rover = rover
  Base = base
  NoFile = NoFile
  NoPayload = NoPayload
  NoRover = NoRover
  Requests = {q1}
  Files = {fBase, fRover}
  Rovers = {rover}
  Sender <- SenderOf
  Payloads = {b1}
  Legacy = {}
  MaxFaults = 1
  MaxDeaths = 0
PROPERTY FailedIsRetryable
