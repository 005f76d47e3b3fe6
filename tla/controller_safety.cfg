SPECIFICATION FairSpec
CONSTANTS
  ProgramId <- Me
  CONTROLLER_OUTPUT_MAX = 1
  vin = vin
  mcUnmapped = mcUnmapped
  Controls = {vin}
  Unmapped = mcUnmapped
  OutputMapping <- MCOutputMapping
  ParameterMapping <- MCParameterMapping
  ParameterCount = 0
  ValueTimeout <- NoTimeout
  BusFrames <- AllFrames
  Readings = {400000}
  Faulty = {vin}
  NoReading = NoReading
  NoFrame = NoFrame
  NoPoint = NoPoint
  NoControl = NoControl
  KEEP_ALIVE_INTERVAL = 1
  CONNECTION_TIMEOUT = 1
  SEND_MESSAGES_TIME = 1
  SEND_MESSAGES_INTERVAL = 1
  READ_TIMEOUT = 1
  SEND_TIMEOUT = 1
  Urgent = FALSE
  MaxTime = 2
  MaxBacklog = 2
INVARIANTS
  TypeOK
  OutputAuthorised
PROPERTIES
  PromiseKept
  StopsEventually
