SPECIFICATION Spec
CONSTANTS
  ProgramId <- Me
  CONTROLLER_OUTPUT_MAX = 1
  vin = vin
  mcUnmapped = mcUnmapped
  Controls = {vin}
  Unmapped = mcUnmapped
  OutputMapping <- MCOutputMapping
  ParameterMapping <- MCParameterMapping
  ParameterCount = 0
  ValueTimeout <- ShortTimeout
  BusFrames <- ServedFrames
  Readings = {400000}
  Faulty = {}
  NoReading = NoReading
  NoFrame = NoFrame
  NoPoint = NoPoint
  NoControl = NoControl
  KEEP_ALIVE_INTERVAL = 2
  CONNECTION_TIMEOUT = 9
  SEND_MESSAGES_TIME = 9
  SEND_MESSAGES_INTERVAL = 3
  READ_TIMEOUT = 1
  SEND_TIMEOUT = 1
  Urgent = TRUE
  MaxTime = 11
  MaxBacklog = 1
INVARIANTS
  KeepAliveTimely
  OutputTimely
  UpdatePrompt
  IdleMeansNoWindow
  StaleNotSent
