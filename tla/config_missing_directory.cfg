SPECIFICATION ConfigSpec
CONSTANTS
  Configurations <- MCConfigurations
  Channels <- MCChannels
  ScheduleEncodings <- MCScheduleEncodings
  Samples <- MCSamples
  CONTROLLER_OUTPUT_MAX = 32
  Malformed = Malformed
  Missing = Missing
INVARIANT MissingDirectorySurvived
CHECK_DEADLOCK FALSE
