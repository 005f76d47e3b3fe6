SPECIFICATION ConfigFairSpec
CONSTANTS
  Configurations <- MCConfigurations
  Channels <- MCChannels
  ScheduleEncodings <- MCScheduleEncodings
  Samples <- MCSamples
  CONTROLLER_OUTPUT_MAX = 32
  Malformed = Malformed
  Missing = Missing
INVARIANTS
  ConfigTypeOK
  BadControllersDropped
  CountCoversIndices
  OutputIsSensor
  UserOverridesBuiltIn
  OrdersDistinct
  CommandSetsWhatIsShown
PROPERTY BadEntriesSurvived
CHECK_DEADLOCK FALSE
