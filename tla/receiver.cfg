SPECIFICATION ReceiverFairSpec
CONSTANTS
  reader = reader
  controller = controller
  program = program
  value = value
  request = request
  Senders = {s1, s2}
  InitHandlers <- MCInitHandlers
  Traffic = {program, value, request}
  MaxSends = 2
  RxLength = 1
  Nobody = Nobody
  BusFrames = {program, value, request}
  AcceptFrame <- MCAcceptFrame
  FramesQueueMaxLength = 2
  NoFrame = NoFrame
INVARIANTS
  TypeOK
  EmptyGetIsSpurious
  PortTypeOK
  CalledIsRegistered
PROPERTIES
  QueuePromise
  QueuedIsHandled
  StopsEventually
  OwnConfirmation
  SendEnds
  ListenerStops
CHECK_DEADLOCK FALSE
