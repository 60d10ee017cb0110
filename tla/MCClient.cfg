SPECIFICATION FairSpec
CONSTANTS
  Main = main
  Texters = {chat}
  Controllers = {ctl}
  MaxConns = 2
  MaxCalls = 1
  MaxQueue = 1
  MaxPipe = 1
  MaxRetries = 2
INVARIANT
  ControlOnCurrent
PROPERTIES
  AckIsOwn
  DiscardedStaysSilent
  SwallowsNoMessage
  StopEndsRun
  CallsReturn
