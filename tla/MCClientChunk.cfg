SPECIFICATION Spec
CONSTANTS
  Main = main
  Texters = {chat}
  Controllers = {}
  MaxConns = 1
  MaxCalls = 2
  MaxQueue = 3
  MaxPipe = 3
  MaxRetries = 3
PROPERTY
  ChunkAckIsOwn
