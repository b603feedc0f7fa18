SPECIFICATION PartsSpec
CONSTANTS
  PacketWords = 2
  Sends = {0, 1, 3}
  FifoSize = 2
  Packets = {0, 1, 5, 8}
  Buffers = {0, 5, 6, 8}
  MaxWords = 4
  MaxPackets = 2
  Configurations = {{"in"}, {"out"}}
  Endpoints <- MCEndpoints
  RequestConfigurations <- MCConfigurations
  Values = {0, 1, 2, 3}
  Strings = 2
  Parts = {"transfers"}
  EndpointCount = 6
\* Each of these is violated: one at a time.
PROPERTY CallsAlwaysReturn
\* INVARIANT NothingLeftToSend
\* INVARIANT PacketIsAwaited
\* INVARIANT PacketsExact
CHECK_DEADLOCK FALSE
