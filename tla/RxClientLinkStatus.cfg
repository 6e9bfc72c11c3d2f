SPECIFICATION StatusSpec
CONSTANTS
  Frames = {f1}
  N = 3
  QueueSizes = {4}
  MaxCommands = 2
  ChannelTokens = 8
INVARIANTS
  StatusTransferInStep
