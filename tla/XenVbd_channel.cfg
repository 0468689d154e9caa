CONSTANTS
  Vbds = 2
  FirstPort = 12
  MAX_DRIVES = 4
  MAX_GRANT_ENTRIES = 30
SPECIFICATION VbdSpec
INVARIANTS
  ChannelNode
CHECK_DEADLOCK FALSE
