\* In a ring of four cells every message of two cells or more straddles its
\* end sooner or later, a payload of four does not fit, and the indices wrap
\* every other round of the ring.
CONSTANTS
  RingSize = 4
  IdxMod = 8
  QueryLens = {1, 4}
  ReplyLens = {2}
  XENSTORE_PAYLOAD_MAX = 5
  Errors = {"EIO"}
  Vbds = 4
  FirstPort = 5
  MAX_DRIVES = 4
  MAX_GRANT_ENTRIES = 30
SPECIFICATION FairSpec
INVARIANTS
  
  ChunkPrivate
  

  
\* A request longer than the ring hangs when the daemon sleeps.
CHECK_DEADLOCK FALSE
