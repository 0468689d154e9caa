CONSTANTS
  RingSize = 4
  IdxMod = 8
  QueryLens = {1, 2}
  ReplyLens = {1, 2}
  XENSTORE_PAYLOAD_MAX = 3
  Errors = {"EIO"}
SPECIFICATION StoreSpec
INVARIANTS
  AnswerIntact
