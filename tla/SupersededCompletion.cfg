SPECIFICATION Spec
CONSTANTS
  Workers = {w1, w2}
  NoWorker = NoWorker
  Clients = {c1}
  Schedulers = {s1}
  MaxAttempts = 2
  LeaseSeconds = 1
  MaxToken = 9
  MaxTxDelay = 2
  ForcedTokens = {}
  MaxCalls = 1
  MaxForced = 0
  MaxBeats = 1
  MaxClock = 2
SYMMETRY Symmetry
CHECK_DEADLOCK FALSE
INVARIANT SupersededRejected
