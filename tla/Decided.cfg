SPECIFICATION FairSpec
CONSTANTS
  Keys = {k1, k2}
  Workers = {w1}
  Schedulers = {s1}
  NoWorker = NoWorker
  NoKey = NoKey
  Handled = {k1}
  MaxAttemptsEach = 2
  LeaseEach = 1
  MaxAttempts <- MCMaxAttempts
  LeaseSeconds <- MCLeaseSeconds
  MaxToken = 9
  MaxTxDelay = 0
  MaxCalls = 1
  ForcedTokens = {}
  MaxForced = 0
  MaxBeats = 0
PROPERTY EveryCallDecided
