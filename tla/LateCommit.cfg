SPECIFICATION Spec
CONSTANTS
  Keys = {k1}
  Workers = {w1}
  Schedulers = {s1}
  NoWorker = NoWorker
  NoKey = NoKey
  Handled = {k1}
  MaxAttemptsEach = 2
  LeaseEach = 3
  MaxAttempts <- MCMaxAttempts
  LeaseSeconds <- MCLeaseSeconds
  MaxToken = 9
  MaxTxDelay = 2
  MaxCalls = 1
  ForcedTokens = {}
  MaxForced = 0
  MaxBeats = 0
SYMMETRY Symmetry
PROPERTY CompletedNeverReady
