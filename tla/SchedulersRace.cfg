SPECIFICATION Spec
CONSTANTS
  Keys = {k1}
  Workers = {w1}
  Schedulers = {s1, s2}
  NoWorker = NoWorker
  NoKey = NoKey
  Handled = {k1}
  MaxAttemptsEach = 2
  LeaseEach = 1
  MaxAttempts <- MCMaxAttempts
  LeaseSeconds <- MCLeaseSeconds
  MaxToken = 9
  MaxTxDelay = 0
  MaxCalls = 1
  ForcedTokens = {}
  MaxForced = 0
  MaxBeats = 0
SYMMETRY Symmetry
INVARIANT AttemptsBounded
