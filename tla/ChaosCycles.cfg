SPECIFICATION AgentHangingSpec
CONSTANTS
  Keys = {k1}
  Workers = {w1, c1}
  ChaosAgent = c1
  Schedulers = {s1}
  NoWorker = NoWorker
  NoKey = NoKey
  Handled = {k1}
  MaxAttemptsEach = 2
  LeaseEach = 1
  MaxAttempts <- MCMaxAttempts
  LeaseSeconds <- MCLeaseSeconds
  ChaosSleep = 2
  ChaosEvery = 1
  MaxRounds = 1
  MaxToken = 9
  MaxTxDelay = 1
  MaxCalls = 1
  ForcedTokens = {}
  MaxForced = 0
  MaxBeats = 0
INVARIANT GhostRejected
INVARIANT NeverStranded
PROPERTY LostLeaseCancelsWork
