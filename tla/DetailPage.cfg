SPECIFICATION DashboardSpec
CONSTANTS
  Keys = {k1}
  Watched = k1
  Unread = Unread
  Workers = {w1}
  Schedulers = {s1}
  NoWorker = NoWorker
  NoKey = NoKey
  Handled = {k1}
  MaxAttemptsEach = 2
  LeaseEach = 1
  MaxAttempts <- MCMaxAttempts
  LeaseSeconds <- MCLeaseSeconds
  MaxToken = 9
  MaxTxDelay = 0
  MaxCalls = 1
  ForcedTokens = {}
  MaxForced = 0
  MaxBeats = 0
INVARIANT AttemptsAreClaims
INVARIANT PageCoherent
INVARIANT PageMovesForward
